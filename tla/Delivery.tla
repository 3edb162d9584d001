------------------------------ MODULE Delivery ------------------------------
(***************************************************************************)
(* What an agent is served: the six tools of the MCP server over the       *)
(* catalog and the memory of repositories, while the catalog changes under *)
(* the requests.                                                           *)
(*                                                                         *)
(* A load or a read asks the catalog three times, each time in a           *)
(* transaction of its own: for the status of the revision, for the         *)
(* revision, and for its status again (load-skill.ts,                      *)
(* read-skill-resource.ts).  In each of them the database first verifies   *)
(* the chain of advisories, with two queries: one for the head of the      *)
(* chain and one for its events (imported-skill-catalog-provider.ts).      *)
(* PostgreSQL runs these transactions at READ COMMITTED, so each query     *)
(* sees what had been committed when it began.  Here the query for the     *)
(* head is a step, and the one for the events and the rows another.        *)
(*                                                                         *)
(* First-party revisions are in memory, with the advisories of their       *)
(* release: they are asked for first (unified-catalog-provider.ts), and    *)
(* only what they do not answer goes to the database.                      *)
(*                                                                         *)
(* The content of a revision and its hashes never change: that is what     *)
(* CommitHasOneCatalog of ExternalCatalog says.  Ranking is left out, and  *)
(* so are the limits of rates and the authentication in front of the       *)
(* tools, whose refusals change nothing.                                   *)
(***************************************************************************)
EXTENDS Integers, FiniteSets, SequencesExt

CONSTANTS
    Requests,    \* the requests of agents, each served once
    Scopes,      \* an account and a repository hash
    Imported,    \* revisions that sources publish
    Release,     \* the first-party revisions, in the order in which they are admitted
    Advisory,    \* the status of each of them in the release
    Capacity,    \* entries of the cache of verified revisions
    None,        \* no scope, status or answer yet
    MaxChanges   \* bound: publications, advisories and decisions

FirstParty == ToSet(Release)
Served == Imported \cup FirstParty
Outcomes == {"useful", "unsuccessful"}

Calls == {"load", "read", "search", "list", "outcome", "forget"}

\* How a revision stands, what an agent is told, and the row of a revision in a scope.
Standings == {"available", "unavailable", "revoked", "hidden"}
Answers == {"ok", "NOT_FOUND", "REVISION_UNAVAILABLE", "MEMORY_CONFLICT", "ERASURE_INCOMPLETE",
            "INTERNAL"}
Rows == [outcome : Outcomes \cup {None}, by : SUBSET Requests]

ASSUME RevisionsAssumption == Imported \cap FirstParty = {}
ASSUME AdvisoryAssumption == Advisory \in [FirstParty -> {"available", "unavailable", "revoked"}]
ASSUME NoneAssumption ==
    None \notin Served \cup Scopes \cup Calls \cup Standings \cup Answers \cup Rows
ASSUME BoundsAssumption == Capacity \in Nat \ {0} /\ MaxChanges \in Nat

VARIABLES
    class,    \* for each imported revision its classification, or that it is not published
    status,   \* for each imported revision its last advisory
    chain,    \* the events in the chain of advisories; its head is the last
    changes,  \* what has been used of MaxChanges
    memory,   \* repository_skill_usage: for each scope and revision its row, or None
    audit,    \* repository_erasure_audit: the requests that have a row
    request   \* the requests

catalog == <<class, status, chain, changes>>
vars == <<catalog, memory, audit, request>>

\* A row has its outcome, and by history the requests that it has counted.
Unused == [outcome |-> None, by |-> {}]

\* History: how the revision has stood while the request ran, whether the chain has grown
\* and the database has failed; the requests that had ended before this one was sent; and
\* the loads whose uses it has erased.
Unsent ==
    [call |-> None, rev |-> None, scope |-> None, at |-> "unsent", head |-> None,
     status |-> None, answer |-> None,
     seen |-> {}, grown |-> FALSE, failed |-> FALSE, before |-> {}, removed |-> {}]

Init ==
    /\ class \in [Imported -> {"unknown", "verified"}]
    /\ status = [r \in Imported |-> "available"]
    /\ chain = 0 /\ changes = 0
    /\ memory = [s \in Scopes |-> [r \in Served |-> None]]
    /\ audit = {}
    /\ request = [q \in Requests |-> Unsent]

(***************************************************************************)
(* What the providers answer.                                              *)
(***************************************************************************)

\* VerifiedRevisionCache.admit: a full cache drops its oldest entry.
Cache == FoldLeft(LAMBDA held, r : IF Len(held) >= Capacity THEN Append(Tail(held), r)
                                   ELSE Append(held, r),
                  <<>>, Release)

\* How a revision stands: hidden if it is unknown or quarantined.
Standing(cls, sts, r) ==
    CASE r \in FirstParty -> Advisory[r]
      [] r \in Imported /\ cls[r] = "verified" -> sts[r]
      [] OTHER -> "hidden"

\* advisoryStatus: nothing is said of what is hidden.
StatusOf(r) == IF Standing(class, status, r) = "hidden" THEN None ELSE Standing(class, status, r)

\* Mutant: an exact revision is found whatever it is classified as.
FoundUnlessRevoked(r) ==
    IF r \in FirstParty THEN Advisory[r] = "available" ELSE class[r] # "unknown" /\ status[r] # "revoked"

\* findRevision: the release serves an unavailable revision from the cache only, the
\* database serves it from its content objects.
Found(r) ==
    /\ Standing(class, status, r) \in {"available", "unavailable"}
    /\ r \in FirstParty /\ Advisory[r] = "unavailable" => r \in ToSet(Cache)

\* UnifiedCatalogProvider: the release answers without the database.
Local(q) ==
    /\ request[q].at \in {"status", "find", "latest", "final"}
    /\ request[q].rev \in FirstParty
    /\ request[q].at = "find" => Found(request[q].rev)

(***************************************************************************)
(* The steps of requests.                                                  *)
(***************************************************************************)

At(q, step) == request[q].at = step /\ request[q].answer = None

Goto(q, step) == [request[q] EXCEPT !.at = step, !.head = None]

Set(q, record) == request' = [request EXCEPT ![q] = record]

Answer(q, answer) == Set(q, [Goto(q, "done") EXCEPT !.answer = answer])

\* The first step of a request.
First(call, scope) ==
    CASE call \in {"load", "read"} -> "status"
      [] call = "search" -> IF scope = None THEN "catalog" ELSE "ranking"
      [] OTHER -> call

\* A request arrives; a search and a load may come without a scope, a read has none.
Arrive(q) ==
    /\ request[q].at = "unsent"
    /\ \E call \in Calls, r \in Served \cup {None}, s \in Scopes \cup {None} :
          /\ r # None <=> call \in {"load", "read", "outcome"}
          /\ call = "read" => s = None
          /\ call \in {"list", "outcome", "forget"} => s # None
          /\ Set(q, [Unsent EXCEPT !.call = call, !.rev = r, !.scope = s, !.at = First(call, s),
                                   !.seen = {Standing(class, status, r)},
                                   !.before = {p \in Requests : request[p].at = "done"}])
    /\ UNCHANGED <<catalog, memory, audit>>

InCatalog == {"status", "find", "latest", "final", "catalog"}

\* verifyAdvisories: the query for the head of the chain.
ReadHead(q) ==
    /\ request[q].at \in InCatalog /\ request[q].answer = None
    /\ ~Local(q) /\ request[q].head = None
    /\ Set(q, [request[q] EXCEPT !.head = chain])
    /\ UNCHANGED <<catalog, memory, audit>>

\* The query for the events is next, and the rows.
Ready(q, step) == At(q, step) /\ (Local(q) \/ request[q].head # None)

\* verifyExternalAdvisoryChain: the last event is not the head that was read.
Mismatch(q) == ~Local(q) /\ request[q].head # chain

\* A request ends in NOT_FOUND if the revision is revoked.
Status(q) ==
    /\ Ready(q, "status")
    /\ LET now == StatusOf(request[q].rev)
       IN \/ Mismatch(q) /\ Answer(q, "INTERNAL")
          \/ ~Mismatch(q) /\ now = "revoked" /\ Answer(q, "NOT_FOUND")
          \/ ~Mismatch(q) /\ now # "revoked" /\ Set(q, [Goto(q, "find") EXCEPT !.status = now])
    /\ UNCHANGED <<catalog, memory, audit>>

\* Whatever findRevision throws makes the revision unavailable.
Find(q) ==
    /\ Ready(q, "find")
    /\ \/ Mismatch(q) /\ Answer(q, "REVISION_UNAVAILABLE")
       \/ ~Mismatch(q) /\ Set(q, Goto(q, IF Found(request[q].rev) THEN "final" ELSE "latest"))
    /\ UNCHANGED <<catalog, memory, audit>>

\* A revision that is not found is unavailable, or it does not exist.
Latest(q) ==
    /\ Ready(q, "latest")
    /\ Answer(q, CASE Mismatch(q) -> "INTERNAL"
                   [] ~Mismatch(q) /\ StatusOf(request[q].rev) = "unavailable" -> "REVISION_UNAVAILABLE"
                   [] OTHER -> "NOT_FOUND")
    /\ UNCHANGED <<catalog, memory, audit>>

\* The last look at the status: what is hidden by now has none, and then the first
\* status is reported, or that the revision is available.
Final(q) ==
    /\ Ready(q, "final")
    /\ LET now == StatusOf(request[q].rev)
           told == IF now # None THEN now
                   ELSE IF request[q].status # None THEN request[q].status ELSE "available"
           load == request[q].call = "load" /\ request[q].scope # None
       IN \/ Mismatch(q) /\ Answer(q, "INTERNAL")
          \/ ~Mismatch(q) /\ now = "revoked" /\ Answer(q, "NOT_FOUND")
          \/ ~Mismatch(q) /\ now # "revoked" /\ load
             /\ Set(q, [Goto(q, "record") EXCEPT !.status = told])
          \/ ~Mismatch(q) /\ now # "revoked" /\ ~load
             /\ Set(q, [Goto(q, "done") EXCEPT !.status = told, !.answer = "ok"])
    /\ UNCHANGED <<catalog, memory, audit>>

\* search_skills: the memory of the scope, and then the catalog.
Search(q) ==
    /\ \/ At(q, "ranking") /\ Set(q, Goto(q, "catalog"))
       \/ Ready(q, "catalog") /\ Answer(q, IF Mismatch(q) THEN "INTERNAL" ELSE "ok")
    /\ UNCHANGED <<catalog, memory, audit>>

List(q) ==
    /\ At(q, "list")
    /\ Answer(q, "ok")
    /\ UNCHANGED <<catalog, memory, audit>>

(***************************************************************************)
(* What requests write, in one statement each.  The reply to COMMIT may be *)
(* lost, and a COMMIT that has been sent may be done after the deadline,   *)
(* when the agent has had its answer.                                      *)
(***************************************************************************)

Writing == {"record", "outcome", "forget"}

WriteError(q) == IF request[q].call = "forget" THEN "ERASURE_INCOMPLETE" ELSE "INTERNAL"

\* A write is done: the agent is told, or the reply to COMMIT is lost.
Told(q, record) ==
    LET done == [record EXCEPT !.at = "done"]
    IN IF record.answer # None THEN Set(q, done)
       ELSE \/ Set(q, [done EXCEPT !.answer = "ok"])
            \/ Set(q, [done EXCEPT !.answer = WriteError(q), !.failed = TRUE])

\* Mutant: a later load replaces the row.
RecordAfresh(q) ==
    /\ request[q].at = "record"
    /\ memory' = [memory EXCEPT ![request[q].scope][request[q].rev] = [Unused EXCEPT !.by = {q}]]
    /\ Told(q, request[q])
    /\ UNCHANGED <<catalog, audit>>

\* recordUsage: the first load makes a row, later ones count in it and keep its outcome.
Record(q) ==
    /\ request[q].at = "record"
    /\ LET s == request[q].scope
           r == request[q].rev
           row == IF memory[s][r] = None THEN Unused ELSE memory[s][r]
       IN memory' = [memory EXCEPT ![s][r] = [row EXCEPT !.by = @ \cup {q}]]
    /\ Told(q, request[q])
    /\ UNCHANGED <<catalog, audit>>

\* Mutant: an outcome makes the row that it needs.
OutcomeOfUnused(q) ==
    /\ request[q].at = "outcome"
    /\ LET s == request[q].scope
           r == request[q].rev
           row == IF memory[s][r] = None THEN Unused ELSE memory[s][r]
       IN \E o \in Outcomes : memory' = [memory EXCEPT ![s][r] = [row EXCEPT !.outcome = o]]
    /\ Told(q, request[q])
    /\ UNCHANGED <<catalog, audit>>

\* replaceOutcome: an outcome needs a row.
Outcome(q) ==
    /\ request[q].at = "outcome"
    /\ LET s == request[q].scope
           r == request[q].rev
       IN \/ /\ memory[s][r] = None
             /\ At(q, "outcome") /\ Answer(q, "MEMORY_CONFLICT")
             /\ UNCHANGED memory
          \/ /\ memory[s][r] # None
             /\ \E o \in Outcomes : memory' = [memory EXCEPT ![s][r].outcome = o]
             /\ Told(q, request[q])
    /\ UNCHANGED <<catalog, audit>>

Counted(s) == UNION {memory[s][r].by : r \in {x \in Served : memory[s][x] # None}}

\* Mutant: only what has an outcome is erased.
ForgetOutcomes(q) ==
    /\ request[q].at = "forget"
    /\ LET s == request[q].scope
       IN memory' = [memory EXCEPT ![s] = [r \in Served |->
              IF memory[s][r] # None /\ memory[s][r].outcome = None THEN memory[s][r] ELSE None]]
    /\ audit' = audit \cup {q}
    /\ Told(q, [request[q] EXCEPT !.removed = Counted(request[q].scope)])
    /\ UNCHANGED catalog

\* forget: the rows of the scope and the row of the audit are one statement.
Forget(q) ==
    /\ request[q].at = "forget"
    /\ memory' = [memory EXCEPT ![request[q].scope] = [r \in Served |-> None]]
    /\ audit' = audit \cup {q}
    /\ Told(q, [request[q] EXCEPT !.removed = Counted(request[q].scope)])
    /\ UNCHANGED catalog

\* A query fails, or a COMMIT that has not been done.
Fail(q) ==
    /\ request[q].at \notin {"unsent", "done"} /\ ~Local(q)
    /\ IF request[q].answer # None THEN Set(q, Goto(q, "done"))
       ELSE Set(q, [Goto(q, "done") EXCEPT !.failed = TRUE,
                        !.answer = IF request[q].at = "find" THEN "REVISION_UNAVAILABLE"
                                   ELSE WriteError(q)])
    /\ UNCHANGED <<catalog, memory, audit>>

\* The deadline: the agent is answered, and the request stops before its next query,
\* unless that is a COMMIT on its way.
TimeOut(q) ==
    /\ request[q].at \notin {"unsent", "done"} /\ request[q].answer = None
    /\ \/ Answer(q, "INTERNAL")
       \/ request[q].at \in Writing /\ Set(q, [request[q] EXCEPT !.answer = "INTERNAL"])
    /\ UNCHANGED <<catalog, memory, audit>>

(***************************************************************************)
(* The catalog changes meanwhile (see ExternalCatalog).                    *)
(***************************************************************************)

\* Requests that run see how their revision stands now.
Witnessed(events) ==
    request' = [q \in Requests |->
        IF request[q].at \in {"unsent", "done"} THEN request[q]
        ELSE [request[q] EXCEPT !.seen = @ \cup {Standing(class', status', request[q].rev)},
                                !.grown = @ \/ events > 0]]

\* appendAdvisory and what else its transaction does: an event and the head are one commit.
Advise(r) ==
    /\ changes < MaxChanges /\ class[r] # "unknown"
    /\ \E s \in {"available", "unavailable", "revoked"} \ {status[r]} : status' = [status EXCEPT ![r] = s]
    /\ chain' = chain + 1
    /\ changes' = changes + 1
    /\ UNCHANGED <<class, memory, audit>>
    /\ Witnessed(1)

\* A revision is published, quarantined, or verified again: no advisory is appended.
Reclassify(r) ==
    /\ changes < MaxChanges
    /\ class' = [class EXCEPT ![r] = IF @ = "verified" THEN "quarantined" ELSE "verified"]
    /\ changes' = changes + 1
    /\ UNCHANGED <<status, chain, memory, audit>>
    /\ Witnessed(0)

Serve(q) ==
    \/ Arrive(q) \/ ReadHead(q) \/ Status(q) \/ Find(q) \/ Latest(q) \/ Final(q)
    \/ Search(q) \/ List(q) \/ Record(q) \/ Outcome(q) \/ Forget(q)
    \/ Fail(q) \/ TimeOut(q)

Next ==
    \/ \E q \in Requests : Serve(q)
    \/ \E r \in Imported : Advise(r) \/ Reclassify(r)

Spec == Init /\ [][Next]_vars

(***************************************************************************)
(* Properties.                                                             *)
(***************************************************************************)

\* Requests, rows, audit and catalog are well formed; a row counts loads of its scope and
\* revision only.
TypeOK ==
    /\ class \in [Imported -> {"unknown", "verified", "quarantined"}]
    /\ status \in [Imported -> {"available", "unavailable", "revoked"}]
    /\ changes \in 0..MaxChanges /\ chain \in 0..changes
    /\ audit \subseteq {q \in Requests : request[q].call = "forget"}
    /\ \A s \in Scopes, r \in Served : memory[s][r] # None =>
          /\ memory[s][r].outcome \in Outcomes \cup {None}
          /\ memory[s][r].by # {}
          /\ \A q \in memory[s][r].by :
                request[q].call = "load" /\ request[q].rev = r /\ request[q].scope = s
    /\ \A q \in Requests :
          /\ request[q].at \in InCatalog \cup Writing \cup {"unsent", "ranking", "list", "done"}
          /\ request[q].head \in 0..chain \cup {None}
          /\ request[q].answer = None => request[q].at # "done"
          /\ request[q].answer # None => request[q].at \in Writing \cup {"done"}

Exact(q) == request[q].call \in {"load", "read"} /\ request[q].at = "done"

\* What an agent is told of an exact revision was so at some time while it asked: it gets
\* a revision that could be served, is told NOT_FOUND of one that was hidden or revoked,
\* and REVISION_UNAVAILABLE without a fault or a change of the chain only of one that was
\* unavailable.
AnswersAreTimely ==
    \A q \in Requests : Exact(q) =>
        /\ request[q].answer = "ok" => request[q].seen \cap {"available", "unavailable"} # {}
        /\ request[q].answer = "NOT_FOUND" => request[q].seen \cap {"hidden", "revoked"} # {}
        /\ request[q].answer = "REVISION_UNAVAILABLE" /\ ~request[q].grown /\ ~request[q].failed =>
              "unavailable" \in request[q].seen

Erasures(s) == {f \in Requests : request[f].call = "forget" /\ request[f].scope = s}

Erased(s) == UNION {request[f].removed : f \in Erasures(s)}

\* A load that says that it has been recorded is counted, until an erasure of its scope
\* that has its row in the audit; a load that is refused is not remembered, whatever
\* changed while it ran.
UsesAreAccountedFor ==
    \A q \in Requests : request[q].call = "load" /\ request[q].scope # None =>
        LET s == request[q].scope
        IN /\ request[q].answer = "ok" =>
                 \/ q \in Counted(s)
                 \/ \E f \in Erasures(s) \cap audit : q \in request[f].removed
           /\ request[q].answer \in {"NOT_FOUND", "REVISION_UNAVAILABLE"} =>
                 q \notin Counted(s) \cup Erased(s)

\* Once an agent has been told that a scope is forgotten, no load that had ended before it
\* asked for that is counted in it, and the erasure is in the audit.
ForgottenStaysForgotten ==
    \A f \in Requests : request[f].call = "forget" /\ request[f].answer = "ok" =>
        f \in audit /\ Counted(request[f].scope) \cap request[f].before = {}
=============================================================================
