---------------------------- MODULE DeliveryProofs ----------------------------
(***************************************************************************)
(* Proofs about Delivery, for any sets of requests, scopes and revisions,  *)
(* any release, cache and number of changes.                               *)
(***************************************************************************)
EXTENDS Delivery, TLAPS

(***************************************************************************)
(* The inductive invariant: what each place of a request knows.            *)
(***************************************************************************)
Places == InCatalog \cup Writing \cup {"unsent", "ranking", "list", "done"}

Ended == {"unsent", "done"}

Refused == {"NOT_FOUND", "REVISION_UNAVAILABLE"}

Req == [call : Calls \cup {None}, rev : Served \cup {None}, scope : Scopes \cup {None},
        at : Places, head : Nat \cup {None}, status : Standings \cup {None},
        answer : Answers \cup {None}, seen : SUBSET Standings, grown : BOOLEAN,
        failed : BOOLEAN, before : SUBSET Requests, removed : SUBSET Requests]

\* The calls go through places of their own.
ShapeOK(x) ==
    /\ x.at \in {"status", "find", "latest", "final", "record"} =>
          x.call \in {"load", "read"} /\ x.rev \in Served
    /\ x.call = "load" => x.rev \in Served
    /\ x.at = "record" => x.call = "load" /\ x.scope \in Scopes
    /\ x.at = "outcome" => x.call = "outcome" /\ x.rev \in Served /\ x.scope \in Scopes
    /\ x.at = "forget" => x.call = "forget"
    /\ x.call = "forget" => x.scope \in Scopes
    /\ x.at \in {"ranking", "catalog"} => x.call = "search"
    /\ x.at = "list" => x.call = "list"
    /\ x.answer = None => x.at # "done"
    /\ x.answer # None => x.at \in Writing \cup {"done"}
    /\ x.at \in Writing => x.answer \in {None, "INTERNAL"}

\* A request remembers how its revision stands, and the chain since it has read the head.
FollowsOK(x) ==
    /\ x.at \notin Ended => Standing(class, status, x.rev) \in x.seen
    /\ x.head \in 0..chain \cup {None}
    /\ x.at \notin Ended /\ x.head # None /\ x.head # chain => x.grown

Servable(x) == x.seen \cap {"available", "unavailable"} # {}
Hidden(x) == x.seen \cap {"hidden", "revoked"} # {}

\* What has been found, or not, was so.
FoundOK(x) ==
    /\ x.at \in {"final", "record"} => Servable(x)
    /\ x.at = "latest" => Hidden(x) \/ (x.rev \in FirstParty /\ Advisory[x.rev] = "unavailable")
    /\ x.at = "done" /\ x.call \in {"load", "read"} =>
          /\ x.answer = "ok" => Servable(x)
          /\ x.answer = "NOT_FOUND" => Hidden(x)
          /\ x.answer = "REVISION_UNAVAILABLE" /\ ~x.grown /\ ~x.failed => "unavailable" \in x.seen

\* What an erasure has removed is in the audit.
ErasureOK(q, x) ==
    /\ x.removed # {} => x.call = "forget" /\ x.at = "done" /\ q \in audit
    /\ q \in audit => x.at = "done"
    /\ x.call = "forget" /\ x.answer = "ok" => q \in audit

\* A request that has been counted, of that scope, is done and was not refused.
WasLoaded(q, s) ==
    /\ request[q].call = "load" /\ request[q].scope = s
    /\ request[q].at = "done" /\ request[q].answer \notin Refused

RequestOK(q) ==
    /\ ShapeOK(request[q]) /\ FollowsOK(request[q]) /\ FoundOK(request[q])
    /\ ErasureOK(q, request[q])
    /\ \A p \in request[q].before : request[p].at = "done"
    /\ \A p \in request[q].removed : WasLoaded(p, request[q].scope)

CatalogOK ==
    /\ class \in [Imported -> {"unknown", "verified", "quarantined"}]
    /\ status \in [Imported -> {"available", "unavailable", "revoked"}]
    /\ changes \in 0..MaxChanges /\ chain \in 0..changes

MemoryOK ==
    /\ memory \in [Scopes -> [Served -> Rows \cup {None}]]
    /\ \A s \in Scopes, r \in Served : memory[s][r] # None =>
          /\ memory[s][r].by # {}
          /\ \A q \in memory[s][r].by : WasLoaded(q, s) /\ request[q].rev = r
    /\ audit \subseteq {q \in Requests : request[q].call = "forget"}

\* A load that has been confirmed has not been lost, and one that had ended before an
\* erasure that has been confirmed is not there.
Accounted(q) ==
    request[q].call = "load" /\ request[q].scope # None /\ request[q].answer = "ok" =>
        \/ q \in Counted(request[q].scope)
        \/ \E f \in Erasures(request[q].scope) \cap audit : q \in request[f].removed

Forgotten(f) ==
    request[f].call = "forget" /\ request[f].answer = "ok" =>
        Counted(request[f].scope) \cap request[f].before = {}

IInv ==
    /\ request \in [Requests -> Req]
    /\ CatalogOK /\ MemoryOK
    /\ \A q \in Requests : RequestOK(q) /\ Accounted(q) /\ Forgotten(q)

-----------------------------------------------------------------------------
(***************************************************************************)
(* Facts about the definitions.                                            *)
(***************************************************************************)
LEMMA StandingType ==
    ASSUME CatalogOK, NEW r \in Served \cup {None}
    PROVE  Standing(class, status, r) \in Standings
BY AdvisoryAssumption DEF CatalogOK, Standing, Standings

\* What a provider says of a revision is how it stands.
LEMMA StatusOfMeaning ==
    ASSUME CatalogOK, NEW r \in Served \cup {None}
    PROVE  /\ Standing(class, status, r) = "hidden" <=> StatusOf(r) = None
           /\ StatusOf(r) # None => StatusOf(r) = Standing(class, status, r)
BY StandingType, NoneAssumption DEF StatusOf, Standings

LEMMA CountedMeaning ==
    ASSUME MemoryOK, NEW s \in Scopes, NEW q
    PROVE  q \in Counted(s) <=> \E r \in Served : memory[s][r] # None /\ q \in memory[s][r].by
BY DEF Counted

LEMMA CountedLoaded ==
    ASSUME MemoryOK, NEW s \in Scopes, NEW q \in Counted(s)
    PROVE  WasLoaded(q, s) /\ q \in Requests
<1>1. PICK r \in Served : memory[s][r] # None /\ q \in memory[s][r].by
  BY CountedMeaning
<1>2. memory[s][r] \in Rows
  BY <1>1 DEF MemoryOK
<1> QED
  BY <1>1, <1>2 DEF MemoryOK, Rows

\* The rows decide what is counted.
LEMMA CountedSame ==
    ASSUME NEW s, memory'[s] = memory[s]
    PROVE  Counted(s)' = Counted(s)
BY DEF Counted

-----------------------------------------------------------------------------
(***************************************************************************)
(* Steps that write nothing: one request goes on or ends.                  *)
(***************************************************************************)
LEMMA QuietStep ==
    ASSUME IInv, NEW q \in Requests, NEW x \in Req,
           request' = [request EXCEPT ![q] = x],
           UNCHANGED <<catalog, memory, audit>>,
           request[q].at # "done",
           x.removed = {},
           x.answer = "ok" => x.call # "forget" /\ (x.call = "load" => x.scope = None),
           \A p \in x.before : request[p].at = "done",
           ShapeOK(x), FollowsOK(x), FoundOK(x),
           request[q].at # "unsent" => x.call = request[q].call /\ x.scope = request[q].scope
    PROVE  IInv'
<1> USE DEF catalog
<1>1. request' \in [Requests -> Req] /\ request'[q] = x
      /\ \A p \in Requests : p # q => request'[p] = request[p]
  BY DEF IInv
<1>2. CatalogOK' /\ q \notin audit
  BY DEF IInv, CatalogOK, RequestOK, ErasureOK
<1>3. \A p \in Requests : \A s : WasLoaded(p, s) => p # q /\ WasLoaded(p, s)'
  BY <1>1 DEF WasLoaded
<1>4. MemoryOK'
  <2>1. ASSUME NEW s \in Scopes, NEW r \in Served, memory'[s][r] # None
        PROVE  /\ memory'[s][r].by # {}
               /\ \A p \in memory'[s][r].by : WasLoaded(p, s)' /\ request'[p].rev = r
    <3>1. memory[s][r] \in Rows
      BY <2>1 DEF IInv, MemoryOK
    <3>2. \A p \in memory[s][r].by : p \in Requests
      BY <3>1 DEF Rows
    <3> QED
      BY <2>1, <3>2, <1>1, <1>3 DEF IInv, MemoryOK
  <2>2. audit' \subseteq {p \in Requests : request'[p].call = "forget"}
    BY <1>1, <1>2 DEF IInv, MemoryOK
  <2> QED
    BY <2>1, <2>2 DEF IInv, MemoryOK
<1>5. ASSUME NEW p \in Requests PROVE RequestOK(p)'
  <2>1. CASE p = q
    BY <2>1, <1>1, <1>2, <1>3 DEF RequestOK, ErasureOK, ShapeOK, FollowsOK, FoundOK, Servable, Hidden
  <2>2. CASE p # q
    <3>1. request'[p] = request[p] /\ RequestOK(p) /\ request[p] \in Req
      BY <2>2, <1>1 DEF IInv
    <3>2. \A b \in request[p].before : b \in Requests /\ b # q
      BY <3>1 DEF RequestOK, Req
    <3>3. \A b \in request[p].removed : b \in Requests
      BY <3>1 DEF Req
    <3> QED
      BY <3>1, <3>2, <3>3, <1>1, <1>3
      DEF RequestOK, ErasureOK, ShapeOK, FollowsOK, FoundOK, Servable, Hidden
  <2> QED
    BY <2>1, <2>2
<1>6. \A s : Counted(s)' = Counted(s)
  BY CountedSame
<1>7. ASSUME NEW p \in Requests PROVE Accounted(p)'
  <2>1. CASE p = q
    BY <2>1, <1>1 DEF Accounted
  <2>2. CASE p # q
    <3>1. request'[p] = request[p] /\ Accounted(p)
      BY <2>2, <1>1 DEF IInv
    <3>2. ASSUME NEW s, NEW f \in Erasures(s) \cap audit, p \in request[f].removed
          PROVE  f \in (Erasures(s) \cap audit)' /\ p \in request'[f].removed
      <4>1. f # q
        BY <3>2 DEF IInv, RequestOK, ErasureOK, Erasures
      <4> QED
        BY <4>1, <3>2, <1>1 DEF Erasures
    <3> QED
      BY <3>1, <3>2, <1>6 DEF Accounted
  <2> QED
    BY <2>1, <2>2
<1>8. ASSUME NEW p \in Requests PROVE Forgotten(p)'
  BY <1>1, <1>6 DEF IInv, Forgotten
<1> QED
  BY <1>1, <1>2, <1>4, <1>5, <1>7, <1>8 DEF IInv

\* Fields that change keep their types.
LEMMA ReqUpdate ==
    ASSUME NEW y \in Req, NEW pc \in Places, NEW h \in Nat \cup {None},
           NEW st \in Standings \cup {None}, NEW a \in Answers \cup {None}
    PROVE  /\ [y EXCEPT !.at = pc, !.head = h, !.answer = a] \in Req
           /\ [y EXCEPT !.at = pc, !.head = h, !.status = st] \in Req
<1>1. [y EXCEPT !.at = pc, !.head = h, !.answer = a] \in Req
  BY ZenonT(60) DEF Req
<1>2. [y EXCEPT !.at = pc, !.head = h, !.status = st] \in Req
  BY ZenonT(60) DEF Req
<1> QED
  BY <1>1, <1>2

LEMMA ReqEnd ==
    ASSUME NEW y \in Req, NEW st \in Standings \cup {None}
    PROVE  [y EXCEPT !.at = "done", !.head = None, !.status = st, !.answer = "ok"] \in Req
<1>1. "done" \in Places /\ "ok" \in Answers
  BY DEF Places, Answers
<1> QED
  BY <1>1, ZenonT(60) DEF Req

LEMMA ReqUnsent ==
    ASSUME NEW call \in Calls, NEW r \in Served \cup {None}, NEW s \in Scopes \cup {None},
           NEW pc \in Places, NEW seen \in SUBSET Standings, NEW before \in SUBSET Requests
    PROVE  [Unsent EXCEPT !.call = call, !.rev = r, !.scope = s, !.at = pc, !.seen = seen,
                          !.before = before] \in Req
BY DEF Req, Unsent

LEMMA ReqFail ==
    ASSUME NEW y \in Req, NEW a \in Answers \cup {None}
    PROVE  /\ [y EXCEPT !.at = "done", !.head = None] \in Req
           /\ [y EXCEPT !.at = "done", !.head = None, !.failed = TRUE, !.answer = a] \in Req
<1>1. "done" \in Places
  BY DEF Places
<1>2. [y EXCEPT !.at = "done", !.head = None] \in Req
  BY <1>1, ZenonT(60) DEF Req
<1>3. [y EXCEPT !.at = "done", !.head = None, !.failed = TRUE, !.answer = a] \in Req
  BY <1>1, ZenonT(60) DEF Req
<1> QED
  BY <1>2, <1>3

\* What is known of a request that runs.
LEMMA Running ==
    ASSUME IInv, NEW q \in Requests, request[q].at \notin Ended
    PROVE  /\ request[q] \in Req /\ request[q].removed = {} /\ q \notin audit
           /\ ShapeOK(request[q]) /\ FollowsOK(request[q]) /\ FoundOK(request[q])
           /\ \A p \in request[q].before : request[p].at = "done"
           /\ Standing(class, status, request[q].rev) \in request[q].seen
BY DEF IInv, RequestOK, ErasureOK, FollowsOK, Ended

\* A request is answered without having written anything.
LEMMA AnswerStep ==
    ASSUME IInv, NEW q \in Requests, NEW a \in Answers,
           request[q].at \notin Ended, request[q].answer = None, Answer(q, a),
           UNCHANGED <<catalog, memory, audit>>,
           a = "ok" => request[q].call \notin {"forget", "load", "read"},
           a = "NOT_FOUND" => Hidden(request[q]),
           a = "REVISION_UNAVAILABLE" => request[q].grown \/ "unavailable" \in request[q].seen
    PROVE  IInv'
<1> DEFINE x == [request[q] EXCEPT !.at = "done", !.head = None, !.answer = a]
<1>0. /\ request[q] \in Req /\ request[q].removed = {}
      /\ ShapeOK(request[q]) /\ FollowsOK(request[q]) /\ FoundOK(request[q])
      /\ \A p \in request[q].before : request[p].at = "done"
      /\ Standing(class, status, request[q].rev) \in request[q].seen
  BY Running
<1>1. request' = [request EXCEPT ![q] = x]
  BY <1>0 DEF Answer, Set, Goto
<1>2. x \in Req
  BY <1>0, ReqUpdate DEF Places
<1>3. ShapeOK(x) /\ FollowsOK(x) /\ FoundOK(x)
  <2>1. ShapeOK(x)
    BY <1>0, NoneAssumption DEF ShapeOK, Writing
  <2>2. FollowsOK(x)
    BY <1>0 DEF FollowsOK, Ended
  <2>3. FoundOK(x)
    BY <1>0 DEF FoundOK, Req, Hidden, Servable
  <2> QED
    BY <2>1, <2>2, <2>3
<1>4. /\ x.removed = {} /\ x.call = request[q].call /\ x.scope = request[q].scope
      /\ x.answer = a /\ x.before = request[q].before
  BY <1>0 DEF Req
<1>5. request[q].at # "done" /\ request[q].at # "unsent"
  BY DEF Ended
<1> HIDE DEF x
<1> QED
  BY <1>0, <1>1, <1>2, <1>3, <1>4, <1>5, QuietStep

\* A request goes on, to where it may.
LEMMA GoStep ==
    ASSUME IInv, NEW q \in Requests, NEW pc \in Places \ Ended, NEW st,
           request[q].at \notin Ended, request[q].answer = None,
           st \in Standings \cup {None},
           request' = [request EXCEPT ![q] = [Goto(q, pc) EXCEPT !.status = st]],
           UNCHANGED <<catalog, memory, audit>>,
           request[q].at \in {"status", "find", "final"} =>
               pc \in {"find", "latest", "final", "record"},
           pc = "record" => request[q].call = "load" /\ request[q].scope \in Scopes,
           pc \notin {"status", "outcome", "forget"},
           request[q].at \notin {"status", "find", "final"} =>
               pc = "catalog" /\ request[q].at = "ranking",
           pc \in {"final", "record"} => Servable(request[q]),
           pc = "latest" => \/ Hidden(request[q])
                            \/ /\ request[q].rev \in FirstParty
                               /\ Advisory[request[q].rev] = "unavailable"
    PROVE  IInv'
<1> DEFINE x == [request[q] EXCEPT !.at = pc, !.head = None, !.status = st]
<1>0. /\ request[q] \in Req /\ request[q].removed = {}
      /\ ShapeOK(request[q]) /\ FollowsOK(request[q]) /\ FoundOK(request[q])
      /\ \A p \in request[q].before : request[p].at = "done"
      /\ Standing(class, status, request[q].rev) \in request[q].seen
  BY Running
<1>1. request' = [request EXCEPT ![q] = x]
  BY <1>0 DEF Goto
<1>2. x \in Req
  BY <1>0, ReqUpdate
<1>3. ShapeOK(x)
  BY <1>0, NoneAssumption DEF ShapeOK, Writing, Ended, Places, InCatalog
<1>4. FollowsOK(x)
  BY <1>0 DEF FollowsOK, Req
<1>5. FoundOK(x)
  <2>1. /\ x.at = pc /\ x.seen = request[q].seen /\ x.rev = request[q].rev
    BY <1>0 DEF Req
  <2> HIDE DEF x
  <2> QED
    BY <2>1 DEF FoundOK, Hidden, Servable, Ended
<1>6. /\ x.removed = {} /\ x.call = request[q].call /\ x.scope = request[q].scope
      /\ x.answer # "ok" /\ x.before = request[q].before
  BY <1>0, NoneAssumption DEF Req, Answers
<1>7. request[q].at # "done" /\ request[q].at # "unsent"
  BY DEF Ended
<1> HIDE DEF x
<1> QED
  BY <1>0, <1>1, <1>2, <1>3, <1>4, <1>5, <1>6, <1>7, QuietStep

LEMMA ArriveStep ==
    ASSUME IInv, NEW q \in Requests, Arrive(q)
    PROVE  IInv'
<1>1. PICK call \in Calls, r \in Served \cup {None}, s \in Scopes \cup {None} :
          /\ r # None <=> call \in {"load", "read", "outcome"}
          /\ call = "read" => s = None
          /\ call \in {"list", "outcome", "forget"} => s # None
          /\ Set(q, [Unsent EXCEPT !.call = call, !.rev = r, !.scope = s, !.at = First(call, s),
                                   !.seen = {Standing(class, status, r)},
                                   !.before = {p \in Requests : request[p].at = "done"}])
  BY DEF Arrive
<1> DEFINE x == [Unsent EXCEPT !.call = call, !.rev = r, !.scope = s, !.at = First(call, s),
                               !.seen = {Standing(class, status, r)},
                               !.before = {p \in Requests : request[p].at = "done"}]
<1>2. /\ x.call = call /\ x.rev = r /\ x.scope = s /\ x.at = First(call, s)
      /\ x.seen = {Standing(class, status, r)}
      /\ x.before = {p \in Requests : request[p].at = "done"}
      /\ x.head = None /\ x.status = None /\ x.answer = None /\ x.removed = {}
      /\ x.grown = FALSE /\ x.failed = FALSE
  BY DEF Unsent
<1>3. First(call, s) \in {"status", "ranking", "catalog", "list", "outcome", "forget"}
      /\ (First(call, s) = "status" <=> call \in {"load", "read"})
      /\ (First(call, s) = "outcome" <=> call = "outcome")
      /\ (First(call, s) = "forget" <=> call = "forget")
      /\ (First(call, s) \in {"ranking", "catalog"} <=> call = "search")
      /\ (First(call, s) = "list" <=> call = "list")
  BY DEF First, Calls
<1>4. x \in Req
  <2>1. First(call, s) \in Places /\ {Standing(class, status, r)} \in SUBSET Standings
    BY <1>3, StandingType DEF IInv, Places, InCatalog, Writing
  <2> QED
    BY <2>1, ReqUnsent
<1>5. ShapeOK(x)
  BY <1>1, <1>2, <1>3, NoneAssumption DEF ShapeOK, Writing
<1>6. FollowsOK(x) /\ FoundOK(x)
  BY <1>2, <1>3 DEF FollowsOK, FoundOK
<1>7. request' = [request EXCEPT ![q] = x]
  BY <1>1 DEF Set
<1>8. request[q].at = "unsent" /\ UNCHANGED <<catalog, memory, audit>>
  BY DEF Arrive
<1>9. x.answer # "ok"
  BY <1>2, NoneAssumption DEF Answers
<1> HIDE DEF x
<1> QED
  BY <1>2, <1>4, <1>5, <1>6, <1>7, <1>8, <1>9, QuietStep

LEMMA ReadHeadStep ==
    ASSUME IInv, NEW q \in Requests, ReadHead(q)
    PROVE  IInv'
<1> DEFINE x == [request[q] EXCEPT !.head = chain]
<1>1. request[q].at \in InCatalog /\ request[q].at \notin Ended
      /\ request' = [request EXCEPT ![q] = x] /\ UNCHANGED <<catalog, memory, audit>>
      /\ request[q].answer = None
  BY DEF ReadHead, Set, InCatalog, Ended
<1>0. /\ request[q] \in Req /\ request[q].removed = {}
      /\ ShapeOK(request[q]) /\ FollowsOK(request[q]) /\ FoundOK(request[q])
      /\ \A p \in request[q].before : request[p].at = "done"
      /\ Standing(class, status, request[q].rev) \in request[q].seen
  BY Running, <1>1
<1>2. chain \in Nat /\ chain \in 0..chain
  BY BoundsAssumption DEF IInv, CatalogOK
<1>3. x \in Req /\ ShapeOK(x) /\ FollowsOK(x) /\ FoundOK(x)
  BY <1>0, <1>1, <1>2 DEF Req, ShapeOK, FollowsOK, FoundOK, Hidden, Servable
<1>4. /\ x.removed = {} /\ x.call = request[q].call /\ x.scope = request[q].scope
      /\ x.answer # "ok" /\ x.before = request[q].before
  BY <1>0, <1>1, NoneAssumption DEF Req, Answers
<1>5. request[q].at # "done" /\ request[q].at # "unsent"
  BY <1>1 DEF Ended
<1> HIDE DEF x
<1> QED
  BY <1>0, <1>1, <1>3, <1>4, <1>5, QuietStep

LEMMA StatusStep ==
    ASSUME IInv, NEW q \in Requests, Status(q)
    PROVE  IInv'
<1> DEFINE now == StatusOf(request[q].rev)
<1>1. /\ request[q].at = "status" /\ request[q].at \notin Ended /\ request[q].answer = None
      /\ UNCHANGED <<catalog, memory, audit>>
  BY DEF Status, Ready, At, Ended
<1>2. /\ request[q].call \in {"load", "read"} /\ request[q].rev \in Served
      /\ Standing(class, status, request[q].rev) \in request[q].seen
  BY <1>1, Running DEF ShapeOK
<1>3. now = "revoked" => Standing(class, status, request[q].rev) = "revoked"
  BY <1>2, StatusOfMeaning, NoneAssumption DEF IInv, Standings
<1>4. now \in Standings \cup {None}
  BY <1>2, StandingType, StatusOfMeaning DEF IInv
<1>5. CASE Answer(q, "INTERNAL")
  BY <1>1, <1>5, AnswerStep DEF Answers
<1>6. CASE now = "revoked" /\ Answer(q, "NOT_FOUND")
  BY <1>1, <1>2, <1>3, <1>6, AnswerStep DEF Answers, Hidden
<1>7. CASE Set(q, [Goto(q, "find") EXCEPT !.status = now])
  <2> HIDE DEF now
  <2>1. request' = [request EXCEPT ![q] = [Goto(q, "find") EXCEPT !.status = now]]
    BY <1>7 DEF Set
  <2>2. "find" \in Places \ Ended
    BY DEF Places, InCatalog, Ended
  <2> QED
    BY <2>1, <2>2, <1>1, <1>4, GoStep
<1> QED
  BY <1>5, <1>6, <1>7 DEF Status

\* A first-party revision stands as the release says.
LEMMA NotFound ==
    ASSUME CatalogOK, NEW r \in Served, ~Found(r)
    PROVE  \/ Standing(class, status, r) \in {"hidden", "revoked"}
           \/ r \in FirstParty /\ Advisory[r] = "unavailable"
<1>1. Standing(class, status, r) \in Standings
  BY StandingType
<1>2. CASE Standing(class, status, r) \in {"available", "unavailable"}
  <2>1. r \in FirstParty /\ Advisory[r] = "unavailable"
    BY <1>2 DEF Found
  <2> QED
    BY <2>1
<1> QED
  BY <1>1, <1>2 DEF Standings

LEMMA FindStep ==
    ASSUME IInv, NEW q \in Requests, Find(q)
    PROVE  IInv'
<1>1. /\ request[q].at = "find" /\ request[q].at \notin Ended /\ request[q].answer = None
      /\ UNCHANGED <<catalog, memory, audit>>
      /\ Local(q) \/ request[q].head # None
  BY DEF Find, Ready, At, Ended
<1>2. /\ request[q].call \in {"load", "read"} /\ request[q].rev \in Served
      /\ Standing(class, status, request[q].rev) \in request[q].seen
      /\ request[q] \in Req
  BY <1>1, Running DEF ShapeOK
<1>3. CASE Mismatch(q) /\ Answer(q, "REVISION_UNAVAILABLE")
  <2>1. request[q].grown
    BY <1>1, <1>3, Running DEF Mismatch, FollowsOK
  <2> QED
    BY <2>1, <1>1, <1>2, <1>3, AnswerStep DEF Answers
<1>4. CASE Set(q, Goto(q, IF Found(request[q].rev) THEN "final" ELSE "latest"))
  <2> DEFINE pc == IF Found(request[q].rev) THEN "final" ELSE "latest"
  <2>1. Goto(q, pc) = [Goto(q, pc) EXCEPT !.status = request[q].status]
    BY <1>2 DEF Goto, Req
  <2>2. request' = [request EXCEPT ![q] = [Goto(q, pc) EXCEPT !.status = request[q].status]]
    BY <2>1, <1>4 DEF Set
  <2>3. request[q].status \in Standings \cup {None}
    BY <1>2 DEF Req
  <2>4. pc = "final" => Servable(request[q])
    BY <1>2 DEF Found, Servable
  <2>5. pc = "latest" => \/ Hidden(request[q])
                         \/ /\ request[q].rev \in FirstParty
                            /\ Advisory[request[q].rev] = "unavailable"
    <3>1. CASE ~Found(request[q].rev)
      BY <1>2, <3>1, NotFound DEF IInv, Hidden
    <3> QED
      BY <3>1
  <2>6. pc \in {"final", "latest"} /\ pc \in Places \ Ended
    BY DEF Places, InCatalog, Ended
  <2> HIDE DEF pc
  <2> QED
    BY <2>2, <2>3, <2>4, <2>5, <2>6, <1>1, GoStep
<1> QED
  BY <1>3, <1>4 DEF Find

LEMMA LatestStep ==
    ASSUME IInv, NEW q \in Requests, Latest(q)
    PROVE  IInv'
<1> DEFINE r == request[q].rev
<1> DEFINE a == CASE Mismatch(q) -> "INTERNAL"
                  [] ~Mismatch(q) /\ StatusOf(r) = "unavailable" -> "REVISION_UNAVAILABLE"
                  [] OTHER -> "NOT_FOUND"
<1>1. /\ request[q].at = "latest" /\ request[q].at \notin Ended /\ request[q].answer = None
      /\ UNCHANGED <<catalog, memory, audit>>
      /\ Answer(q, a)
  BY DEF Latest, Ready, At, Ended
<1>2. /\ request[q].call \in {"load", "read"} /\ r \in Served
      /\ Standing(class, status, r) \in request[q].seen
      /\ Hidden(request[q]) \/ (r \in FirstParty /\ Advisory[r] = "unavailable")
  BY <1>1, Running DEF ShapeOK, FoundOK
<1>3. StatusOf(r) = "unavailable" => Standing(class, status, r) = "unavailable"
  BY <1>2, StatusOfMeaning, NoneAssumption DEF IInv, Standings
<1>4. r \in FirstParty /\ Advisory[r] = "unavailable" => StatusOf(r) = "unavailable"
  <2>1. r \in FirstParty => Standing(class, status, r) = Advisory[r]
    BY RevisionsAssumption DEF Standing
  <2> QED
    BY <1>2, <2>1, StatusOfMeaning DEF IInv
<1>5. /\ a \in Answers /\ a # "ok"
      /\ a = "NOT_FOUND" => StatusOf(r) # "unavailable"
      /\ a = "REVISION_UNAVAILABLE" => StatusOf(r) = "unavailable"
  BY DEF Answers
<1> HIDE DEF a
<1> QED
  BY <1>1, <1>2, <1>3, <1>4, <1>5, AnswerStep

LEMMA FinalStep ==
    ASSUME IInv, NEW q \in Requests, Final(q)
    PROVE  IInv'
<1> DEFINE now == StatusOf(request[q].rev)
<1> DEFINE told == IF now # None THEN now
                   ELSE IF request[q].status # None THEN request[q].status ELSE "available"
<1>1. /\ request[q].at = "final" /\ request[q].at \notin Ended /\ request[q].answer = None
      /\ UNCHANGED <<catalog, memory, audit>>
  BY DEF Final, Ready, At, Ended
<1>2. /\ request[q].call \in {"load", "read"} /\ request[q].rev \in Served
      /\ Standing(class, status, request[q].rev) \in request[q].seen
      /\ Servable(request[q]) /\ request[q] \in Req
  BY <1>1, Running DEF ShapeOK, FoundOK
<1>3. now = "revoked" => Standing(class, status, request[q].rev) = "revoked"
  BY <1>2, StatusOfMeaning, NoneAssumption DEF IInv, Standings
<1>4. told \in Standings \cup {None}
  <2>1. now \in Standings \cup {None}
    BY <1>2, StandingType, StatusOfMeaning DEF IInv
  <2>2. request[q].status \in Standings \cup {None}
    BY <1>2 DEF Req
  <2> QED
    BY <2>1, <2>2 DEF Standings
<1>5. CASE Answer(q, "INTERNAL")
  BY <1>1, <1>5, AnswerStep DEF Answers
<1>6. CASE now = "revoked" /\ Answer(q, "NOT_FOUND")
  BY <1>1, <1>2, <1>3, <1>6, AnswerStep DEF Answers, Hidden
<1>7. CASE /\ request[q].call = "load" /\ request[q].scope # None
           /\ Set(q, [Goto(q, "record") EXCEPT !.status = told])
  <2> HIDE DEF told
  <2>1. request' = [request EXCEPT ![q] = [Goto(q, "record") EXCEPT !.status = told]]
    BY <1>7 DEF Set
  <2>2. "record" \in Places \ Ended
    BY DEF Places, Writing, Ended
  <2>3. request[q].scope \in Scopes
    BY <1>2, <1>7 DEF Req
  <2> QED
    BY <2>1, <2>2, <2>3, <1>1, <1>2, <1>4, <1>7, GoStep
<1>8. CASE /\ ~(request[q].call = "load" /\ request[q].scope # None)
           /\ Set(q, [Goto(q, "done") EXCEPT !.status = told, !.answer = "ok"])
  <2> HIDE DEF told
  <2> DEFINE x == [request[q] EXCEPT !.at = "done", !.head = None, !.status = told,
                                     !.answer = "ok"]
  <2>1. request' = [request EXCEPT ![q] = x]
    BY <1>8 DEF Set, Goto
  <2>2. x \in Req
    BY <1>2, <1>4, ReqEnd
  <2>3. /\ x.at = "done" /\ x.answer = "ok" /\ x.head = None /\ x.seen = request[q].seen
        /\ x.call = request[q].call /\ x.scope = request[q].scope
        /\ x.rev = request[q].rev /\ x.before = request[q].before
        /\ x.removed = request[q].removed
    BY <1>2 DEF Req
  <2>4. request[q].removed = {} /\ \A p \in request[q].before : request[p].at = "done"
    BY <1>1, Running
  <2> HIDE DEF x
  <2>5. ShapeOK(x) /\ FollowsOK(x)
    BY <1>2, <2>3, NoneAssumption DEF ShapeOK, FollowsOK, Writing, Ended, Answers
  <2>6. FoundOK(x)
    BY <1>2, <2>3 DEF FoundOK, Servable
  <2>7. x.call # "forget" /\ (x.call = "load" => x.scope = None)
    BY <1>2, <1>8, <2>3
  <2> QED
    BY <1>1, <2>1, <2>2, <2>3, <2>4, <2>5, <2>6, <2>7, QuietStep
<1> QED
  BY <1>5, <1>6, <1>7, <1>8 DEF Final

LEMMA SearchStep ==
    ASSUME IInv, NEW q \in Requests, Search(q)
    PROVE  IInv'
<1>0. UNCHANGED <<catalog, memory, audit>> /\ request[q].answer = None
  BY DEF Search, Ready, At
<1>1. CASE At(q, "ranking") /\ Set(q, Goto(q, "catalog"))
  <2>1. request[q].at = "ranking" /\ request[q].at \notin Ended
    BY <1>1 DEF At, Ended
  <2>2. request[q] \in Req /\ request[q].status \in Standings \cup {None}
    BY <2>1, Running DEF Req
  <2>3. Goto(q, "catalog") = [Goto(q, "catalog") EXCEPT !.status = request[q].status]
    BY <2>2 DEF Goto, Req
  <2>4. request' = [request EXCEPT ![q] =
                       [Goto(q, "catalog") EXCEPT !.status = request[q].status]]
    BY <1>1, <2>3 DEF Set
  <2>5. "catalog" \in Places \ Ended
    BY DEF Places, InCatalog, Ended
  <2> QED
    BY <1>0, <2>1, <2>2, <2>4, <2>5, GoStep
<1>2. CASE /\ Ready(q, "catalog")
           /\ Answer(q, IF Mismatch(q) THEN "INTERNAL" ELSE "ok")
  <2>1. request[q].at = "catalog" /\ request[q].at \notin Ended
    BY <1>2 DEF Ready, At, Ended
  <2>2. request[q].call \notin {"forget", "load", "read"}
    BY <2>1, Running DEF ShapeOK
  <2> QED
    BY <1>0, <1>2, <2>1, <2>2, AnswerStep DEF Answers
<1> QED
  BY <1>1, <1>2 DEF Search

LEMMA ListStep ==
    ASSUME IInv, NEW q \in Requests, List(q)
    PROVE  IInv'
<1>1. /\ request[q].at = "list" /\ request[q].at \notin Ended /\ request[q].answer = None
      /\ UNCHANGED <<catalog, memory, audit>> /\ Answer(q, "ok")
  BY DEF List, At, Ended
<1>2. request[q].call \notin {"forget", "load", "read"}
  BY <1>1, Running DEF ShapeOK
<1> QED
  BY <1>1, <1>2, AnswerStep DEF Answers

\* A query fails.
LEMMA FailStep ==
    ASSUME IInv, NEW q \in Requests, Fail(q)
    PROVE  IInv'
<1> DEFINE a == IF request[q].at = "find" THEN "REVISION_UNAVAILABLE" ELSE WriteError(q)
<1> DEFINE y == [request[q] EXCEPT !.at = "done", !.head = None]
<1> DEFINE x == [request[q] EXCEPT !.at = "done", !.head = None, !.failed = TRUE, !.answer = a]
<1>1. request[q].at \notin Ended /\ UNCHANGED <<catalog, memory, audit>>
  BY DEF Fail, Ended
<1>2. /\ request[q] \in Req /\ request[q].removed = {}
      /\ \A p \in request[q].before : request[p].at = "done"
      /\ ShapeOK(request[q]) /\ request[q].at # "done" /\ request[q].at # "unsent"
  BY <1>1, Running DEF Ended
<1>3. CASE request[q].answer # None
  <2>1. request' = [request EXCEPT ![q] = y]
    BY <1>3 DEF Fail, Set, Goto
  <2>2. y \in Req
    BY <1>2, ReqFail
  <2>3. /\ y.at = "done" /\ y.head = None /\ y.answer = request[q].answer
        /\ y.call = request[q].call /\ y.scope = request[q].scope /\ y.rev = request[q].rev
        /\ y.before = request[q].before /\ y.removed = request[q].removed
    BY <1>2 DEF Req
  <2>4. y.answer = "INTERNAL"
    BY <1>2, <1>3, <2>3 DEF ShapeOK
  <2> HIDE DEF y
  <2>5. ShapeOK(y) /\ FollowsOK(y) /\ FoundOK(y)
    BY <1>2, <1>3, <2>3, <2>4 DEF ShapeOK, FollowsOK, FoundOK, Writing, Ended
  <2> QED
    BY <1>1, <1>2, <2>1, <2>2, <2>3, <2>4, <2>5, QuietStep
<1>4. CASE request[q].answer = None
  <2>1. request' = [request EXCEPT ![q] = x]
    BY <1>4 DEF Fail, Set, Goto
  <2>2. a \in Answers /\ a \notin {"ok", "NOT_FOUND"}
    BY DEF Answers, WriteError
  <2> HIDE DEF a
  <2>3. x \in Req
    BY <1>2, <2>2, ReqFail
  <2>4. /\ x.at = "done" /\ x.head = None /\ x.answer = a /\ x.failed = TRUE
        /\ x.call = request[q].call /\ x.scope = request[q].scope /\ x.rev = request[q].rev
        /\ x.before = request[q].before /\ x.removed = request[q].removed
    BY <1>2 DEF Req
  <2> HIDE DEF x
  <2>5. ShapeOK(x) /\ FollowsOK(x) /\ FoundOK(x)
    BY <1>2, <2>2, <2>4, NoneAssumption DEF ShapeOK, FollowsOK, FoundOK, Writing, Ended
  <2> QED
    BY <1>1, <1>2, <2>1, <2>2, <2>3, <2>4, <2>5, QuietStep
<1> QED
  BY <1>3, <1>4

LEMMA TimeOutStep ==
    ASSUME IInv, NEW q \in Requests, TimeOut(q)
    PROVE  IInv'
<1>1. /\ request[q].at \notin Ended /\ request[q].answer = None
      /\ UNCHANGED <<catalog, memory, audit>>
  BY DEF TimeOut, Ended
<1>2. CASE Answer(q, "INTERNAL")
  BY <1>1, <1>2, AnswerStep DEF Answers
<1>3. CASE request[q].at \in Writing /\ Set(q, [request[q] EXCEPT !.answer = "INTERNAL"])
  <2> DEFINE x == [request[q] EXCEPT !.answer = "INTERNAL"]
  <2>1. request' = [request EXCEPT ![q] = x]
    BY <1>3 DEF Set
  <2>2. /\ request[q] \in Req /\ request[q].removed = {}
        /\ \A p \in request[q].before : request[p].at = "done"
        /\ ShapeOK(request[q]) /\ FollowsOK(request[q]) /\ FoundOK(request[q])
        /\ request[q].at # "done" /\ request[q].at # "unsent"
    BY <1>1, Running DEF Ended
  <2>3. x \in Req
    BY <2>2 DEF Req, Answers
  <2>4. /\ x.at = request[q].at /\ x.head = request[q].head /\ x.answer = "INTERNAL"
        /\ x.call = request[q].call /\ x.scope = request[q].scope /\ x.rev = request[q].rev
        /\ x.before = request[q].before /\ x.removed = request[q].removed
        /\ x.seen = request[q].seen /\ x.grown = request[q].grown
    BY <2>2 DEF Req
  <2> HIDE DEF x
  <2>5. ShapeOK(x)
    BY <1>3, <2>2, <2>4 DEF ShapeOK
  <2>6. FollowsOK(x) /\ FoundOK(x)
    BY <2>2, <2>4 DEF FollowsOK, FoundOK, Servable, Hidden
  <2> QED
    BY <1>1, <2>1, <2>2, <2>3, <2>4, <2>5, <2>6, QuietStep
<1> QED
  BY <1>2, <1>3 DEF TimeOut

-----------------------------------------------------------------------------
(***************************************************************************)
(* Steps that write: the request ends.                                     *)
(***************************************************************************)
\* What the end of a write makes of its request.
Closed(q, x, removed) ==
    /\ x \in Req /\ request' = [request EXCEPT ![q] = x]
    /\ x.at = "done" /\ x.answer \in Answers \ Refused
    /\ x.call = request[q].call /\ x.rev = request[q].rev /\ x.scope = request[q].scope
    /\ x.before = request[q].before /\ x.removed = removed
    /\ ShapeOK(x) /\ FollowsOK(x) /\ FoundOK(x)

LEMMA ReqDone ==
    ASSUME NEW y \in Req, NEW removed \in SUBSET Requests
    PROVE  [y EXCEPT !.removed = removed] \in Req /\ [y EXCEPT !.at = "done"] \in Req
BY DEF Req, Places

LEMMA ReqTold ==
    ASSUME NEW y \in Req, NEW a \in Answers
    PROVE  /\ [y EXCEPT !.at = "done", !.answer = a] \in Req
           /\ [y EXCEPT !.at = "done", !.answer = a, !.failed = TRUE] \in Req
<1>1. "done" \in Places
  BY DEF Places
<1>2. [y EXCEPT !.at = "done", !.answer = a] \in Req
  BY <1>1, ZenonT(60) DEF Req
<1>3. [y EXCEPT !.at = "done", !.answer = a, !.failed = TRUE] \in Req
  BY <1>1, ZenonT(60) DEF Req
<1> QED
  BY <1>2, <1>3

LEMMA WriteCloses ==
    ASSUME IInv, NEW q \in Requests, NEW removed \in SUBSET Requests,
           request[q].at \in Writing,
           Told(q, [request[q] EXCEPT !.removed = removed])
    PROVE  \E x : Closed(q, x, removed)
<1> DEFINE y == [request[q] EXCEPT !.removed = removed]
<1>1. request[q].at \notin Ended
  BY DEF Writing, Ended
<1>2. /\ request[q] \in Req
      /\ ShapeOK(request[q]) /\ FollowsOK(request[q]) /\ FoundOK(request[q])
  BY <1>1, Running
<1>3. y \in Req
  BY <1>2, ReqDone
<1>4. /\ y.call = request[q].call /\ y.rev = request[q].rev /\ y.scope = request[q].scope
      /\ y.before = request[q].before /\ y.removed = removed /\ y.seen = request[q].seen
      /\ y.answer = request[q].answer /\ y.head = request[q].head
  BY <1>2 DEF Req
<1> HIDE DEF y
<1>5. ASSUME NEW x \in Req, x.at = "done", x.answer \in Answers \ Refused,
             x.call = y.call, x.rev = y.rev, x.scope = y.scope, x.before = y.before,
             x.removed = y.removed, x.seen = y.seen, x.head = y.head, Set(q, x)
      PROVE  Closed(q, x, removed)
  <2>1. ShapeOK(x)
    BY <1>2, <1>4, <1>5, NoneAssumption DEF ShapeOK, Writing
  <2>2. FollowsOK(x)
    BY <1>2, <1>4, <1>5 DEF FollowsOK, Ended
  <2>3. FoundOK(x)
    <3>1. x.call \in {"load", "read"} => Servable(request[q])
      BY <1>2, <1>4, <1>5 DEF ShapeOK, FoundOK, Writing
    <3> QED
      BY <3>1, <1>4, <1>5 DEF FoundOK, Servable, Refused
  <2> QED
    BY <2>1, <2>2, <2>3, <1>4, <1>5 DEF Closed, Set
<1>6. CASE y.answer # None /\ Set(q, [y EXCEPT !.at = "done"])
  <2> DEFINE x == [y EXCEPT !.at = "done"]
  <2>1. y.answer = "INTERNAL"
    BY <1>2, <1>4, <1>6 DEF ShapeOK
  <2>2. /\ x.at = "done" /\ x.answer = y.answer /\ x.call = y.call /\ x.rev = y.rev
        /\ x.scope = y.scope /\ x.before = y.before /\ x.removed = y.removed
        /\ x.seen = y.seen /\ x.head = y.head
    BY <1>3 DEF Req
  <2>3. x \in Req /\ Set(q, x)
    BY <1>3, <1>6, ReqDone
  <2>4. x.answer \in Answers \ Refused
    BY <2>1, <2>2 DEF Answers, Refused
  <2> HIDE DEF x
  <2> QED
    BY <2>2, <2>3, <2>4, <1>5
<1>7. CASE Set(q, [y EXCEPT !.at = "done", !.answer = "ok"])
  <2> DEFINE x == [y EXCEPT !.at = "done", !.answer = "ok"]
  <2>1. "ok" \in Answers \ Refused
    BY DEF Answers, Refused
  <2>2. /\ x.at = "done" /\ x.answer = "ok" /\ x.call = y.call /\ x.rev = y.rev
        /\ x.scope = y.scope /\ x.before = y.before /\ x.removed = y.removed
        /\ x.seen = y.seen /\ x.head = y.head
    BY <1>3 DEF Req
  <2>3. x \in Req /\ Set(q, x)
    BY <1>3, <1>7, <2>1, ReqTold
  <2> HIDE DEF x
  <2> QED
    BY <2>1, <2>2, <2>3, <1>5
<1>8. CASE Set(q, [y EXCEPT !.at = "done", !.answer = WriteError(q), !.failed = TRUE])
  <2> DEFINE a == WriteError(q)
  <2> DEFINE x == [y EXCEPT !.at = "done", !.answer = a, !.failed = TRUE]
  <2>1. a \in Answers \ Refused
    BY DEF Answers, Refused, WriteError
  <2> HIDE DEF a
  <2>2. /\ x.at = "done" /\ x.answer = a /\ x.call = y.call /\ x.rev = y.rev
        /\ x.scope = y.scope /\ x.before = y.before /\ x.removed = y.removed
        /\ x.seen = y.seen /\ x.head = y.head
    BY <1>3 DEF Req
  <2>3. x \in Req /\ Set(q, x)
    BY <1>3, <1>8, <2>1, ReqTold DEF a
  <2> HIDE DEF x
  <2> QED
    BY <2>1, <2>2, <2>3, <1>5
<1> QED
  BY <1>6, <1>7, <1>8 DEF Told, y

\* What a write leaves as it was: whatever the other requests are and have been told.
LEMMA Others ==
    ASSUME IInv, NEW q \in Requests, NEW x, NEW removed, Closed(q, x, removed),
           request[q].at \in Writing, UNCHANGED catalog, audit \subseteq audit',
           \A p \in audit' : p = q \/ p \in audit,
           \A p \in removed : p \in Requests /\ WasLoaded(p, request[q].scope),
           removed # {} => request[q].call = "forget" /\ q \in audit',
           request[q].call = "forget" => q \in audit'
    PROVE  /\ request' \in [Requests -> Req] /\ request'[q] = x
           /\ \A p \in Requests : p # q => request'[p] = request[p]
           /\ \A p, s : p \in Requests /\ WasLoaded(p, s) => p # q /\ WasLoaded(p, s)'
           /\ CatalogOK' /\ \A p \in Requests : RequestOK(p)'
           /\ \A s : Erasures(s)' = Erasures(s)
           /\ request[q].answer \notin {"ok"} /\ q \notin audit
<1>0. request[q].at \notin Ended /\ request[q].at # "done"
  BY DEF Writing, Ended
<1>1. /\ request' \in [Requests -> Req] /\ request'[q] = x
      /\ \A p \in Requests : p # q => request'[p] = request[p]
  BY DEF IInv, Closed
<1>2. \A p, s : p \in Requests /\ WasLoaded(p, s) => p # q /\ WasLoaded(p, s)'
  BY <1>0, <1>1 DEF WasLoaded
<1>3. CatalogOK'
  BY DEF IInv, CatalogOK, catalog
<1>4. ASSUME NEW p \in Requests PROVE RequestOK(p)'
  <2>1. CASE p = q
    <3>1. ShapeOK(x)' /\ FollowsOK(x)' /\ FoundOK(x)'
      BY DEF Closed, ShapeOK, FollowsOK, FoundOK, Servable, Hidden, catalog
    <3>2. ErasureOK(q, x)'
      BY DEF Closed, ErasureOK
    <3>3. \A b \in x.before : request'[b].at = "done"
      <4>1. \A b \in x.before : b \in Requests /\ request[b].at = "done"
        BY <1>0, Running DEF Closed, Req
      <4> QED
        BY <4>1, <1>0, <1>1
    <3>4. \A b \in x.removed : WasLoaded(b, x.scope)'
      BY <1>2 DEF Closed
    <3> QED
      BY <2>1, <1>1, <3>1, <3>2, <3>3, <3>4 DEF RequestOK
  <2>2. CASE p # q
    <3>1. request'[p] = request[p] /\ RequestOK(p) /\ request[p] \in Req
      BY <2>2, <1>1 DEF IInv
    <3>2. \A b \in request[p].before : b \in Requests /\ b # q /\ request[b].at = "done"
      BY <3>1, <1>0 DEF RequestOK, Req
    <3>3. \A b \in request[p].removed : b \in Requests
      BY <3>1 DEF Req
    <3>4. ErasureOK(p, request[p])'
      BY <2>2, <3>1 DEF RequestOK, ErasureOK
    <3>5. ShapeOK(request[p])' /\ FollowsOK(request[p])' /\ FoundOK(request[p])'
      BY <3>1 DEF RequestOK, ShapeOK, FollowsOK, FoundOK, Servable, Hidden, catalog
    <3>6. \A b \in request'[p].before : request'[b].at = "done"
      BY <3>1, <3>2, <1>1
    <3>7. \A b \in request'[p].removed : WasLoaded(b, request[p].scope)'
      BY <3>1, <3>3, <1>2 DEF RequestOK
    <3> QED
      BY <3>1, <3>4, <3>5, <3>6, <3>7 DEF RequestOK
  <2> QED
    BY <2>1, <2>2
<1>5. \A s : Erasures(s)' = Erasures(s)
  BY <1>1 DEF Closed, Erasures
<1>6. request[q].answer \notin {"ok"} /\ q \notin audit
  <2>1. ShapeOK(request[q]) /\ q \notin audit
    BY <1>0, Running
  <2> QED
    BY <2>1, NoneAssumption DEF ShapeOK, Answers
<1> QED
  BY <1>1, <1>2, <1>3, <1>4, <1>5, <1>6

LEMMA RecordStep ==
    ASSUME IInv, NEW q \in Requests, Record(q)
    PROVE  IInv'
<1> DEFINE s == request[q].scope
<1> DEFINE r == request[q].rev
<1> DEFINE row == IF memory[s][r] = None THEN Unused ELSE memory[s][r]
<1> DEFINE new == [row EXCEPT !.by = @ \cup {q}]
<1>1. /\ request[q].at = "record" /\ request[q].at \in Writing /\ request[q].at \notin Ended
      /\ memory' = [memory EXCEPT ![s][r] = new]
      /\ UNCHANGED <<catalog, audit>> /\ UNCHANGED catalog /\ audit' = audit
  BY DEF Record, Writing, Ended
<1>2. /\ request[q] \in Req /\ request[q].removed = {} /\ request[q].call = "load"
      /\ s \in Scopes /\ r \in Served /\ q \notin audit
  BY <1>1, Running DEF ShapeOK
<1>3. [request[q] EXCEPT !.removed = {}] = request[q]
  BY <1>2 DEF Req
<1>4. PICK x : Closed(q, x, {})
  <2>1. Told(q, [request[q] EXCEPT !.removed = {}])
    BY <1>3 DEF Record
  <2> QED
    BY <2>1, <1>1, WriteCloses
<1>5. /\ request' \in [Requests -> Req] /\ request'[q] = x
      /\ \A p \in Requests : p # q => request'[p] = request[p]
      /\ \A p, t : p \in Requests /\ WasLoaded(p, t) => p # q /\ WasLoaded(p, t)'
      /\ CatalogOK' /\ \A p \in Requests : RequestOK(p)'
      /\ \A t : Erasures(t)' = Erasures(t)
      /\ request[q].answer \notin {"ok"}
  BY <1>1, <1>2, <1>4, Others
<1>6. WasLoaded(q, s)' /\ request'[q].rev = r /\ request'[q].call = "load"
      /\ request'[q].scope = s
  BY <1>2, <1>4, <1>5 DEF WasLoaded, Closed
<1>7. row \in Rows /\ (memory[s][r] = None => row.by = {})
      /\ (memory[s][r] # None => row = memory[s][r])
  BY <1>2 DEF IInv, MemoryOK, Unused, Rows
<1>8. new \in Rows /\ new.by = row.by \cup {q} /\ new # None
  <2>1. new \in Rows /\ new.by = row.by \cup {q}
    BY <1>7 DEF Rows
  <2> QED
    BY <2>1, NoneAssumption
<1> HIDE DEF new, row
<1>9. /\ memory' \in [Scopes -> [Served -> Rows \cup {None}]]
      /\ memory'[s][r] = new
      /\ \A t \in Scopes, b \in Served : t # s \/ b # r => memory'[t][b] = memory[t][b]
  BY <1>1, <1>2, <1>8 DEF IInv, MemoryOK
<1>10. MemoryOK'
  <2>1. ASSUME NEW t \in Scopes, NEW b \in Served, memory'[t][b] # None
        PROVE  /\ memory'[t][b].by # {}
               /\ \A p \in memory'[t][b].by : WasLoaded(p, t)' /\ request'[p].rev = b
    <3>1. memory[t][b] # None =>
              /\ memory[t][b].by # {}
              /\ \A p \in memory[t][b].by :
                    p \in Requests /\ WasLoaded(p, t) /\ request[p].rev = b
      BY DEF IInv, MemoryOK, Rows
    <3>2. CASE t = s /\ b = r
      BY <3>1, <3>2, <1>5, <1>6, <1>7, <1>8, <1>9
    <3>3. CASE ~(t = s /\ b = r)
      BY <2>1, <3>1, <3>3, <1>5, <1>9
    <3> QED
      BY <3>2, <3>3
  <2>2. audit' \subseteq {p \in Requests : request'[p].call = "forget"}
    BY <1>1, <1>2, <1>5 DEF IInv, MemoryOK
  <2> QED
    BY <2>1, <2>2, <1>9 DEF MemoryOK
<1>11. \A t \in Scopes : \A p : p \in Counted(t)' <=> p \in Counted(t) \/ (p = q /\ t = s)
  <2> SUFFICES ASSUME NEW t \in Scopes, NEW p
               PROVE  p \in Counted(t)' <=> p \in Counted(t) \/ (p = q /\ t = s)
    OBVIOUS
  <2>1. p \in Counted(t) <=> \E b \in Served : memory[t][b] # None /\ p \in memory[t][b].by
    BY CountedMeaning DEF IInv
  <2>2. p \in Counted(t)' <=>
            \E b \in Served : memory'[t][b] # None /\ p \in memory'[t][b].by
    BY DEF Counted
  <2> QED
    BY <2>1, <2>2, <1>2, <1>7, <1>8, <1>9
<1>12. ASSUME NEW p \in Requests PROVE Accounted(p)' /\ Forgotten(p)'
  <2>1. CASE p = q
    BY <2>1, <1>2, <1>6, <1>11 DEF Accounted, Forgotten
  <2>2. CASE p # q
    <3>1. request'[p] = request[p] /\ Accounted(p) /\ Forgotten(p) /\ request[p] \in Req
      BY <2>2, <1>5 DEF IInv
    <3>2. request[p].scope \in Scopes \cup {None}
      BY <3>1 DEF Req
    <3>3. Accounted(p)'
      <4>1. \A t, f : f \in Erasures(t) /\ f \in audit => request'[f] = request[f]
        BY <1>2, <1>5 DEF Erasures
      <4> QED
        BY <3>1, <3>2, <4>1, <1>1, <1>5, <1>11 DEF Accounted
    <3>4. Forgotten(p)'
      <4>1. q \notin request[p].before
        BY <1>1 DEF IInv, RequestOK
      <4>2. request[p].call = "forget" /\ request[p].answer = "ok" => request[p].scope \in Scopes
        BY <3>1 DEF IInv, RequestOK, ShapeOK
      <4> QED
        BY <3>1, <4>1, <4>2, <1>11 DEF Forgotten
    <3> QED
      BY <3>3, <3>4
  <2> QED
    BY <2>1, <2>2
<1> QED
  BY <1>5, <1>10, <1>12 DEF IInv

LEMMA OutcomeStep ==
    ASSUME IInv, NEW q \in Requests, Outcome(q)
    PROVE  IInv'
<1> DEFINE s == request[q].scope
<1> DEFINE r == request[q].rev
<1>1. /\ request[q].at = "outcome" /\ request[q].at \in Writing /\ request[q].at \notin Ended
      /\ UNCHANGED <<catalog, audit>> /\ UNCHANGED catalog /\ audit' = audit
  BY DEF Outcome, Writing, Ended
<1>2. /\ request[q] \in Req /\ request[q].removed = {} /\ request[q].call = "outcome"
      /\ s \in Scopes /\ r \in Served /\ q \notin audit
  BY <1>1, Running DEF ShapeOK
<1>3. CASE /\ At(q, "outcome") /\ Answer(q, "MEMORY_CONFLICT")
           /\ UNCHANGED memory
  BY <1>1, <1>3, AnswerStep DEF Answers, At
<1>4. CASE /\ memory[s][r] # None
           /\ \E o \in Outcomes : memory' = [memory EXCEPT ![s][r].outcome = o]
           /\ Told(q, request[q])
  <2>1. PICK o \in Outcomes : memory' = [memory EXCEPT ![s][r].outcome = o]
    BY <1>4
  <2> DEFINE new == [memory[s][r] EXCEPT !.outcome = o]
  <2>2. PICK x : Closed(q, x, {})
    <3>1. [request[q] EXCEPT !.removed = {}] = request[q]
      BY <1>2 DEF Req
    <3>2. Told(q, [request[q] EXCEPT !.removed = {}])
      BY <1>4, <3>1
    <3> QED
      BY <3>2, <1>1, WriteCloses
  <2>3. /\ request' \in [Requests -> Req] /\ request'[q] = x
        /\ \A p \in Requests : p # q => request'[p] = request[p]
        /\ \A p, t : p \in Requests /\ WasLoaded(p, t) => p # q /\ WasLoaded(p, t)'
        /\ CatalogOK' /\ \A p \in Requests : RequestOK(p)'
        /\ \A t : Erasures(t)' = Erasures(t)
    BY <1>1, <1>2, <2>2, Others
  <2>4. memory[s][r] \in Rows
    BY <1>2, <1>4 DEF IInv, MemoryOK
  <2>5. new \in Rows /\ new.by = memory[s][r].by /\ new # None
    <3>1. new \in Rows /\ new.by = memory[s][r].by
      BY <2>4 DEF Rows
    <3> QED
      BY <3>1, NoneAssumption
  <2>6. memory' = [memory EXCEPT ![s][r] = new]
    BY <2>1
  <2> HIDE DEF new
  <2>7. /\ memory' \in [Scopes -> [Served -> Rows \cup {None}]]
        /\ memory'[s][r] = new
        /\ \A t \in Scopes, b \in Served : t # s \/ b # r => memory'[t][b] = memory[t][b]
    BY <2>6, <1>2, <2>5 DEF IInv, MemoryOK
  <2>8. \A t \in Scopes, b \in Served :
            /\ memory'[t][b] = None <=> memory[t][b] = None
            /\ memory[t][b] # None => memory'[t][b].by = memory[t][b].by
    BY <1>4, <2>5, <2>7
  <2>9. MemoryOK'
    <3>1. ASSUME NEW t \in Scopes, NEW b \in Served, memory'[t][b] # None
          PROVE  /\ memory'[t][b].by # {}
                 /\ \A p \in memory'[t][b].by : WasLoaded(p, t)' /\ request'[p].rev = b
      <4>1. /\ memory[t][b] # None /\ memory[t][b].by # {}
            /\ \A p \in memory[t][b].by :
                  p \in Requests /\ WasLoaded(p, t) /\ request[p].rev = b
        BY <3>1, <2>8 DEF IInv, MemoryOK, Rows
      <4> QED
        BY <4>1, <2>3, <2>8
    <3>2. audit' \subseteq {p \in Requests : request'[p].call = "forget"}
      BY <1>1, <1>2, <2>3 DEF IInv, MemoryOK
    <3> QED
      BY <3>1, <3>2, <2>7 DEF MemoryOK
  <2>10. \A t \in Scopes : Counted(t)' = Counted(t)
    BY <2>8 DEF Counted
  <2>11. ASSUME NEW p \in Requests PROVE Accounted(p)' /\ Forgotten(p)'
    <3>1. CASE p = q
      BY <3>1, <1>2, <2>2, <2>3 DEF Accounted, Forgotten, Closed
    <3>2. CASE p # q
      <4>1. request'[p] = request[p] /\ Accounted(p) /\ Forgotten(p) /\ RequestOK(p)
            /\ request[p] \in Req
        BY <3>2, <2>3 DEF IInv
      <4>2. request[p].scope \in Scopes \cup {None}
        BY <4>1 DEF Req
      <4>3. \A t, f : f \in Erasures(t) /\ f \in audit => request'[f] = request[f]
        BY <1>2, <2>3 DEF Erasures
      <4>4. Accounted(p)'
        BY <4>1, <4>2, <4>3, <1>1, <2>3, <2>10 DEF Accounted
      <4>5. request[p].call = "forget" => request[p].scope \in Scopes
        BY <4>1 DEF RequestOK, ShapeOK
      <4>6. Forgotten(p)'
        BY <4>1, <4>5, <2>10 DEF Forgotten
      <4> QED
        BY <4>4, <4>6
    <3> QED
      BY <3>1, <3>2
  <2> QED
    BY <2>3, <2>9, <2>11 DEF IInv
<1> QED
  BY <1>3, <1>4 DEF Outcome

LEMMA ForgetStep ==
    ASSUME IInv, NEW q \in Requests, Forget(q)
    PROVE  IInv'
<1>0. request[q].scope \in Scopes
  BY Running DEF Forget, ShapeOK, Ended
<1> PICK s \in Scopes : s = request[q].scope
  BY <1>0
<1> DEFINE removed == Counted(s)
<1>1. /\ request[q].at = "forget" /\ request[q].at \in Writing /\ request[q].at \notin Ended
      /\ memory' = [memory EXCEPT ![s] = [r \in Served |-> None]]
      /\ audit' = audit \cup {q} /\ UNCHANGED catalog
  BY DEF Forget, Writing, Ended
<1>2. /\ request[q] \in Req /\ request[q].removed = {} /\ request[q].call = "forget"
      /\ s \in Scopes /\ q \notin audit
  BY <1>1, Running DEF ShapeOK
<1>3. \A p \in removed : p \in Requests /\ WasLoaded(p, s)
  BY <1>2, CountedLoaded DEF IInv
<1>4. PICK x : Closed(q, x, removed)
  <2>1. removed \in SUBSET Requests
    BY <1>3
  <2>2. Told(q, [request[q] EXCEPT !.removed = removed])
    BY DEF Forget
  <2> HIDE DEF removed
  <2> QED
    BY <2>1, <2>2, <1>1, WriteCloses
<1>5. /\ request' \in [Requests -> Req] /\ request'[q] = x
      /\ \A p \in Requests : p # q => request'[p] = request[p]
      /\ \A p, t : p \in Requests /\ WasLoaded(p, t) => p # q /\ WasLoaded(p, t)'
      /\ CatalogOK' /\ \A p \in Requests : RequestOK(p)'
      /\ \A t : Erasures(t)' = Erasures(t)
  <2> HIDE DEF removed
  <2> QED
    BY <1>1, <1>2, <1>3, <1>4, Others
<1>6. x.removed = removed /\ x.call = "forget" /\ x.scope = s
  BY <1>2, <1>4 DEF Closed
<1>7. /\ memory' \in [Scopes -> [Served -> Rows \cup {None}]]
      /\ \A r \in Served : memory'[s][r] = None
      /\ \A t \in Scopes : t # s => memory'[t] = memory[t]
  BY <1>1, <1>2 DEF IInv, MemoryOK
<1>8. MemoryOK'
  <2>1. ASSUME NEW t \in Scopes, NEW r \in Served, memory'[t][r] # None
        PROVE  /\ memory'[t][r].by # {}
               /\ \A p \in memory'[t][r].by : WasLoaded(p, t)' /\ request'[p].rev = r
    <3>1. memory'[t][r] = memory[t][r]
      BY <2>1, <1>7
    <3>2. \A p \in memory[t][r].by : p \in Requests /\ WasLoaded(p, t) /\ request[p].rev = r
      BY <2>1, <3>1 DEF IInv, MemoryOK, Rows
    <3> QED
      BY <2>1, <3>1, <3>2, <1>5 DEF IInv, MemoryOK
  <2>2. audit' \subseteq {p \in Requests : request'[p].call = "forget"}
    BY <1>1, <1>5, <1>6 DEF IInv, MemoryOK
  <2> QED
    BY <2>1, <2>2, <1>7 DEF MemoryOK
<1>9. Counted(s)' = {} /\ \A t \in Scopes : t # s => Counted(t)' = Counted(t)
  <2>1. Counted(s)' = {}
    <3>1. {b \in Served : memory'[s][b] # None} = {}
      BY <1>7
    <3> QED
      BY <3>1 DEF Counted
  <2> QED
    BY <2>1, <1>7, CountedSame
<1>10. ASSUME NEW p \in Requests PROVE Accounted(p)'
  <2>1. CASE p = q
    BY <2>1, <1>5, <1>6 DEF Accounted
  <2>2. CASE p # q
    <3>1. request'[p] = request[p] /\ Accounted(p) /\ request[p] \in Req
      BY <2>2, <1>5 DEF IInv
    <3> SUFFICES ASSUME request[p].call = "load", request[p].scope # None,
                        request[p].answer = "ok",
                        NEW t \in Scopes, t = request[p].scope
                 PROVE  \/ p \in Counted(t)'
                        \/ \E f \in Erasures(t)' \cap audit' : p \in request'[f].removed
      BY <3>1 DEF Accounted, Req
    <3>2. CASE p \in Counted(t)
      <4>1. CASE t = s
        <5>1. q \in Erasures(t)' \cap audit' /\ p \in request'[q].removed
          BY <3>2, <4>1, <1>1, <1>5, <1>6 DEF Erasures
        <5> QED
          BY <5>1
      <4>2. CASE t # s
        BY <3>2, <4>2, <1>9
      <4> QED
        BY <4>1, <4>2
    <3>3. CASE p \notin Counted(t)
      <4>1. PICK f \in Erasures(t) \cap audit : p \in request[f].removed
        BY <3>1, <3>3 DEF Accounted
      <4>2. f # q /\ request'[f] = request[f]
        BY <4>1, <1>2, <1>5 DEF Erasures
      <4>3. f \in Erasures(t)' \cap audit' /\ p \in request'[f].removed
        BY <4>1, <4>2, <1>1, <1>5
      <4> QED
        BY <4>3
    <3> QED
      BY <3>2, <3>3
  <2> QED
    BY <2>1, <2>2
<1>11. ASSUME NEW p \in Requests PROVE Forgotten(p)'
  <2>1. CASE p = q
    BY <2>1, <1>5, <1>6, <1>9 DEF Forgotten
  <2>2. CASE p # q
    <3>1. request'[p] = request[p] /\ Forgotten(p) /\ RequestOK(p)
      BY <2>2, <1>5 DEF IInv
    <3>2. request[p].call = "forget" => request[p].scope \in Scopes
      BY <3>1 DEF RequestOK, ShapeOK
    <3> QED
      BY <3>1, <3>2, <1>9 DEF Forgotten
  <2> QED
    BY <2>1, <2>2
<1> QED
  BY <1>5, <1>8, <1>10, <1>11 DEF IInv

-----------------------------------------------------------------------------
(***************************************************************************)
(* The catalog changes.                                                    *)
(***************************************************************************)
LEMMA ReqWitnessed ==
    ASSUME NEW y \in Req, NEW v \in Standings, NEW more \in BOOLEAN
    PROVE  [y EXCEPT !.seen = y.seen \cup {v}, !.grown = y.grown \/ more] \in Req
<1>1. (y.grown \/ more) \in BOOLEAN /\ y.seen \cup {v} \in SUBSET Standings
  BY DEF Req
<1>2. ASSUME NEW seen \in SUBSET Standings, NEW grown \in BOOLEAN
      PROVE  [y EXCEPT !.seen = seen, !.grown = grown] \in Req
  BY DEF Req
<1> QED
  BY <1>1, <1>2

LEMMA WitnessedStep ==
    ASSUME IInv, NEW events \in Nat, CatalogOK', Witnessed(events),
           UNCHANGED <<memory, audit>>,
           chain' = chain + events
    PROVE  IInv'
<1>1. ASSUME NEW q \in Requests
      PROVE  /\ request'[q] \in Req
             /\ request'[q].call = request[q].call /\ request'[q].rev = request[q].rev
             /\ request'[q].scope = request[q].scope /\ request'[q].at = request[q].at
             /\ request'[q].head = request[q].head /\ request'[q].answer = request[q].answer
             /\ request'[q].before = request[q].before
             /\ request'[q].removed = request[q].removed
             /\ request[q].at \in Ended => request'[q] = request[q]
             /\ request[q].at \notin Ended =>
                   /\ request'[q].seen =
                          request[q].seen \cup {Standing(class', status', request[q].rev)}
                   /\ request'[q].grown <=> request[q].grown \/ events > 0
  <2>1. request[q] \in Req /\ request[q].rev \in Served \cup {None}
    BY DEF IInv, Req
  <2>2. Standing(class', status', request[q].rev) \in Standings
    BY <2>1, AdvisoryAssumption DEF CatalogOK, Standing, Standings
  <2>3. CASE request[q].at \in Ended
    <3>1. request'[q] = request[q]
      BY <2>3 DEF Witnessed, Ended
    <3> QED
      BY <2>1, <2>3, <3>1
  <2>4. CASE request[q].at \notin Ended
    <3>1. request'[q] =
              [request[q] EXCEPT !.seen = @ \cup {Standing(class', status', request[q].rev)},
                                 !.grown = @ \/ events > 0]
      BY <2>4 DEF Witnessed, Ended
    <3> DEFINE v == Standing(class', status', request[q].rev)
    <3> DEFINE more == events > 0
    <3>2. v \in Standings /\ more \in BOOLEAN
      BY <2>2
    <3> HIDE DEF v, more
    <3>3. request'[q] = [request[q] EXCEPT !.seen = request[q].seen \cup {v},
                                           !.grown = request[q].grown \/ more]
      BY <3>1 DEF v, more
    <3>4. request'[q] \in Req
      BY ONLY <2>1, <3>2, <3>3, ReqWitnessed, ZenonT(60)
    <3>5. /\ request'[q].seen = request[q].seen \cup {v}
          /\ request'[q].grown = (request[q].grown \/ more)
      BY <2>1, <3>3 DEF Req
    <3>6. /\ request'[q].call = request[q].call /\ request'[q].rev = request[q].rev
          /\ request'[q].scope = request[q].scope /\ request'[q].at = request[q].at
          /\ request'[q].head = request[q].head /\ request'[q].answer = request[q].answer
          /\ request'[q].before = request[q].before
          /\ request'[q].removed = request[q].removed
      BY <2>1, <3>3 DEF Req
    <3> QED
      BY <2>4, <3>4, <3>5, <3>6 DEF v, more
  <2> QED
    BY <2>3, <2>4
<1>2. request' \in [Requests -> Req]
  BY <1>1 DEF Witnessed
<1>3. \A p, s : p \in Requests => (WasLoaded(p, s)' <=> WasLoaded(p, s))
  BY <1>1 DEF WasLoaded
<1>4. (\A s : Counted(s)' = Counted(s)) /\ (\A s : Erasures(s)' = Erasures(s))
  BY <1>1, CountedSame DEF Erasures
<1>5. MemoryOK'
  <2>1. ASSUME NEW s \in Scopes, NEW r \in Served, memory'[s][r] # None
        PROVE  /\ memory'[s][r].by # {}
               /\ \A p \in memory'[s][r].by : WasLoaded(p, s)' /\ request'[p].rev = r
    <3>1. \A p \in memory[s][r].by : p \in Requests /\ WasLoaded(p, s) /\ request[p].rev = r
      BY <2>1 DEF IInv, MemoryOK, Rows
    <3> QED
      BY <2>1, <3>1, <1>1, <1>3 DEF IInv, MemoryOK
  <2>2. audit' \subseteq {p \in Requests : request'[p].call = "forget"}
    BY <1>1 DEF IInv, MemoryOK
  <2> QED
    BY <2>1, <2>2 DEF IInv, MemoryOK
<1>6. ASSUME NEW q \in Requests PROVE RequestOK(q)'
  <2>1. /\ RequestOK(q) /\ request[q] \in Req /\ chain \in Nat
    BY BoundsAssumption DEF IInv, CatalogOK
  <2>2. ShapeOK(request[q])'
    BY <2>1, <1>1 DEF RequestOK, ShapeOK
  <2>3. FollowsOK(request[q])'
    <3>1. CASE request[q].at \in Ended
      BY <2>1, <1>1, <3>1 DEF RequestOK, FollowsOK
    <3>2. CASE request[q].at \notin Ended
      BY <2>1, <1>1, <3>2 DEF RequestOK, FollowsOK
    <3> QED
      BY <3>1, <3>2
  <2>4. FoundOK(request[q])'
    <3>1. CASE request[q].at \in Ended
      BY <2>1, <1>1, <3>1 DEF RequestOK, FoundOK, Servable, Hidden
    <3>2. CASE request[q].at \notin Ended
      BY <2>1, <1>1, <3>2 DEF RequestOK, FoundOK, Servable, Hidden, Ended
    <3> QED
      BY <3>1, <3>2
  <2>5. ErasureOK(q, request[q])'
    BY <2>1, <1>1 DEF RequestOK, ErasureOK
  <2>6. \A p \in request'[q].before : request'[p].at = "done"
    <3>1. \A p \in request[q].before : p \in Requests /\ request[p].at = "done"
      BY <2>1 DEF RequestOK, Req
    <3> QED
      BY <3>1, <1>1
  <2>7. \A p \in request'[q].removed : WasLoaded(p, request[q].scope)'
    <3>1. \A p \in request[q].removed : p \in Requests /\ WasLoaded(p, request[q].scope)
      BY <2>1 DEF RequestOK, Req
    <3> QED
      BY <3>1, <1>1, <1>3
  <2> QED
    BY <2>2, <2>3, <2>4, <2>5, <2>6, <2>7, <1>1 DEF RequestOK
<1>7. ASSUME NEW q \in Requests PROVE Accounted(q)' /\ Forgotten(q)'
  <2>1. \A t, f : f \in Erasures(t) => request'[f].removed = request[f].removed
    BY <1>1 DEF Erasures
  <2> QED
    BY <2>1, <1>1, <1>4 DEF IInv, Accounted, Forgotten
<1> QED
  BY <1>2, <1>5, <1>6, <1>7 DEF IInv

LEMMA AdviseStep ==
    ASSUME IInv, NEW r \in Imported, Advise(r)
    PROVE  IInv'
<1>1. CatalogOK'
  BY BoundsAssumption DEF IInv, CatalogOK, Advise
<1> QED
  BY <1>1, WitnessedStep DEF Advise

LEMMA ReclassifyStep ==
    ASSUME IInv, NEW r \in Imported, Reclassify(r)
    PROVE  IInv'
<1>1. CatalogOK' /\ chain' = chain + 0
  BY BoundsAssumption DEF IInv, CatalogOK, Reclassify
<1> QED
  BY <1>1, WitnessedStep DEF Reclassify

-----------------------------------------------------------------------------
(***************************************************************************)
(* The theorems.                                                           *)
(***************************************************************************)
LEMMA InitInv == Init => IInv
<1> SUFFICES ASSUME Init PROVE IInv
  OBVIOUS
<1>1. Unsent \in Req
  BY DEF Req, Unsent, Places
<1>2. request \in [Requests -> Req] /\ \A q \in Requests : request[q] = Unsent
  BY <1>1 DEF Init
<1>3. CatalogOK
  BY BoundsAssumption DEF Init, CatalogOK
<1>4. /\ \A s \in Scopes : Counted(s) = {}
      /\ memory \in [Scopes -> [Served -> Rows \cup {None}]]
      /\ \A s \in Scopes, r \in Served : memory[s][r] = None
  BY DEF Init, Counted
<1>5. MemoryOK
  BY <1>4 DEF MemoryOK, Init
<1>6. ASSUME NEW q \in Requests PROVE RequestOK(q) /\ Accounted(q) /\ Forgotten(q)
  <2> DEFINE x == request[q]
  <2>1. /\ x.at = "unsent" /\ x.call = None /\ x.scope = None /\ x.head = None
        /\ x.answer = None /\ x.before = {} /\ x.removed = {}
    BY <1>2 DEF Unsent
  <2>2. x.call \notin Calls /\ x.answer \notin Answers
    BY <2>1, NoneAssumption
  <2>3. q \notin audit
    BY DEF Init
  <2>4. ShapeOK(x) /\ FollowsOK(x) /\ FoundOK(x) /\ ErasureOK(q, x)
    BY <2>1, <2>2, <2>3
    DEF ShapeOK, FollowsOK, FoundOK, ErasureOK, Calls, Answers, Writing, Ended
  <2> QED
    BY <2>1, <2>2, <2>4 DEF RequestOK, Accounted, Forgotten, Answers
<1> QED
  BY <1>2, <1>3, <1>5, <1>6 DEF IInv

LEMMA NextInv == IInv /\ [Next]_vars => IInv'
<1> SUFFICES ASSUME IInv, [Next]_vars PROVE IInv'
  OBVIOUS
<1>1. ASSUME NEW q \in Requests, Serve(q) PROVE IInv'
  BY <1>1, ArriveStep, ReadHeadStep, StatusStep, FindStep, LatestStep, FinalStep, SearchStep,
     ListStep, RecordStep, OutcomeStep, ForgetStep, FailStep, TimeOutStep DEF Serve
<1>2. ASSUME NEW r \in Imported, Advise(r) \/ Reclassify(r) PROVE IInv'
  BY <1>2, AdviseStep, ReclassifyStep
<1>3. CASE UNCHANGED vars
  BY <1>3 DEF vars, catalog, IInv, CatalogOK, MemoryOK, RequestOK, ShapeOK, FollowsOK, FoundOK,
     ErasureOK, WasLoaded, Servable, Hidden, Accounted, Forgotten, Counted, Erasures
<1> QED
  BY <1>1, <1>2, <1>3 DEF Next

LEMMA Invariance == Spec => []IInv
<1> QED
  BY InitInv, NextInv, PTL DEF Spec

\* Requests, rows, audit and catalog are always well formed.
THEOREM TypeCorrect == Spec => []TypeOK
<1>1. IInv => TypeOK
  <2> SUFFICES ASSUME IInv PROVE TypeOK
    OBVIOUS
  <2>1. ASSUME NEW s \in Scopes, NEW r \in Served, memory[s][r] # None
        PROVE  /\ memory[s][r].outcome \in Outcomes \cup {None}
               /\ memory[s][r].by # {}
               /\ \A q \in memory[s][r].by :
                     request[q].call = "load" /\ request[q].rev = r /\ request[q].scope = s
    BY <2>1 DEF IInv, MemoryOK, Rows, WasLoaded
  <2>2. ASSUME NEW q \in Requests
        PROVE  /\ request[q].at \in InCatalog \cup Writing \cup {"unsent", "ranking", "list", "done"}
               /\ request[q].head \in 0..chain \cup {None}
               /\ request[q].answer = None => request[q].at # "done"
               /\ request[q].answer # None => request[q].at \in Writing \cup {"done"}
    BY DEF IInv, RequestOK, ShapeOK, FollowsOK, Req, Places
  <2> QED
    BY <2>1, <2>2 DEF IInv, CatalogOK, MemoryOK, TypeOK
<1> QED
  BY <1>1, Invariance, PTL

\* What an agent is told of an exact revision was so at some time while it asked
\* (load-skill.ts, read-skill-resource.ts), whatever the catalog does meanwhile.
THEOREM AnswersAreTimelyAlways == Spec => []AnswersAreTimely
<1>1. IInv => AnswersAreTimely
  BY DEF IInv, RequestOK, FoundOK, AnswersAreTimely, Exact, Servable, Hidden
<1> QED
  BY <1>1, Invariance, PTL

\* A confirmed use is counted or erased with a row in the audit, and a refused load leaves
\* no trace in the memory of its repository (repository-memory-store.ts).
THEOREM UsesAreAccountedForAlways == Spec => []UsesAreAccountedFor
<1>1. IInv => UsesAreAccountedFor
  <2> SUFFICES ASSUME IInv, NEW q \in Requests, request[q].call = "load",
                      request[q].scope # None, NEW s \in Scopes, s = request[q].scope
               PROVE  /\ request[q].answer = "ok" =>
                            \/ q \in Counted(s)
                            \/ \E f \in Erasures(s) \cap audit : q \in request[f].removed
                      /\ request[q].answer \in Refused => q \notin Counted(s) \cup Erased(s)
    BY DEF UsesAreAccountedFor, IInv, Req, Refused
  <2>1. q \in Counted(s) => request[q].answer \notin Refused
    BY CountedLoaded DEF IInv, WasLoaded
  <2>2. q \in Erased(s) => request[q].answer \notin Refused
    <3>1. \A f \in Erasures(s) : q \in request[f].removed => WasLoaded(q, s)
      BY DEF Erasures, IInv, RequestOK
    <3> QED
      BY <3>1 DEF Erased, WasLoaded
  <2> QED
    BY <2>1, <2>2 DEF IInv, Accounted
<1> QED
  BY <1>1, Invariance, PTL

\* A confirmed erasure is in the audit, and no load that had ended before it was asked for
\* is counted in its scope any more.
THEOREM ForgottenStaysForgottenAlways == Spec => []ForgottenStaysForgotten
<1>1. IInv => ForgottenStaysForgotten
  BY DEF IInv, Forgotten, RequestOK, ErasureOK, ForgottenStaysForgotten
<1> QED
  BY <1>1, Invariance, PTL
=============================================================================
