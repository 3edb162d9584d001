------------------------------ MODULE SyncRuns ------------------------------
(***************************************************************************)
(* Durable synchronization runs: the ticks of GitHubSyncScheduler          *)
(* (src/lifecycle/github-sync-scheduler.ts) of every server process, the   *)
(* rows of github_sync_runs and github_source_registrations that           *)
(* src/persistence/postgres/github-source-store.ts keeps, the lease of     *)
(* each source, and the source head that a publication moves.              *)
(*                                                                         *)
(* A tick is one runOnce invocation, of any process; the ticks of one      *)
(* process overlap when one outlasts the interval.  A job is               *)
(* #executeSyncRun for one claimed run, under the lease "sync/<source>".   *)
(* Every call of a store is one transaction, hence one step; between two   *)
(* of them everything else may happen.  requestTransaction refuses to      *)
(* commit once the operation is aborted, so a transaction's step has the   *)
(* guard ~Aborted.                                                         *)
(***************************************************************************)
EXTENDS Naturals, FiniteSets, Functions

CONSTANTS
    Sources,        \* registered, enabled sources; also the lease keys
    Bootstrapped,   \* sources that bootstrap-cli may synchronize meanwhile
    Ticks,          \* concurrent runOnce invocations; also the lease holders
    None,           \* no holder, no commit, no run
    MaxAttempts,    \* SKILLWIRE_GITHUB_MAX_ATTEMPTS
    AttemptCeiling, \* CHECK (attempt_count BETWEEN 0 AND 100)
    Limit,          \* min(maximumSourcesPerTick, maximumConcurrentJobs)
    MaxRuns,        \* bound: rows of github_sync_runs
    Reserve,        \* bound: rows of them kept for retries and recoveries
    MaxCommits,     \* bound: commits of a source's default branch
    MaxFaults       \* bound: crashes, aborts, lost leases, lost replies ...

ASSUME SizesAssumption ==
    /\ MaxAttempts \in Nat \ {0}
    /\ AttemptCeiling \in Nat
    /\ Limit \in Nat \ {0}
    /\ MaxRuns \in Nat
    /\ Reserve \in Nat
    /\ MaxCommits \in Nat \ {0}
    /\ MaxFaults \in Nat

ASSUME BootstrappedAssumption == Bootstrapped \subseteq Sources

ASSUME NoneAssumption == None \notin Ticks

VARIABLES
    lease,      \* the lease row of each source (SyncLease)
    run,        \* github_sync_runs
    due,        \* next_sync_at has passed
    tick,       \* where each runOnce is, and whether its signal is aborted
    job,        \* the #executeSyncRun of a tick for a source
    upstream,   \* the commit at the head of a source's default branch
    snapshots,  \* commits of a source with a row in external_source_snapshots
    head,       \* the commit of github_sources.current_published_snapshot_id
    bootstrap,  \* a bootstrap-cli process: the commit it has read, or NoCommit
    newest,     \* history: newest commit published by an unpinned job
    fence,      \* history: the token under which a job last moved the head
    faults      \* faults so far

L == INSTANCE SyncLease WITH Keys <- Sources, Holders <- Ticks, NoHolder <- None

vars == <<lease, run, due, tick, job, upstream, snapshots, head, bootstrap,
          newest, fence, faults>>
rows == <<run, due>>
catalog == <<upstream, snapshots, head, newest, fence>>

RunIds == 1 .. MaxRuns
Commits == 1 .. MaxCommits
NoCommit == 0

Active == {"queued", "running"}
Terminal == {"succeeded", "quarantined", "failed", "cancelled"}

Run == [state : Active \cup Terminal \cup {"absent"},
        source : Sources \cup {None},
        holder : Ticks \cup {None},
        token : Nat,
        attempts : Nat,
        prev : RunIds \cup {0},
        pin : Commits \cup {NoCommit},
        ready : BOOLEAN,
        retryable : BOOLEAN]

\* What #executeSyncRun distinguishes in an error: one of its five retryable
\* codes; a rate limit whose reset lies more than seven days ahead; one of the
\* codes of isDeterministicQuarantine; anything else.
Errors == {"retryable", "deferred", "quarantine", "other"}

Job == [pc : {"none", "claimed", "acquired", "running", "read", "published",
              "failing", "releasing"},
        run : RunIds \cup {0},
        attempts : Nat,
        token : Nat,
        lost : BOOLEAN,
        commit : Commits \cup {NoCommit},
        outcome : Errors \cup {"none", "visible", "hidden"}]

NoJob == [pc |-> "none", run |-> 0, attempts |-> 0, token |-> 0,
          lost |-> FALSE, commit |-> NoCommit, outcome |-> "none"]

Tick == [pc : {"idle", "recovered", "enqueued", "executing"}, aborted : BOOLEAN]

Absent == [state |-> "absent", source |-> None, holder |-> None, token |-> 0,
           attempts |-> 0, prev |-> 0, pin |-> NoCommit, ready |-> FALSE,
           retryable |-> FALSE]

-----------------------------------------------------------------------------
Init ==
    /\ L!LeaseInit
    /\ run = [r \in RunIds |-> Absent]
    /\ due = [s \in Sources |-> TRUE]
    /\ tick = [t \in Ticks |-> [pc |-> "idle", aborted |-> FALSE]]
    /\ job = [t \in Ticks |-> [s \in Sources |-> NoJob]]
    /\ upstream = [s \in Sources |-> 1]
    /\ snapshots = [s \in Sources |-> {}]
    /\ head = [s \in Sources |-> NoCommit]
    /\ bootstrap = [s \in Sources |-> NoCommit]
    /\ newest = [s \in Sources |-> NoCommit]
    /\ fence = [s \in Sources |-> 0]
    /\ faults = 0

Fault == faults < MaxFaults /\ faults' = faults + 1

Aborted(t, s) == tick[t].aborted \/ job[t][s].lost
HoldsLease(t, s) == L!Held(s, t, job[t][s].token)

\* The acquisition of the lease is over and its release still ahead.
Working(t, s) == job[t][s].pc \in {"acquired", "running", "read", "published",
                                   "failing", "releasing"}

ActiveRuns(s) == {r \in RunIds : run[r].state \in Active /\ run[r].source = s}
AbsentRuns == {r \in RunIds : run[r].state = "absent"}


\* Mutant: the row is inserted without its source.
QueuedWithoutSource(s, prev, pin, attempts, ready) ==
    [Absent EXCEPT !.state = "queued", !.prev = prev, !.pin = pin,
                   !.attempts = attempts, !.ready = ready]

\* Mutant: the row forgets the attempts already made.
QueuedAfresh(s, prev, pin, attempts, ready) ==
    [Absent EXCEPT !.state = "queued", !.source = s, !.prev = prev,
                   !.pin = pin, !.ready = ready]

\* The INSERT of #enqueueSyncInTransaction.
Queued(s, prev, pin, attempts, ready) ==
    [Absent EXCEPT !.state = "queued", !.source = s, !.prev = prev,
                   !.pin = pin, !.attempts = attempts, !.ready = ready]

\* Identifiers are drawn in order: which UUID a row gets is immaterial.
FreshSet(R) ==
    /\ R \subseteq AbsentRuns
    /\ \A r \in R, q \in AbsentRuns \ R : r < q

\* Bound: requests leave Reserve identifiers to the retries of all of them.
RoomFor(n) == Cardinality(AbsentRuns) >= n + Reserve

-----------------------------------------------------------------------------
\* A tick.


\* Mutant: recovery overlooks a lease that has run out under its run.
AbandonedIfOvertaken ==
    {r \in RunIds : /\ run[r].state = "running"
                    /\ ~L!Owns(run[r].source, run[r].holder, run[r].token)}

\* recoverAbandonedJobs, the first transaction of a tick: a running run whose
\* lease has expired or names another acquisition fails as RUN_ABANDONED and a
\* new run carries on its attempts.  The tick starts by the timer, or by start.
Abandoned == {r \in RunIds : /\ run[r].state = "running"
                             /\ ~L!Held(run[r].source, run[r].holder, run[r].token)}

Recover(t) ==
    /\ tick[t].pc = "idle"
    /\ \E f \in Injection(Abandoned, AbsentRuns) :
          /\ FreshSet(Range(f))
          /\ run' = [r \in RunIds |->
                IF r \in Abandoned
                THEN [run[r] EXCEPT !.state = "failed", !.retryable = TRUE]
                ELSE IF r \in Range(f)
                THEN LET q == CHOOSE a \in Abandoned : f[a] = r
                     IN  Queued(run[q].source, q, run[q].pin, run[q].attempts, FALSE)
                ELSE run[r]]
    /\ tick' = [tick EXCEPT ![t].pc = "recovered"]
    /\ UNCHANGED <<lease, due, job, bootstrap, catalog, faults>>

\* The discovery of the tick throws, and runOnce with it, before any source is
\* looked at.  What discovery does is DiscoveryRuns' concern.
DiscoveryThrows(t) ==
    /\ tick[t].pc = "recovered"
    /\ ~tick[t].aborted
    /\ Fault
    /\ tick' = [tick EXCEPT ![t].pc = "idle"]
    /\ UNCHANGED <<lease, rows, job, bootstrap, catalog>>

\* An aborted tick throws at its next call.
TickThrows(t) ==
    /\ tick[t].pc \in {"recovered", "enqueued"}
    /\ tick[t].aborted
    /\ tick' = [tick EXCEPT ![t] = [pc |-> "idle", aborted |-> FALSE]]
    /\ UNCHANGED <<lease, rows, job, bootstrap, catalog, faults>>

\* A choice of at most Limit members, and of Limit of them if there are as many:
\* ORDER BY ... LIMIT, with the order left open.
Choices(S) == {C \in SUBSET S : \/ Cardinality(C) = Limit
                                \/ C = S /\ Cardinality(C) <= Limit}

\* enqueueDueSourceSyncs.
EnqueueDue(t) ==
    /\ tick[t].pc = "recovered"
    /\ ~tick[t].aborted
    /\ \E C \in Choices({s \in Sources : due[s] /\ ActiveRuns(s) = {}}) :
          LET S == IF RoomFor(Cardinality(C)) THEN C ELSE {}
          IN  \E f \in Injection(S, AbsentRuns) :
                 /\ FreshSet(Range(f))
                 /\ run' = [r \in RunIds |->
                       IF r \in Range(f)
                       THEN Queued(CHOOSE s \in S : f[s] = r, 0, NoCommit, 0, TRUE)
                       ELSE run[r]]
    /\ tick' = [tick EXCEPT ![t].pc = "enqueued"]
    /\ UNCHANGED <<lease, due, job, bootstrap, catalog, faults>>

\* claimQueuedSyncRuns changes no row: the rows it reads stay queued, and
\* another tick may read them too.
ClaimRuns(t) ==
    /\ tick[t].pc = "enqueued"
    /\ ~tick[t].aborted
    /\ \E C \in Choices({r \in RunIds : run[r].state = "queued" /\ run[r].ready}) :
          job' = [job EXCEPT ![t] = [s \in Sources |->
                     IF \E r \in C : run[r].source = s
                     THEN LET r == CHOOSE q \in C : run[q].source = s
                          IN  [NoJob EXCEPT !.pc = "claimed", !.run = r,
                                            !.attempts = run[r].attempts]
                     ELSE NoJob]]
    /\ tick' = [tick EXCEPT ![t].pc = "executing"]
    /\ UNCHANGED <<lease, rows, bootstrap, catalog, faults>>

\* Promise.allSettled has every outcome.
TickDone(t) ==
    /\ tick[t].pc = "executing"
    /\ \A s \in Sources : job[t][s].pc = "none"
    /\ tick' = [tick EXCEPT ![t] = [pc |-> "idle", aborted |-> FALSE]]
    /\ UNCHANGED <<lease, rows, job, bootstrap, catalog, faults>>

-----------------------------------------------------------------------------
\* A job: #executeSyncRun inside #withLease.

Goto(t, s, pc) == job' = [job EXCEPT ![t][s].pc = pc]
Leave(t, s) == job' = [job EXCEPT ![t][s] = NoJob]
ToCatch(t, s, e) == job' = [job EXCEPT ![t][s].pc = "failing", ![t][s].outcome = e]

AcquireLease(t, s) ==
    /\ job[t][s].pc = "claimed"
    /\ ~tick[t].aborted
    /\ L!Acquire(s, t)
    /\ job' = [job EXCEPT ![t][s].pc = "acquired", ![t][s].token = lease[s].token + 1]
    /\ UNCHANGED <<rows, tick, bootstrap, catalog, faults>>

\* throwIfAborted, or acquire finds a live lease and #withLease returns false.
SkipRun(t, s) ==
    /\ job[t][s].pc = "claimed"
    /\ tick[t].aborted \/ lease[s].live
    /\ Leave(t, s)
    /\ UNCHANGED <<lease, rows, tick, bootstrap, catalog, faults>>

\* markSyncRunning commits: the run is still queued and, by the CHECK of the
\* column, its incremented attempt_count does not exceed the ceiling.
Startable(t, s) ==
    LET r == job[t][s].run
    IN  /\ ~Aborted(t, s)
        /\ HoldsLease(t, s)
        /\ run[r].state = "queued"
        /\ run[r].attempts < AttemptCeiling

Started(t, s) ==
    LET r == job[t][s].run
    IN  run' = [run EXCEPT ![r] = [run[r] EXCEPT !.state = "running", !.holder = t,
                                                 !.token = job[t][s].token,
                                                 !.attempts = run[r].attempts + 1]]

MarkRunning(t, s) ==
    /\ job[t][s].pc = "acquired"
    /\ Startable(t, s)
    /\ Started(t, s)
    /\ Goto(t, s, "running")
    /\ UNCHANGED <<lease, due, tick, bootstrap, catalog, faults>>

\* markSyncRunning throws outside the try: nothing is recorded of the run.
MarkRefused(t, s) ==
    /\ job[t][s].pc = "acquired"
    /\ ~Startable(t, s)
    /\ Goto(t, s, "releasing")
    /\ UNCHANGED <<lease, rows, tick, bootstrap, catalog, faults>>

\* #syncSource resolves the commit, the default branch's or the requested one.
ReadUpstream(t, s) ==
    /\ job[t][s].pc = "running"
    /\ ~Aborted(t, s)
    /\ LET pin == run[job[t][s].run].pin
       IN  job' = [job EXCEPT ![t][s].pc = "read",
                              ![t][s].commit = IF pin = NoCommit THEN upstream[s] ELSE pin]
    /\ UNCHANGED <<lease, rows, tick, bootstrap, catalog, faults>>


\* Mutant: publication without assertLeaseHeld.
PublicationUnfenced(t, s) ==
    LET c == job[t][s].commit
    IN  /\ ~Aborted(t, s)
        /\ snapshots' = [snapshots EXCEPT ![s] = @ \cup {c}]
        /\ head' = [head EXCEPT ![s] = c]
        /\ fence' = [fence EXCEPT ![s] = job[t][s].token]
        /\ newest' = IF run[job[t][s].run].pin = NoCommit
                     THEN [newest EXCEPT ![s] = c] ELSE newest
        /\ UNCHANGED upstream

\* Mutant: a snapshot that exists already is reported and not made the head.
PublicationOfNewOnly(t, s) ==
    LET c == job[t][s].commit
    IN  /\ ~Aborted(t, s)
        /\ HoldsLease(t, s)
        /\ IF c \in snapshots[s]
           THEN UNCHANGED <<snapshots, head, fence, newest>>
           ELSE /\ snapshots' = [snapshots EXCEPT ![s] = @ \cup {c}]
                /\ head' = [head EXCEPT ![s] = c]
                /\ fence' = [fence EXCEPT ![s] = job[t][s].token]
                /\ newest' = [newest EXCEPT ![s] = c]
        /\ UNCHANGED upstream

\* publishSnapshot under a lease: a snapshot of the commit read exists and is
\* the head.  Its other effects are ExternalCatalog's concern.
Publication(t, s) ==
    LET c == job[t][s].commit
    IN  /\ ~Aborted(t, s)
        /\ HoldsLease(t, s)
        /\ snapshots' = [snapshots EXCEPT ![s] = @ \cup {c}]
        /\ head' = [head EXCEPT ![s] = c]
        /\ fence' = [fence EXCEPT ![s] = job[t][s].token]
        /\ newest' = IF run[job[t][s].run].pin = NoCommit
                     THEN [newest EXCEPT ![s] = c] ELSE newest
        /\ UNCHANGED upstream

Publish(t, s) ==
    /\ job[t][s].pc = "read"
    /\ Publication(t, s)
    /\ \E o \in {"visible", "hidden"} :
          job' = [job EXCEPT ![t][s].pc = "published", ![t][s].outcome = o]
    /\ UNCHANGED <<lease, rows, tick, bootstrap, faults>>

\* Reading, validating or publishing throws.  A job that is aborted or has lost
\* its lease cannot do anything else.
Throw(t, s) ==
    /\ job[t][s].pc \in {"running", "read"}
    /\ \E e \in Errors :
          /\ Aborted(t, s) => e = "other"
          /\ ToCatch(t, s, e)
          /\ IF e = "deferred" THEN Fault ELSE UNCHANGED faults
    /\ UNCHANGED <<lease, rows, tick, bootstrap, catalog>>


\* Mutant: the UPDATE trusts the lease and does not compare the row's state.
RecordableByLease(t, s) == ~Aborted(t, s) /\ HoldsLease(t, s)

\* The guard that completeSyncRun, failSyncRun and quarantineSyncRun share.
Recordable(t, s) ==
    LET r == job[t][s].run
    IN  /\ ~Aborted(t, s)
        /\ HoldsLease(t, s)
        /\ run[r].state = "running"
        /\ run[r].holder = t
        /\ run[r].token = job[t][s].token

Completion(t, s) ==
    /\ Recordable(t, s)
    /\ run' = [run EXCEPT ![job[t][s].run].state =
                  IF job[t][s].outcome = "visible" THEN "succeeded" ELSE "quarantined"]
    /\ due' = [due EXCEPT ![s] = FALSE]

Complete(t, s) ==
    /\ job[t][s].pc = "published"
    /\ Completion(t, s)
    /\ Goto(t, s, "releasing")
    /\ UNCHANGED <<lease, tick, bootstrap, catalog, faults>>

CompleteThrows(t, s) ==
    /\ job[t][s].pc = "published"
    /\ ~Recordable(t, s)
    /\ ToCatch(t, s, "other")
    /\ UNCHANGED <<lease, rows, tick, bootstrap, catalog, faults>>

\* failSyncRun: the run ends, and a retryable error short of the limit, which
\* is judged by the attempts read at the claim, queues the next attempt in the
\* same transaction, not before a delay.  next_sync_at stays as it is.
Fail(t, s) ==
    LET r == job[t][s].run
        cancelled == Aborted(t, s)
        retryable == /\ ~cancelled
                     /\ job[t][s].attempts + 1 < MaxAttempts
                     /\ job[t][s].outcome = "retryable"
        failed == [run EXCEPT ![r] =
                      [run[r] EXCEPT !.state = IF cancelled THEN "cancelled" ELSE "failed",
                                     !.retryable = retryable]]
    IN  /\ job[t][s].pc = "failing"
        /\ job[t][s].outcome \in {"retryable", "other"}
        /\ Recordable(t, s)
        /\ IF retryable
           THEN \E n \in AbsentRuns :
                   /\ FreshSet({n})
                   /\ run' = [failed EXCEPT ![n] =
                                 Queued(s, r, run[r].pin, run[r].attempts, FALSE)]
           ELSE run' = failed
        /\ Goto(t, s, "releasing")
        /\ UNCHANGED <<lease, due, tick, bootstrap, catalog, faults>>

\* quarantineSyncRun: unlike a failure, it moves next_sync_at on.
Quarantine(t, s) ==
    /\ job[t][s].pc = "failing"
    /\ job[t][s].outcome = "quarantine"
    /\ Recordable(t, s)
    /\ run' = [run EXCEPT ![job[t][s].run].state = "quarantined"]
    /\ due' = [due EXCEPT ![s] = FALSE]
    /\ Goto(t, s, "releasing")
    /\ UNCHANGED <<lease, tick, bootstrap, catalog, faults>>

\* The transaction of the catch block throws, and the run stays as it is:
\* LEASE_LOST, an aborted operation, or failSyncRun's INVALID_RETRY_DELAY for
\* a reset it was given although the run is not to be retried.
NotRecorded(t, s) ==
    /\ job[t][s].pc = "failing"
    /\ job[t][s].outcome = "deferred" \/ ~Recordable(t, s)
    /\ Goto(t, s, "releasing")
    /\ UNCHANGED <<lease, rows, tick, bootstrap, catalog, faults>>

\* The finally of #withLease, with a context of its own.
ReleaseLease(t, s) ==
    /\ job[t][s].pc = "releasing"
    /\ L!Release(s, t, job[t][s].token)
    /\ Leave(t, s)
    /\ UNCHANGED <<rows, tick, bootstrap, catalog, faults>>

\* The interval timer of #withLease.
HeartbeatRenews(t, s) ==
    /\ Working(t, s) /\ job[t][s].pc # "releasing"
    /\ ~Aborted(t, s)
    /\ L!Renew(s, t, job[t][s].token)
    /\ UNCHANGED <<rows, tick, job, bootstrap, catalog, faults>>

HeartbeatFails(t, s) ==
    /\ Working(t, s) /\ job[t][s].pc # "releasing"
    /\ ~Aborted(t, s)
    /\ ~HoldsLease(t, s)
    /\ job' = [job EXCEPT ![t][s].lost = TRUE]
    /\ UNCHANGED <<lease, rows, tick, bootstrap, catalog, faults>>

-----------------------------------------------------------------------------
\* What goes wrong.

\* A call of the job throws without effect: the database is unreachable.
CallFails(t, s) ==
    /\ Fault
    /\ CASE job[t][s].pc \in {"claimed", "releasing"} -> Leave(t, s)
         [] job[t][s].pc \in {"acquired", "failing"} -> Goto(t, s, "releasing")
         [] job[t][s].pc = "published" -> ToCatch(t, s, "other")
         [] OTHER -> FALSE
    /\ UNCHANGED <<lease, rows, tick, bootstrap, catalog>>

\* The transaction commits and the reply to COMMIT is lost, so the call throws.
ReplyLost(t, s) ==
    /\ Fault
    /\ UNCHANGED <<tick, bootstrap>>
    /\ \/ /\ job[t][s].pc = "claimed" /\ ~tick[t].aborted
          /\ L!Acquire(s, t)
          /\ Leave(t, s)
          /\ UNCHANGED <<rows, catalog>>
       \/ /\ job[t][s].pc = "acquired"
          /\ Startable(t, s)
          /\ Started(t, s)
          /\ Goto(t, s, "releasing")
          /\ UNCHANGED <<lease, due, catalog>>
       \/ /\ job[t][s].pc = "read"
          /\ Publication(t, s)
          /\ ToCatch(t, s, "other")
          /\ UNCHANGED <<lease, rows>>
       \/ /\ job[t][s].pc = "published"
          /\ Completion(t, s)
          /\ ToCatch(t, s, "other")
          /\ UNCHANGED <<lease, catalog>>

\* The operation's deadline passes, or stop() aborts it.
Abort(t) ==
    /\ tick[t].pc # "idle"
    /\ ~tick[t].aborted
    /\ Fault
    /\ tick' = [tick EXCEPT ![t].aborted = TRUE]
    /\ UNCHANGED <<lease, rows, job, bootstrap, catalog>>

\* The process dies, and a new one takes its place.  Leases and rows remain.
Crash(t) ==
    /\ tick[t].pc # "idle"
    /\ Fault
    /\ tick' = [tick EXCEPT ![t] = [pc |-> "idle", aborted |-> FALSE]]
    /\ job' = [job EXCEPT ![t] = [s \in Sources |-> NoJob]]
    /\ UNCHANGED <<lease, rows, bootstrap, catalog>>

\* A lease runs out: that of a job at work only by missed heartbeats.
Tended(s) == \E t \in Ticks : Working(t, s) /\ L!Owns(s, t, job[t][s].token)

LeaseExpires(s) ==
    /\ L!Expire(s)
    /\ IF Tended(s) THEN Fault ELSE UNCHANGED faults
    /\ UNCHANGED <<rows, tick, job, bootstrap, catalog>>

-----------------------------------------------------------------------------
\* The environment.

\* next_attempt_at passes.
BecomesReady(r) ==
    /\ run[r].state = "queued"
    /\ ~run[r].ready
    /\ run' = [run EXCEPT ![r].ready = TRUE]
    /\ UNCHANGED <<lease, due, tick, job, bootstrap, catalog, faults>>

\* next_sync_at passes.
BecomesDue(s) ==
    /\ ~due[s] /\ RoomFor(1)
    /\ due' = [due EXCEPT ![s] = TRUE]
    /\ UNCHANGED <<lease, run, tick, job, bootstrap, catalog, faults>>

\* A push to the default branch.
Push(s) ==
    /\ upstream[s] < MaxCommits
    /\ upstream' = [upstream EXCEPT ![s] = @ + 1]
    /\ UNCHANGED <<lease, rows, tick, job, snapshots, head, bootstrap, newest, fence, faults>>


\* Mutant: a request does not look for an active run.
RequestAlways(s, pin) ==
    /\ RoomFor(1)
    /\ \E n \in AbsentRuns :
          /\ FreshSet({n})
          /\ run' = [run EXCEPT ![n] = Queued(s, 0, pin, 0, TRUE)]
    /\ UNCHANGED <<lease, due, tick, job, bootstrap, catalog, faults>>

\* An administrator's sync (any commit) or verification of a candidate (the
\* commit of its snapshot).  With a run active, nothing is queued.
Request(s, pin) ==
    /\ ActiveRuns(s) = {}
    /\ RoomFor(1)
    /\ \E n \in AbsentRuns :
          /\ FreshSet({n})
          /\ run' = [run EXCEPT ![n] = Queued(s, 0, pin, 0, TRUE)]
    /\ UNCHANGED <<lease, due, tick, job, bootstrap, catalog, faults>>

AdminSync(s) == Request(s, NoCommit)
AdminVerify(s) == \E c \in snapshots[s] : Request(s, c)

\* bootstrap-cli synchronizes a source in a process of its own and without a
\* lease: it reads the default branch and publishes, or ends before that.
BootstrapRead(s) ==
    /\ s \in Bootstrapped /\ bootstrap[s] = NoCommit
    /\ bootstrap' = [bootstrap EXCEPT ![s] = upstream[s]]
    /\ UNCHANGED <<lease, rows, tick, job, catalog, faults>>

BootstrapEnds(s) ==
    /\ bootstrap[s] # NoCommit
    /\ bootstrap' = [bootstrap EXCEPT ![s] = NoCommit]
    /\ \/ /\ snapshots' = [snapshots EXCEPT ![s] = @ \cup {bootstrap[s]}]
          /\ head' = [head EXCEPT ![s] = bootstrap[s]]
          /\ UNCHANGED <<upstream, newest, fence>>
       \/ UNCHANGED catalog
    /\ UNCHANGED <<lease, rows, tick, job, faults>>

-----------------------------------------------------------------------------
JobStep(t, s) ==
    \/ AcquireLease(t, s) \/ SkipRun(t, s)
    \/ MarkRunning(t, s) \/ MarkRefused(t, s)
    \/ ReadUpstream(t, s) \/ Publish(t, s) \/ Throw(t, s)
    \/ Complete(t, s) \/ CompleteThrows(t, s)
    \/ Fail(t, s) \/ Quarantine(t, s) \/ NotRecorded(t, s)
    \/ ReleaseLease(t, s)

TickStep(t) ==
    Recover(t) \/ TickThrows(t) \/ EnqueueDue(t) \/ ClaimRuns(t) \/ TickDone(t)

Breaks(t) ==
    \/ DiscoveryThrows(t) \/ Abort(t) \/ Crash(t)
    \/ \E s \in Sources : CallFails(t, s) \/ ReplyLost(t, s)

Environment(s) ==
    \/ LeaseExpires(s) \/ BecomesDue(s) \/ Push(s)
    \/ AdminSync(s) \/ AdminVerify(s)
    \/ BootstrapRead(s) \/ BootstrapEnds(s)

Next ==
    \/ \E t \in Ticks : TickStep(t) \/ Breaks(t)
    \/ \E t \in Ticks, s \in Sources :
          JobStep(t, s) \/ HeartbeatRenews(t, s) \/ HeartbeatFails(t, s)
    \/ \E s \in Sources : Environment(s)
    \/ \E r \in RunIds : BecomesReady(r)

Spec == Init /\ [][Next]_vars

\* Ticks fire by a timer and run on, the jobs of a tick run side by side, and
\* the database clock passes every time stamp.  Nothing makes a heartbeat, a
\* push, an administrator or bootstrap-cli happen.
Fairness ==
    /\ \A t \in Ticks : WF_vars(TickStep(t))
    /\ \A t \in Ticks, s \in Sources : WF_vars(JobStep(t, s))
    /\ \A s \in Sources : WF_vars(~Tended(s) /\ LeaseExpires(s))
    /\ \A r \in RunIds : WF_vars(BecomesReady(r))

FairSpec == Spec /\ Fairness

-----------------------------------------------------------------------------
(***************************************************************************)
(* Properties                                                              *)
(***************************************************************************)
\* Every row is well formed, and a row that exists belongs to a source.
TypeOK ==
    /\ L!LeaseTypeOK
    /\ run \in [RunIds -> Run]
    /\ \A r \in RunIds : run[r].state # "absent" => run[r].source \in Sources
    /\ due \in [Sources -> BOOLEAN]
    /\ tick \in [Ticks -> Tick]
    /\ job \in [Ticks -> [Sources -> Job]]
    /\ upstream \in [Sources -> Commits]
    /\ snapshots \in [Sources -> SUBSET Commits]
    /\ head \in [Sources -> Commits \cup {NoCommit}]
    /\ bootstrap \in [Sources -> Commits \cup {NoCommit}]
    /\ newest \in [Sources -> Commits \cup {NoCommit}]
    /\ fence \in [Sources -> Nat]
    /\ faults \in Nat

\* At most one run of a source is queued or running, whatever order the ticks'
\* recoveries and enqueues, the retries and the administrator's requests come
\* in (the index github_sync_runs_one_active_idx never has to refuse a row).
OneActiveRun ==
    \A r, q \in RunIds :
        /\ run[r].state \in Active
        /\ run[q].state \in Active
        /\ run[r].source = run[q].source
        => r = q

\* A job moves the head under the token of its run, and only while that run is
\* still running under it: neither a late holder of the lease nor a run that a
\* recovery has given up publishes, and fencing tokens of the head only grow.
FencedHead ==
    [][\A s \in Sources : fence'[s] # fence[s] =>
          /\ fence'[s] > fence[s]
          /\ \E r \in RunIds : /\ run[r].state = "running"
                               /\ run[r].source = s
                               /\ run[r].token = fence'[s]]_vars

\* Jobs never publish a commit older than one that a job has published before,
\* except where the administrator asked for that commit: between reading the
\* default branch and publishing, no other job of the source comes through.
NoCommitRegression == [][\A s \in Sources : newest'[s] >= newest[s]]_vars

\* A run succeeds only as the last mover of the head: no crash, retry or take
\* over between publication and completion lets it claim another's snapshot.
SuccessIsPublished ==
    [][\A r \in RunIds :
          run[r].state = "running" /\ run'[r].state = "succeeded"
              => fence[run[r].source] = run[r].token]_vars

\* A run that ended keeps its result: a recovery, a late completion and a
\* failure report race for it, and the first one decides.
ResultIsFinal ==
    [][\A r \in RunIds : run[r].state \in Terminal => run'[r] = run[r]]_vars

\* A failure marked retryable has exactly one successor, for the same source and
\* the same requested commit, that carries on its attempts: a retry is neither
\* lost nor made twice by a crash, a recovery or a repeated report.
RetryIsQueuedOnce ==
    \A r \in RunIds : run[r].state = "failed" /\ run[r].retryable =>
        \E n \in RunIds :
            /\ {q \in RunIds : run[q].prev = r} = {n}
            /\ run[n].source = run[r].source
            /\ run[n].pin = run[r].pin
            /\ run[n].attempts >= run[r].attempts

\* Every requested run comes to a result or is replaced by its retry: a crash
\* leaves no run running, and a queued one is not passed over.
EveryRunEnds ==
    \A r \in RunIds : run[r].state \in Active ~> run[r].state \in Terminal
=============================================================================
