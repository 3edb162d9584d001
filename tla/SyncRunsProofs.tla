--------------------------- MODULE SyncRunsProofs ---------------------------
(***************************************************************************)
(* Proofs about SyncRuns, for any set of sources and of overlapping ticks  *)
(* and any value of the limits.                                            *)
(***************************************************************************)
EXTENDS SyncRuns, TLAPS

(***************************************************************************)
(* The inductive invariant.                                                *)
(***************************************************************************)

\* No acquisition and no head has a token above that of the lease row, so the
\* token of the next acquisition is new.
TokensGrow ==
    /\ \A t \in Ticks, s \in Sources : Working(t, s) => job[t][s].token <= lease[s].token
    /\ \A s \in Sources : fence[s] <= lease[s].token

\* A job works on a row of its source, and on a commit once it has read one.
JobsHaveRuns ==
    \A t \in Ticks, s \in Sources :
        /\ job[t][s].pc # "none" => /\ job[t][s].run \in RunIds
                                   /\ run[job[t][s].run].state # "absent"
                                   /\ run[job[t][s].run].source = s
        /\ job[t][s].pc = "read" => job[t][s].commit \in Commits

\* Until it publishes, a job that still holds its lease owns its running run.
HoldersOwnRuns ==
    \A t \in Ticks, s \in Sources :
        job[t][s].pc \in {"running", "read"} /\ HoldsLease(t, s) =>
            /\ run[job[t][s].run].state = "running"
            /\ run[job[t][s].run].holder = t
            /\ run[job[t][s].run].token = job[t][s].token

\* The commit that a holder has read is not behind what jobs have published,
\* and no read is ahead of the default branch.
ReadsAreRecent ==
    /\ \A s \in Sources : newest[s] <= upstream[s]
    /\ \A t \in Ticks, s \in Sources :
          job[t][s].pc = "read" /\ run[job[t][s].run].pin = NoCommit =>
              /\ job[t][s].commit <= upstream[s]
              /\ HoldsLease(t, s) => newest[s] <= job[t][s].commit

IInv == TypeOK /\ OneActiveRun /\ TokensGrow /\ JobsHaveRuns /\ HoldersOwnRuns /\ ReadsAreRecent

\* Commits are numbers, and the lowest is the first.
LEMMA CommitBounds == Commits \subseteq Nat /\ NoCommit \in Nat /\ 1 \in Commits
BY SizesAssumption DEF Commits, NoCommit

\* A new row is well formed.
LEMMA QueuedType ==
    ASSUME NEW s \in Sources, NEW p \in RunIds \cup {0},
           NEW c \in Commits \cup {NoCommit}, NEW a \in Nat, NEW b \in BOOLEAN
    PROVE  /\ Queued(s, p, c, a, b) \in Run
           /\ Queued(s, p, c, a, b).state = "queued"
           /\ Queued(s, p, c, a, b).source = s
BY DEF Queued, Absent, Run, Active, Terminal

LEMMA NoJobType == NoJob \in Job
BY DEF NoJob, Job

\* Types: initially.
LEMMA TypeInit == Init => TypeOK
<1> SUFFICES ASSUME Init PROVE TypeOK
  OBVIOUS
<1>1. Absent \in Run
  BY DEF Absent, Run
<1>2. run \in [RunIds -> Run] /\ \A r \in RunIds : run[r].state = "absent"
  BY <1>1 DEF Init, Absent
<1>3. L!LeaseTypeOK
  BY DEF Init, L!LeaseInit, L!LeaseTypeOK, L!LeaseRow
<1>4. job \in [Ticks -> [Sources -> Job]]
  BY NoJobType DEF Init
<1>5. tick \in [Ticks -> Tick]
  BY DEF Init, Tick
<1> QED
  BY <1>2, <1>3, <1>4, <1>5, CommitBounds DEF Init, TypeOK

LEMMA InvInit == Init => IInv
<1> SUFFICES ASSUME Init PROVE IInv
  OBVIOUS
<1>1. \A r \in RunIds : run[r].state = "absent"
  BY DEF Init, Absent
<1>2. OneActiveRun
  BY <1>1 DEF OneActiveRun, Active
<1>3. \A t \in Ticks, s \in Sources : job[t][s].pc = "none"
  BY DEF Init, NoJob
<1>4. TokensGrow
  BY <1>3 DEF Init, TokensGrow, Working, L!LeaseInit
<1>5. JobsHaveRuns /\ HoldersOwnRuns
  BY <1>3 DEF JobsHaveRuns, HoldersOwnRuns
<1>6. ReadsAreRecent
  BY <1>3, CommitBounds DEF Init, ReadsAreRecent, NoCommit
<1> QED
  BY <1>2, <1>4, <1>5, <1>6, TypeInit DEF IInv

-----------------------------------------------------------------------------
(***************************************************************************)
(* The steps of a job.                                                     *)
(***************************************************************************)
\* A step that moves one job forward, or ends it, and changes nothing else.
LEMMA QuietStepInv ==
    ASSUME IInv, NEW t \in Ticks, NEW s \in Sources, NEW j \in Job,
           job' = [job EXCEPT ![t][s] = j],
           \/ j = NoJob
           \/ /\ job[t][s].pc # "none"
              /\ j.run = job[t][s].run
              /\ j.token = job[t][s].token
              /\ j.commit = job[t][s].commit
              /\ \/ j.pc = job[t][s].pc
                 \/ Working(t, s) /\ j.pc \in {"failing", "releasing"},
           UNCHANGED <<lease, rows, tick, bootstrap, catalog>>,
           faults' \in Nat
    PROVE  IInv'
<1> USE DEF rows, catalog
<1>1. TypeOK'
  <2>1. job' \in [Ticks -> [Sources -> Job]]
    BY DEF IInv, TypeOK
  <2> QED
    BY <2>1 DEF IInv, TypeOK, L!LeaseTypeOK
<1>2. OneActiveRun'
  BY DEF IInv, OneActiveRun
<1>3. TokensGrow'
  BY DEF IInv, TypeOK, TokensGrow, Working, NoJob
<1>4. JobsHaveRuns'
  BY DEF IInv, TypeOK, JobsHaveRuns, Working, NoJob
<1>5. HoldersOwnRuns'
  BY DEF IInv, TypeOK, HoldersOwnRuns, HoldsLease, L!Held, L!Owns, NoJob
<1>6. ReadsAreRecent'
  BY DEF IInv, TypeOK, ReadsAreRecent, HoldsLease, L!Held, L!Owns, NoJob
<1> QED
  BY <1>1, <1>2, <1>3, <1>4, <1>5, <1>6 DEF IInv

LEMMA FaultType == ASSUME TypeOK, Fault PROVE faults' \in Nat
BY DEF TypeOK, Fault

LEMMA QuietActionsInv ==
    ASSUME IInv, NEW t \in Ticks, NEW s \in Sources,
           \/ SkipRun(t, s)
           \/ MarkRefused(t, s)
           \/ Throw(t, s)
           \/ CompleteThrows(t, s)
           \/ NotRecorded(t, s)
           \/ HeartbeatFails(t, s)
           \/ CallFails(t, s)
    PROVE  IInv'
<1> DEFINE Moved(pc) == [job[t][s] EXCEPT !.pc = pc]
           Caught(e) == [job[t][s] EXCEPT !.pc = "failing", !.outcome = e]
<1>1. job[t][s] \in Job /\ faults \in Nat /\ TypeOK
  BY DEF IInv, TypeOK
<1>2. LET j == Moved("releasing")
      IN  j \in Job /\ j.pc = "releasing" /\ j.run = job[t][s].run
            /\ j.token = job[t][s].token /\ j.commit = job[t][s].commit
  BY <1>1 DEF Job
<1>3. \A e \in Errors : LET j == Caught(e)
      IN  j \in Job /\ j.pc = "failing" /\ j.run = job[t][s].run
            /\ j.token = job[t][s].token /\ j.commit = job[t][s].commit
  BY <1>1 DEF Job
<1>12. "other" \in Errors
  BY DEF Errors
<1>4. NoJob \in Job
  BY NoJobType
<1>5. CASE SkipRun(t, s)
  BY <1>1, <1>4, <1>5, QuietStepInv DEF SkipRun, Leave
<1>6. CASE MarkRefused(t, s)
  <2>1. job' = [job EXCEPT ![t][s] = Moved("releasing")]
    BY <1>6 DEF MarkRefused, Goto
  <2> HIDE DEF Moved, Caught
  <2> QED
    BY <1>1, <1>2, <1>6, <2>1, QuietStepInv DEF MarkRefused, Working
<1>7. CASE Throw(t, s)
  <2>1. PICK e \in Errors : ToCatch(t, s, e) /\ (IF e = "deferred" THEN Fault ELSE UNCHANGED faults)
    BY <1>7 DEF Throw
  <2>2. job' = [job EXCEPT ![t][s] = Caught(e)]
    BY <2>1 DEF ToCatch
  <2>3. faults' \in Nat
    BY <1>1, <2>1, FaultType
  <2> HIDE DEF Moved, Caught
  <2> QED
    BY <1>1, <1>3, <1>7, <2>2, <2>3, QuietStepInv DEF Throw, Working
<1>8. CASE CompleteThrows(t, s)
  <2>1. job' = [job EXCEPT ![t][s] = Caught("other")]
    BY <1>8 DEF CompleteThrows, ToCatch
  <2> HIDE DEF Moved, Caught
  <2> QED
    BY <1>1, <1>3, <1>8, <2>1, <1>12, QuietStepInv DEF CompleteThrows, Working
<1>9. CASE NotRecorded(t, s)
  <2>1. job' = [job EXCEPT ![t][s] = Moved("releasing")]
    BY <1>9 DEF NotRecorded, Goto
  <2> HIDE DEF Moved, Caught
  <2> QED
    BY <1>1, <1>2, <1>9, <2>1, QuietStepInv DEF NotRecorded, Working
<1>10. CASE HeartbeatFails(t, s)
  <2> DEFINE j == [job[t][s] EXCEPT !.lost = TRUE]
  <2>1. job' = [job EXCEPT ![t][s] = j]
    BY <1>10 DEF HeartbeatFails
  <2>2. /\ j \in Job
        /\ j.pc = job[t][s].pc
        /\ j.run = job[t][s].run
        /\ j.token = job[t][s].token
        /\ j.commit = job[t][s].commit
    BY <1>1 DEF Job
  <2>3. job[t][s].pc # "none"
    BY <1>10 DEF HeartbeatFails, Working
  <2>4. UNCHANGED <<lease, rows, tick, bootstrap, catalog>> /\ faults' \in Nat
    BY <1>1, <1>10 DEF HeartbeatFails
  <2> HIDE DEF j
  <2> QED
    BY <2>1, <2>2, <2>3, <2>4, QuietStepInv
<1>11. CASE CallFails(t, s)
  <2>1. faults' \in Nat
    BY <1>1, <1>11, FaultType DEF CallFails
  <2>2. UNCHANGED <<lease, rows, tick, bootstrap, catalog>>
    BY <1>11 DEF CallFails
  <2>3. CASE job[t][s].pc \in {"claimed", "releasing"}
    BY <1>4, <1>11, <2>1, <2>2, <2>3, QuietStepInv DEF CallFails, Leave
  <2>4. CASE job[t][s].pc \in {"acquired", "failing"}
    <3>1. job' = [job EXCEPT ![t][s] = Moved("releasing")]
      BY <1>11, <2>4 DEF CallFails, Goto
    <3> HIDE DEF Moved, Caught
    <3> QED
      BY <1>1, <1>2, <2>1, <2>2, <2>4, <3>1, QuietStepInv DEF Working
  <2>5. CASE job[t][s].pc = "published"
    <3>1. job' = [job EXCEPT ![t][s] = Caught("other")]
      BY ZenonT(60), <1>11, <2>5 DEF CallFails, ToCatch
    <3> HIDE DEF Moved, Caught
    <3> QED
      BY <1>1, <1>3, <2>1, <2>2, <2>5, <3>1, <1>12, QuietStepInv DEF Working
  <2> QED
    BY <1>11, <2>3, <2>4, <2>5 DEF CallFails
<1> QED
  BY <1>5, <1>6, <1>7, <1>8, <1>9, <1>10, <1>11

\* Two jobs of a source that hold its lease are the same job.
LEMMA OneHolder ==
    ASSUME NEW t \in Ticks, NEW u \in Ticks, NEW s \in Sources,
           HoldsLease(t, s), HoldsLease(u, s)
    PROVE  t = u
BY DEF HoldsLease, L!Held, L!Owns

\* markSyncRunning commits.
LEMMA StartInv ==
    ASSUME IInv, NEW t \in Ticks, NEW s \in Sources, NEW j \in Job,
           job[t][s].pc = "acquired", Startable(t, s), Started(t, s),
           job' = [job EXCEPT ![t][s] = j],
           j.pc \in {"running", "releasing"},
           j.run = job[t][s].run, j.token = job[t][s].token,
           UNCHANGED <<lease, due, tick, bootstrap, catalog>>,
           faults' \in Nat
    PROVE  IInv'
<1> DEFINE r == job[t][s].run
           row == [run[r] EXCEPT !.state = "running", !.holder = t,
                                 !.token = job[t][s].token,
                                 !.attempts = run[r].attempts + 1]
<1> USE DEF catalog
<1>1. r \in RunIds /\ run[r].source = s /\ run[r].state = "queued" /\ HoldsLease(t, s)
  BY DEF IInv, JobsHaveRuns, Startable
<1>2. job[t][s] \in Job /\ run[r] \in Run
  BY <1>1 DEF IInv, TypeOK
<1>3. /\ row \in Run
      /\ row.state = "running" /\ row.source = s /\ row.pin = run[r].pin
      /\ row.holder = t /\ row.token = job[t][s].token
  <2>1. run[r].attempts + 1 \in Nat /\ job[t][s].token \in Nat
    BY <1>2 DEF Run, Job
  <2> QED
    BY <1>1, <1>2, <2>1 DEF Run, Active
<1>4. run' = [run EXCEPT ![r] = row]
  BY DEF Started
<1> HIDE DEF row
<1>5. /\ \A q \in RunIds : q # r => run'[q] = run[q]
      /\ run'[r] = row
  BY <1>1, <1>4 DEF IInv, TypeOK
<1>6. TypeOK'
  <2>1. run' \in [RunIds -> Run]
    BY <1>3, <1>4 DEF IInv, TypeOK
  <2>2. job' \in [Ticks -> [Sources -> Job]]
    BY DEF IInv, TypeOK
  <2> QED
    BY <1>3, <1>5, <2>1, <2>2 DEF IInv, TypeOK, L!LeaseTypeOK
<1>7. OneActiveRun'
  BY <1>1, <1>3, <1>5 DEF IInv, OneActiveRun, Active
<1>8. TokensGrow'
  BY DEF IInv, TypeOK, TokensGrow, Working
<1>9. JobsHaveRuns'
  <2>1. \A q \in RunIds : run[q].state # "absent" =>
           run'[q].state # "absent" /\ run'[q].source = run[q].source
    BY <1>1, <1>3, <1>5
  <2>2. \A u \in Ticks, k \in Sources :
           /\ job'[u][k].run = job[u][k].run
           /\ job'[u][k].pc # "none" => job[u][k].pc # "none"
           /\ job'[u][k].pc = "read" => job'[u][k] = job[u][k]
    BY DEF IInv, TypeOK
  <2> QED
    BY <2>1, <2>2 DEF IInv, JobsHaveRuns
<1>10. HoldersOwnRuns'
  <2> SUFFICES ASSUME NEW u \in Ticks, NEW k \in Sources,
                      job'[u][k].pc \in {"running", "read"}, HoldsLease(u, k)'
               PROVE  /\ run'[job'[u][k].run].state = "running"
                      /\ run'[job'[u][k].run].holder = u
                      /\ run'[job'[u][k].run].token = job'[u][k].token
    BY DEF HoldersOwnRuns
  <2>1. CASE u = t /\ k = s
    BY <1>1, <1>3, <1>5, <2>1 DEF IInv, TypeOK
  <2>2. CASE ~(u = t /\ k = s)
    <3>1. job'[u][k] = job[u][k] /\ HoldsLease(u, k)
      BY <2>2 DEF IInv, TypeOK, HoldsLease, L!Held, L!Owns
    <3>2. job[u][k].run \in RunIds /\ run[job[u][k].run].state = "running"
      BY <3>1 DEF IInv, HoldersOwnRuns, JobsHaveRuns
    <3>3. run'[job[u][k].run] = run[job[u][k].run]
      BY <1>1, <1>5, <3>2
    <3> QED
      BY <3>1, <3>3 DEF IInv, HoldersOwnRuns
  <2> QED
    BY <2>1, <2>2
<1>11. ReadsAreRecent'
  <2>1. \A u \in Ticks, k \in Sources :
           job[u][k].pc = "read" => run'[job[u][k].run].pin = run[job[u][k].run].pin
    BY <1>1, <1>3, <1>5 DEF IInv, JobsHaveRuns
  <2>2. \A u \in Ticks, k \in Sources :
           job'[u][k].pc = "read" => job'[u][k] = job[u][k]
    BY DEF IInv, TypeOK
  <2>3. \A u \in Ticks, k \in Sources :
           job'[u][k].pc = "read" /\ HoldsLease(u, k)' => HoldsLease(u, k)
    BY <2>2 DEF HoldsLease, L!Held, L!Owns
  <2> QED
    BY <2>1, <2>2, <2>3 DEF IInv, ReadsAreRecent
<1> QED
  BY <1>6, <1>7, <1>8, <1>9, <1>10, <1>11 DEF IInv

\* A transaction ends the running run of a job, and may queue one more row for
\* the same source.
LEMMA EndInv ==
    ASSUME IInv, NEW t \in Ticks, NEW s \in Sources, NEW j \in Job,
           Recordable(t, s), Working(t, s),
           NEW row \in Run,
           row.state \in Terminal, row.source = s, row.pin = run[job[t][s].run].pin,
           \/ run' = [run EXCEPT ![job[t][s].run] = row]
           \/ \E n \in AbsentRuns, new \in Run :
                 /\ new.state = "queued"
                 /\ new.source = s
                 /\ run' = [[run EXCEPT ![job[t][s].run] = row] EXCEPT ![n] = new],
           due' \in [Sources -> BOOLEAN],
           job' = [job EXCEPT ![t][s] = j],
           j.pc \in {"failing", "releasing"},
           j.run = job[t][s].run, j.token = job[t][s].token,
           UNCHANGED <<lease, tick, bootstrap, catalog>>,
           faults' \in Nat
    PROVE  IInv'
<1> DEFINE r == job[t][s].run
<1> USE DEF catalog
<1>1. r \in RunIds /\ run[r].source = s /\ run[r].state = "running" /\ HoldsLease(t, s)
  BY DEF IInv, JobsHaveRuns, Recordable, Working
<1>2. row.state \notin Active /\ row.state # "absent"
  BY DEF Active, Terminal
<1>3. \A q \in RunIds : run[q].state \in Active /\ run[q].source = s => q = r
  BY <1>1 DEF IInv, OneActiveRun, Active
<1>4. /\ run' \in [RunIds -> Run]
      /\ \A q \in RunIds : \/ q # r /\ run'[q] = run[q]
                           \/ q = r /\ run'[q] = row
                           \/ /\ run[q].state = "absent"
                              /\ run'[q].state = "queued" /\ run'[q].source = s
      /\ \A q, p \in RunIds :
            /\ run[q].state = "absent" /\ run'[q].state # "absent"
            /\ run[p].state = "absent" /\ run'[p].state # "absent"
            => q = p
  <2>1. CASE run' = [run EXCEPT ![r] = row]
    BY <1>1, <2>1 DEF IInv, TypeOK
  <2>2. CASE \E n \in AbsentRuns, new \in Run :
                 /\ new.state = "queued"
                 /\ new.source = s
                 /\ run' = [[run EXCEPT ![r] = row] EXCEPT ![n] = new]
    <3> PICK n \in AbsentRuns, new \in Run :
                 /\ new.state = "queued"
                 /\ new.source = s
                 /\ run' = [[run EXCEPT ![r] = row] EXCEPT ![n] = new]
      BY <2>2
    <3>1. n \in RunIds /\ run[n].state = "absent" /\ n # r
      BY <1>1 DEF AbsentRuns
    <3>2. [run EXCEPT ![r] = row] \in [RunIds -> Run]
      BY DEF IInv, TypeOK
    <3> QED
      BY <1>1, <3>1, <3>2 DEF IInv, TypeOK
  <2> QED
    BY <2>1, <2>2
<1>5. \A q \in RunIds : run[q].state # "absent" /\ q # r => run'[q] = run[q]
  BY <1>4
<1>6. run'[r] = row
  BY <1>1, <1>4
<1>7. TypeOK'
  <2>1. job' \in [Ticks -> [Sources -> Job]]
    BY DEF IInv, TypeOK
  <2>2. \A q \in RunIds : run'[q].state # "absent" => run'[q].source \in Sources
    BY <1>4 DEF IInv, TypeOK
  <2> QED
    BY <1>4, <2>1, <2>2 DEF IInv, TypeOK, L!LeaseTypeOK
<1>8. OneActiveRun'
  <2> SUFFICES ASSUME NEW q \in RunIds, NEW p \in RunIds,
                      run'[q].state \in Active, run'[p].state \in Active,
                      run'[q].source = run'[p].source
               PROVE  q = p
    BY DEF OneActiveRun
  <2>1. q # r /\ p # r
    BY <1>2, <1>6
  <2>2. CASE run'[q] = run[q] /\ run'[p] = run[p]
    BY <2>2 DEF IInv, OneActiveRun
  <2>3. CASE run'[q] # run[q] /\ run'[p] # run[p]
    BY <1>4, <2>1, <2>3
  <2>4. CASE run'[q] # run[q] /\ run'[p] = run[p]
    BY <1>3, <1>4, <2>1, <2>4
  <2>5. CASE run'[q] = run[q] /\ run'[p] # run[p]
    BY <1>3, <1>4, <2>1, <2>5
  <2> QED
    BY <2>2, <2>3, <2>4, <2>5
<1>9. TokensGrow'
  BY DEF IInv, TypeOK, TokensGrow, Working
<1>10. JobsHaveRuns'
  <2>1. \A q \in RunIds : run[q].state # "absent" =>
           run'[q].state # "absent" /\ run'[q].source = run[q].source
    BY <1>1, <1>2, <1>5, <1>6
  <2>2. \A u \in Ticks, k \in Sources :
           /\ job'[u][k].run = job[u][k].run
           /\ job'[u][k].pc # "none" => job[u][k].pc # "none"
           /\ job'[u][k].pc = "read" => job'[u][k] = job[u][k]
    BY DEF IInv, TypeOK, Working
  <2> QED
    BY <2>1, <2>2 DEF IInv, JobsHaveRuns
<1>11. \A u \in Ticks, k \in Sources :
          /\ job'[u][k].pc \in {"running", "read"}
          /\ HoldsLease(u, k)'
          => /\ job'[u][k] = job[u][k]
             /\ HoldsLease(u, k)
             /\ run'[job[u][k].run] = run[job[u][k].run]
  <2> SUFFICES ASSUME NEW u \in Ticks, NEW k \in Sources,
                      job'[u][k].pc \in {"running", "read"}, HoldsLease(u, k)'
               PROVE  /\ job'[u][k] = job[u][k]
                      /\ HoldsLease(u, k)
                      /\ run'[job[u][k].run] = run[job[u][k].run]
    OBVIOUS
  <2>1. ~(u = t /\ k = s)
    BY DEF IInv, TypeOK
  <2>2. job'[u][k] = job[u][k] /\ HoldsLease(u, k)
    BY <2>1 DEF IInv, TypeOK, HoldsLease, L!Held, L!Owns
  <2>3. k # s
    BY <1>1, <2>1, <2>2, OneHolder
  <2>4. /\ job[u][k].run \in RunIds
        /\ run[job[u][k].run].state # "absent"
        /\ run[job[u][k].run].source = k
    BY <2>2 DEF IInv, JobsHaveRuns
  <2> QED
    BY <1>1, <1>5, <2>2, <2>3, <2>4
<1>12. HoldersOwnRuns'
  BY <1>11 DEF IInv, HoldersOwnRuns
<1>13. ReadsAreRecent'
  <2>1. \A u \in Ticks, k \in Sources :
           job'[u][k].pc = "read" => job'[u][k] = job[u][k]
    BY DEF IInv, TypeOK
  <2>2. \A u \in Ticks, k \in Sources :
           job[u][k].pc = "read" => run'[job[u][k].run].pin = run[job[u][k].run].pin
    BY <1>1, <1>5, <1>6 DEF IInv, JobsHaveRuns
  <2>3. ReadsAreRecent
    BY DEF IInv
  <2> QED
    BY <1>11, <2>1, <2>2, <2>3 DEF ReadsAreRecent
<1> QED
  BY <1>7, <1>8, <1>9, <1>10, <1>12, <1>13 DEF IInv

\* publishSnapshot commits.
LEMMA PublicationInv ==
    ASSUME IInv, NEW t \in Ticks, NEW s \in Sources, NEW j \in Job,
           job[t][s].pc = "read", Publication(t, s),
           job' = [job EXCEPT ![t][s] = j],
           j.pc \in {"published", "failing"},
           j.run = job[t][s].run, j.token = job[t][s].token,
           UNCHANGED <<lease, rows, tick, bootstrap>>,
           faults' \in Nat
    PROVE  IInv'
<1> DEFINE c == job[t][s].commit
<1> USE DEF rows
<1>1. /\ c \in Commits /\ HoldsLease(t, s) /\ job[t][s] \in Job
      /\ job[t][s].token = lease[s].token
  BY DEF IInv, TypeOK, JobsHaveRuns, Publication, HoldsLease, L!Held, L!Owns
<1>2. c \in Nat /\ newest[s] \in Nat /\ upstream[s] \in Nat /\ lease[s].token \in Nat
  BY <1>1, CommitBounds DEF IInv, TypeOK, L!LeaseTypeOK, L!LeaseRow
<1>3. TypeOK'
  <2>1. job' \in [Ticks -> [Sources -> Job]]
    BY DEF IInv, TypeOK
  <2>2. fence' \in [Sources -> Nat]
    BY <1>1, <1>2 DEF IInv, TypeOK, Publication
  <2> QED
    BY <1>1, <2>1, <2>2 DEF IInv, TypeOK, Publication, L!LeaseTypeOK
<1>4. OneActiveRun'
  BY DEF IInv, OneActiveRun
<1>5. TokensGrow'
  <2>1. \A k \in Sources : fence'[k] <= lease[k].token
    BY <1>1, <1>2 DEF IInv, TypeOK, TokensGrow, Publication
  <2>2. \A u \in Ticks, k \in Sources : Working(u, k)' => Working(u, k) /\ job'[u][k].token = job[u][k].token
    BY DEF IInv, TypeOK, Working
  <2> QED
    BY <2>1, <2>2 DEF IInv, TokensGrow
<1>6. JobsHaveRuns'
  BY DEF IInv, TypeOK, JobsHaveRuns
<1>7. \A u \in Ticks, k \in Sources :
         job'[u][k].pc \in {"running", "read"} /\ HoldsLease(u, k)' =>
             job'[u][k] = job[u][k] /\ HoldsLease(u, k) /\ k # s
  <2> SUFFICES ASSUME NEW u \in Ticks, NEW k \in Sources,
                      job'[u][k].pc \in {"running", "read"}, HoldsLease(u, k)'
               PROVE  job'[u][k] = job[u][k] /\ HoldsLease(u, k) /\ k # s
    OBVIOUS
  <2>1. ~(u = t /\ k = s)
    BY DEF IInv, TypeOK
  <2>2. job'[u][k] = job[u][k] /\ HoldsLease(u, k)
    BY <2>1 DEF IInv, TypeOK, HoldsLease, L!Held, L!Owns
  <2> QED
    BY <1>1, <2>1, <2>2, OneHolder
<1>8. HoldersOwnRuns'
  BY <1>7 DEF IInv, HoldersOwnRuns
<1>9. ReadsAreRecent'
  <2>1. /\ \A k \in Sources : k # s => newest'[k] = newest[k]
        /\ upstream' = upstream
        /\ newest'[s] \in {newest[s], c}
    BY DEF IInv, TypeOK, Publication
  <2>4. newest'[s] # newest[s] => run[job[t][s].run].pin = NoCommit
    BY DEF IInv, TypeOK, Publication
  <2>5. \A u \in Ticks, k \in Sources : job'[u][k].pc = "read" => job'[u][k] = job[u][k]
    BY DEF IInv, TypeOK
  <2>2. CASE newest'[s] = newest[s]
    BY <1>7, <2>1, <2>2, <2>5 DEF IInv, ReadsAreRecent
  <2>3. CASE newest'[s] = c /\ newest'[s] # newest[s]
    <3>1. c <= upstream[s]
      BY <1>2, <2>3, <2>4 DEF IInv, ReadsAreRecent, Publication
    <3> QED
      BY <1>7, <2>1, <2>3, <2>5, <3>1 DEF IInv, ReadsAreRecent
  <2> QED
    BY <2>1, <2>2, <2>3
<1> QED
  BY <1>3, <1>4, <1>5, <1>6, <1>8, <1>9 DEF IInv

\* acquire commits, and the job goes on or has not seen its reply.
LEMMA AcquiredInv ==
    ASSUME IInv, NEW t \in Ticks, NEW s \in Sources, NEW j \in Job,
           job[t][s].pc = "claimed", L!Acquire(s, t),
           job' = [job EXCEPT ![t][s] = j],
           \/ j = NoJob
           \/ /\ j.pc = "acquired" /\ j.run = job[t][s].run
              /\ j.token = lease[s].token + 1,
           UNCHANGED <<rows, tick, bootstrap, catalog>>,
           faults' \in Nat
    PROVE  IInv'
<1> USE DEF rows, catalog, L!Acquire
<1>1. lease[s].token \in Nat
  BY DEF IInv, TypeOK, L!LeaseTypeOK, L!LeaseRow
<1>2. TypeOK'
  <2>1. L!LeaseTypeOK'
    BY <1>1 DEF IInv, TypeOK, L!LeaseTypeOK, L!LeaseRow
  <2>2. job' \in [Ticks -> [Sources -> Job]]
    BY DEF IInv, TypeOK
  <2> QED
    BY <2>1, <2>2 DEF IInv, TypeOK
<1>3. OneActiveRun'
  BY DEF IInv, OneActiveRun
<1>4. TokensGrow'
  BY <1>1 DEF IInv, TypeOK, TokensGrow, Working, NoJob, L!LeaseTypeOK, L!LeaseRow, Job
<1>5. JobsHaveRuns'
  BY DEF IInv, TypeOK, JobsHaveRuns, NoJob
<1>6. \A u \in Ticks, k \in Sources :
         job'[u][k].pc \in {"running", "read"} =>
             /\ job'[u][k] = job[u][k]
             /\ HoldsLease(u, k)' => HoldsLease(u, k)
  <2> SUFFICES ASSUME NEW u \in Ticks, NEW k \in Sources, job'[u][k].pc \in {"running", "read"}
               PROVE  /\ job'[u][k] = job[u][k]
                      /\ HoldsLease(u, k)' => HoldsLease(u, k)
    OBVIOUS
  <2>1. job'[u][k] = job[u][k]
    BY DEF IInv, TypeOK, NoJob
  <2>2. job[u][k].token \in Nat /\ job[u][k].token <= lease[k].token
    BY <2>1 DEF IInv, TypeOK, Job, TokensGrow, Working
  <2>3. CASE k = s
    <3>1. lease'[k].token = lease[k].token + 1
      BY <2>3 DEF IInv, TypeOK, L!LeaseTypeOK, L!LeaseRow
    <3>2. ~HoldsLease(u, k)'
      BY <1>1, <2>1, <2>2, <2>3, <3>1 DEF HoldsLease, L!Held, L!Owns
    <3> QED
      BY <2>1, <3>2
  <2>4. CASE k # s
    BY <2>1, <2>4 DEF IInv, TypeOK, L!LeaseTypeOK, HoldsLease, L!Held, L!Owns
  <2> QED
    BY <2>3, <2>4
<1>7. HoldersOwnRuns'
  BY <1>6 DEF IInv, HoldersOwnRuns
<1>8. ReadsAreRecent'
  BY <1>6 DEF IInv, ReadsAreRecent
<1> QED
  BY <1>2, <1>3, <1>4, <1>5, <1>7, <1>8 DEF IInv

LEMMA ReadUpstreamInv ==
    ASSUME IInv, NEW t \in Ticks, NEW s \in Sources, ReadUpstream(t, s)
    PROVE  IInv'
<1> DEFINE pin == run[job[t][s].run].pin
           c == IF pin = NoCommit THEN upstream[s] ELSE pin
           j == [job[t][s] EXCEPT !.pc = "read", !.commit = c]
<1> USE DEF rows, catalog
<1>1. job[t][s] \in Job /\ job[t][s].pc = "running" /\ job[t][s].run \in RunIds
  BY DEF IInv, TypeOK, JobsHaveRuns, ReadUpstream
<1>2. c \in Commits
  BY <1>1 DEF IInv, TypeOK, Run
<1>3. /\ j \in Job /\ j.pc = "read" /\ j.commit = c
      /\ j.run = job[t][s].run /\ j.token = job[t][s].token
  BY <1>1, <1>2 DEF Job
<1>4. /\ job' = [job EXCEPT ![t][s] = j]
      /\ UNCHANGED <<lease, rows, tick, bootstrap, catalog, faults>>
  BY DEF ReadUpstream
<1>5. upstream[s] \in Nat /\ newest[s] <= upstream[s]
  BY CommitBounds DEF IInv, TypeOK, ReadsAreRecent
<1> HIDE DEF j
<1>6. TypeOK'
  <2>1. job' \in [Ticks -> [Sources -> Job]]
    BY <1>3, <1>4 DEF IInv, TypeOK
  <2> QED
    BY <1>4, <2>1 DEF IInv, TypeOK, L!LeaseTypeOK
<1>7. OneActiveRun'
  BY <1>4 DEF IInv, OneActiveRun
<1>8. TokensGrow'
  BY <1>1, <1>3, <1>4 DEF IInv, TypeOK, TokensGrow, Working
<1>9. JobsHaveRuns'
  BY <1>1, <1>2, <1>3, <1>4 DEF IInv, TypeOK, JobsHaveRuns
<1>10. HoldersOwnRuns'
  BY <1>1, <1>3, <1>4 DEF IInv, TypeOK, HoldersOwnRuns, HoldsLease, L!Held, L!Owns
<1>11. ReadsAreRecent'
  <2>1. \A u \in Ticks, k \in Sources :
           \/ /\ u = t /\ k = s
              /\ job'[u][k].commit = c /\ job'[u][k].run = job[t][s].run
           \/ /\ job'[u][k] = job[u][k]
              /\ HoldsLease(u, k)' => HoldsLease(u, k)
    BY <1>3, <1>4 DEF IInv, TypeOK, HoldsLease, L!Held, L!Owns
  <2>2. upstream[s] <= upstream[s]
    BY <1>5
  <2> QED
    BY <1>4, <1>5, <2>1, <2>2 DEF IInv, ReadsAreRecent
<1> QED
  BY <1>6, <1>7, <1>8, <1>9, <1>10, <1>11 DEF IInv

\* A lease row that expires, or stays as it is, makes no job a holder.
LEMMA LeaseEndsInv ==
    ASSUME IInv, NEW s \in Sources,
           lease' \in {lease, [lease EXCEPT ![s].live = FALSE]},
           UNCHANGED <<rows, tick, bootstrap, catalog>>,
           \/ UNCHANGED job
           \/ \E t \in Ticks : job' = [job EXCEPT ![t][s] = NoJob],
           faults' \in Nat
    PROVE  IInv'
<1> USE DEF rows, catalog
<1>1. \A k \in Sources : /\ lease'[k].token = lease[k].token
                         /\ lease'[k].holder = lease[k].holder
                         /\ lease'[k].live => lease[k].live
  <2>1. lease \in [Sources -> L!LeaseRow]
    BY DEF IInv, TypeOK, L!LeaseTypeOK
  <2>2. CASE lease' = lease
    BY <2>2
  <2>3. CASE lease' = [lease EXCEPT ![s].live = FALSE]
    BY <2>1, <2>3 DEF L!LeaseRow
  <2> QED
    BY <2>2, <2>3
<1>2. L!LeaseTypeOK'
  <2>1. lease \in [Sources -> L!LeaseRow]
    BY DEF IInv, TypeOK, L!LeaseTypeOK
  <2>2. [lease[s] EXCEPT !.live = FALSE] \in L!LeaseRow
    BY <2>1 DEF L!LeaseRow
  <2> QED
    BY <2>1, <2>2 DEF L!LeaseTypeOK
<1>3. /\ job' \in [Ticks -> [Sources -> Job]]
      /\ \A u \in Ticks, k \in Sources : job'[u][k] \in {job[u][k], NoJob}
  <2>1. job \in [Ticks -> [Sources -> Job]]
    BY DEF IInv, TypeOK
  <2>2. CASE UNCHANGED job
    BY <2>1, <2>2
  <2>3. ASSUME NEW t \in Ticks, job' = [job EXCEPT ![t][s] = NoJob]
        PROVE  /\ job' \in [Ticks -> [Sources -> Job]]
               /\ \A u \in Ticks, k \in Sources : job'[u][k] \in {job[u][k], NoJob}
    BY <2>1, <2>3, NoJobType
  <2> QED
    BY <2>2, <2>3
<1>4. \A u \in Ticks, k \in Sources : job'[u][k].pc # "none" =>
          job'[u][k] = job[u][k] /\ (HoldsLease(u, k)' => HoldsLease(u, k))
  BY <1>1, <1>3 DEF HoldsLease, L!Held, L!Owns, NoJob
<1>5. TypeOK'
  BY <1>2, <1>3 DEF IInv, TypeOK
<1>6. OneActiveRun'
  BY DEF IInv, OneActiveRun
<1>7. TokensGrow'
  BY <1>1, <1>4 DEF IInv, TokensGrow, Working
<1>8. JobsHaveRuns'
  BY <1>4 DEF IInv, JobsHaveRuns
<1>9. HoldersOwnRuns'
  BY <1>4 DEF IInv, HoldersOwnRuns
<1>10. ReadsAreRecent'
  BY <1>4 DEF IInv, ReadsAreRecent
<1> QED
  BY <1>5, <1>6, <1>7, <1>8, <1>9, <1>10 DEF IInv

LEMMA JobStepInv ==
    ASSUME IInv, NEW t \in Ticks, NEW s \in Sources,
           JobStep(t, s) \/ HeartbeatRenews(t, s) \/ HeartbeatFails(t, s)
    PROVE  IInv'
<1> DEFINE r == job[t][s].run
           At(pc) == [job[t][s] EXCEPT !.pc = pc]
<1>1. job[t][s] \in Job /\ faults \in Nat /\ TypeOK
  BY DEF IInv, TypeOK
<1>2. \A pc \in {"running", "releasing"} :
         LET j == At(pc)
         IN  j \in Job /\ j.pc = pc /\ j.run = r /\ j.token = job[t][s].token
  BY <1>1 DEF Job
<1>3. CASE AcquireLease(t, s)
  <2> DEFINE j == [job[t][s] EXCEPT !.pc = "acquired", !.token = lease[s].token + 1]
  <2>1. lease[s].token + 1 \in Nat
    BY <1>1 DEF TypeOK, L!LeaseTypeOK, L!LeaseRow
  <2>2. j \in Job /\ j.pc = "acquired" /\ j.run = r /\ j.token = lease[s].token + 1
    BY <1>1, <2>1 DEF Job
  <2>3. job' = [job EXCEPT ![t][s] = j]
    BY <1>3 DEF AcquireLease
  <2> HIDE DEF j
  <2> QED
    BY <1>1, <1>3, <2>2, <2>3, AcquiredInv DEF AcquireLease
<1>4. CASE MarkRunning(t, s)
  <2>1. job' = [job EXCEPT ![t][s] = At("running")]
    BY <1>4 DEF MarkRunning, Goto
  <2> HIDE DEF At
  <2> QED
    BY <1>1, <1>2, <1>4, <2>1, StartInv DEF MarkRunning
<1>5. CASE ReadUpstream(t, s)
  BY <1>5, ReadUpstreamInv
<1>6. CASE Publish(t, s)
  <2>1. PICK o \in {"visible", "hidden"} :
           job' = [job EXCEPT ![t][s].pc = "published", ![t][s].outcome = o]
    BY <1>6 DEF Publish
  <2> DEFINE j == [job[t][s] EXCEPT !.pc = "published", !.outcome = o]
  <2>2. j \in Job /\ j.pc = "published" /\ j.run = r /\ j.token = job[t][s].token
    BY <1>1 DEF Job
  <2>3. job' = [job EXCEPT ![t][s] = j]
    BY <2>1
  <2> HIDE DEF j
  <2> QED
    BY <1>1, <1>6, <2>2, <2>3, PublicationInv DEF Publish
<1>7. CASE Complete(t, s)
  <2> DEFINE row == [run[r] EXCEPT !.state = IF job[t][s].outcome = "visible"
                                             THEN "succeeded" ELSE "quarantined"]
  <2>1. Working(t, s) /\ Recordable(t, s)
    BY <1>7 DEF Complete, Completion, Working
  <2>2. r \in RunIds /\ run[r].source = s /\ run[r] \in Run
    BY <1>1, <2>1 DEF IInv, JobsHaveRuns, TypeOK, Working
  <2>3. row \in Run /\ row.state \in Terminal /\ row.source = s /\ row.pin = run[r].pin
    BY <2>2 DEF Run, Terminal
  <2>4. /\ run' = [run EXCEPT ![r] = row]
        /\ due' \in [Sources -> BOOLEAN]
        /\ job' = [job EXCEPT ![t][s] = At("releasing")]
    BY <1>1, <1>7 DEF Complete, Completion, Goto, TypeOK
  <2> HIDE DEF row, At
  <2> QED
    BY <1>1, <1>2, <1>7, <2>1, <2>3, <2>4, EndInv DEF Complete
<1>8. CASE Quarantine(t, s)
  <2> DEFINE row == [run[r] EXCEPT !.state = "quarantined"]
  <2>1. Working(t, s) /\ Recordable(t, s)
    BY <1>8 DEF Quarantine, Working
  <2>2. r \in RunIds /\ run[r].source = s /\ run[r] \in Run
    BY <1>1, <2>1 DEF IInv, JobsHaveRuns, TypeOK, Working
  <2>3. row \in Run /\ row.state \in Terminal /\ row.source = s /\ row.pin = run[r].pin
    BY <2>2 DEF Run, Terminal
  <2>4. /\ run' = [run EXCEPT ![r] = row]
        /\ due' \in [Sources -> BOOLEAN]
        /\ job' = [job EXCEPT ![t][s] = At("releasing")]
    BY <1>1, <1>8 DEF Quarantine, Goto, TypeOK
  <2> HIDE DEF row, At
  <2> QED
    BY <1>1, <1>2, <1>8, <2>1, <2>3, <2>4, EndInv DEF Quarantine
<1>9. CASE Fail(t, s)
  <2> DEFINE cancelled == Aborted(t, s)
             retryable == /\ ~cancelled
                          /\ job[t][s].attempts + 1 < MaxAttempts
                          /\ job[t][s].outcome = "retryable"
             row == [run[r] EXCEPT !.state = IF cancelled THEN "cancelled" ELSE "failed",
                                   !.retryable = retryable]
  <2>1. Working(t, s) /\ Recordable(t, s)
    BY <1>9 DEF Fail, Working
  <2>2. r \in RunIds /\ run[r].source = s /\ run[r] \in Run
    BY <1>1, <2>1 DEF IInv, JobsHaveRuns, TypeOK, Working
  <2>3. row \in Run /\ row.state \in Terminal /\ row.source = s /\ row.pin = run[r].pin
    BY ZenonT(60), <2>2 DEF Run, Terminal
  <2>4. run[r].pin \in Commits \cup {NoCommit} /\ run[r].attempts \in Nat
    BY <2>2 DEF Run
  <2>5. /\ due' = due
        /\ due' \in [Sources -> BOOLEAN]
        /\ job' = [job EXCEPT ![t][s] = At("releasing")]
    BY <1>1, <1>9 DEF Fail, Goto, TypeOK
  <2>6. IF retryable
        THEN \E n \in AbsentRuns :
                run' = [[run EXCEPT ![r] = row] EXCEPT
                           ![n] = Queued(s, r, run[r].pin, run[r].attempts, FALSE)]
        ELSE run' = [run EXCEPT ![r] = row]
    BY <1>9 DEF Fail
  <2>7. UNCHANGED <<lease, tick, bootstrap, catalog, faults>>
    BY <1>9 DEF Fail
  <2> HIDE DEF row, At
  <2>8. CASE ~retryable
    <3>1. run' = [run EXCEPT ![r] = row]
      BY <2>6, <2>8
    <3> QED
      BY <1>1, <1>2, <2>1, <2>3, <2>5, <2>7, <3>1, EndInv
  <2>9. CASE retryable
    <3>1. PICK n \in AbsentRuns :
             run' = [[run EXCEPT ![r] = row] EXCEPT
                        ![n] = Queued(s, r, run[r].pin, run[r].attempts, FALSE)]
      BY <2>6, <2>9
    <3> DEFINE new == Queued(s, r, run[r].pin, run[r].attempts, FALSE)
    <3>2. new \in Run /\ new.state = "queued" /\ new.source = s
      BY <2>2, <2>4, QueuedType
    <3>3. run' = [[run EXCEPT ![r] = row] EXCEPT ![n] = new]
      BY <3>1
    <3> HIDE DEF new
    <3> QED
      BY <1>1, <1>2, <2>1, <2>3, <2>5, <2>7, <3>2, <3>3, EndInv
  <2> QED
    BY <2>8, <2>9
<1>10. CASE ReleaseLease(t, s)
  BY <1>1, <1>10, LeaseEndsInv DEF ReleaseLease, L!Release, Leave
<1>11. CASE HeartbeatRenews(t, s)
  <2>1. lease' = lease
    BY <1>1, <1>11 DEF HeartbeatRenews, L!Renew, L!Held, TypeOK, L!LeaseTypeOK, L!LeaseRow
  <2> QED
    BY <1>1, <1>11, <2>1, LeaseEndsInv DEF HeartbeatRenews
<1> QED
  BY <1>3, <1>4, <1>5, <1>6, <1>7, <1>8, <1>9, <1>10, <1>11, QuietActionsInv DEF JobStep

LEMMA ReplyLostInv ==
    ASSUME IInv, NEW t \in Ticks, NEW s \in Sources, ReplyLost(t, s)
    PROVE  IInv'
<1> DEFINE r == job[t][s].run
           released == [job[t][s] EXCEPT !.pc = "releasing"]
           caught == [job[t][s] EXCEPT !.pc = "failing", !.outcome = "other"]
<1>1. job[t][s] \in Job /\ TypeOK /\ faults' \in Nat
  BY FaultType DEF IInv, TypeOK, ReplyLost
<1>2. /\ released \in Job /\ released.pc = "releasing"
      /\ released.run = r /\ released.token = job[t][s].token
  BY <1>1 DEF Job
<1>3. /\ caught \in Job /\ caught.pc = "failing"
      /\ caught.run = r /\ caught.token = job[t][s].token
  BY <1>1 DEF Job, Errors
<1>4. UNCHANGED <<tick, bootstrap>>
  BY DEF ReplyLost
<1>5. CASE /\ job[t][s].pc = "claimed" /\ L!Acquire(s, t)
           /\ Leave(t, s) /\ UNCHANGED <<rows, catalog>>
  BY <1>1, <1>4, <1>5, NoJobType, AcquiredInv DEF Leave
<1>6. CASE /\ job[t][s].pc = "acquired" /\ Startable(t, s) /\ Started(t, s)
           /\ Goto(t, s, "releasing") /\ UNCHANGED <<lease, due, catalog>>
  <2>1. job' = [job EXCEPT ![t][s] = released]
    BY <1>6 DEF Goto
  <2> HIDE DEF released
  <2> QED
    BY <1>1, <1>2, <1>4, <1>6, <2>1, StartInv
<1>7. CASE /\ job[t][s].pc = "read" /\ Publication(t, s)
           /\ ToCatch(t, s, "other") /\ UNCHANGED <<lease, rows>>
  <2>1. job' = [job EXCEPT ![t][s] = caught]
    BY <1>7 DEF ToCatch
  <2> HIDE DEF caught
  <2> QED
    BY <1>1, <1>3, <1>4, <1>7, <2>1, PublicationInv
<1>8. CASE /\ job[t][s].pc = "published" /\ Completion(t, s)
           /\ ToCatch(t, s, "other") /\ UNCHANGED <<lease, catalog>>
  <2> DEFINE row == [run[r] EXCEPT !.state = IF job[t][s].outcome = "visible"
                                             THEN "succeeded" ELSE "quarantined"]
  <2>1. Working(t, s) /\ Recordable(t, s)
    BY <1>8 DEF Completion, Working
  <2>2. r \in RunIds /\ run[r].source = s /\ run[r] \in Run
    BY <1>1, <2>1 DEF IInv, JobsHaveRuns, TypeOK, Working
  <2>3. row \in Run /\ row.state \in Terminal /\ row.source = s /\ row.pin = run[r].pin
    BY <2>2 DEF Run, Terminal
  <2>4. /\ run' = [run EXCEPT ![r] = row]
        /\ due' \in [Sources -> BOOLEAN]
        /\ job' = [job EXCEPT ![t][s] = caught]
    BY <1>1, <1>8 DEF Completion, ToCatch, TypeOK
  <2> HIDE DEF row, caught
  <2> QED
    BY <1>1, <1>3, <1>4, <1>8, <2>1, <2>3, <2>4, EndInv
<1> QED
  BY <1>5, <1>6, <1>7, <1>8 DEF ReplyLost

-----------------------------------------------------------------------------
(***************************************************************************)
(* The steps of a tick, of the environment, and what goes wrong.           *)
(***************************************************************************)

\* A step that adds queued rows and gives up running ones whose lease is gone.
LEMMA RowsInv ==
    ASSUME IInv,
           run' \in [RunIds -> Run],
           \A r \in RunIds :
              \/ /\ run'[r].state = run[r].state /\ run'[r].source = run[r].source
                 /\ run'[r].holder = run[r].holder /\ run'[r].token = run[r].token
                 /\ run'[r].pin = run[r].pin
              \/ /\ run[r].state = "absent"
                 /\ run'[r].state = "queued" /\ run'[r].source \in Sources
              \/ /\ r \in Abandoned
                 /\ run'[r].state = "failed"
                 /\ run'[r].source = run[r].source /\ run'[r].pin = run[r].pin,
           OneActiveRun',
           UNCHANGED <<lease, due, job, bootstrap, catalog>>,
           tick' \in [Ticks -> Tick],
           faults' \in Nat
    PROVE  IInv'
<1> USE DEF catalog
<1>1. TypeOK'
  BY DEF IInv, TypeOK, L!LeaseTypeOK, Abandoned
<1>2. TokensGrow'
  BY DEF IInv, TokensGrow, Working
<1>3. \A r \in RunIds : run[r].state # "absent" =>
          /\ run'[r].state # "absent"
          /\ run'[r].source = run[r].source /\ run'[r].pin = run[r].pin
  OBVIOUS
<1>4. JobsHaveRuns'
  BY <1>3 DEF IInv, JobsHaveRuns
<1>5. HoldersOwnRuns'
  <2> SUFFICES ASSUME NEW u \in Ticks, NEW k \in Sources,
                      job[u][k].pc \in {"running", "read"}, HoldsLease(u, k)'
               PROVE  /\ run'[job[u][k].run].state = "running"
                      /\ run'[job[u][k].run].holder = u
                      /\ run'[job[u][k].run].token = job[u][k].token
    BY DEF HoldersOwnRuns
  <2> DEFINE q == job[u][k].run
  <2>1. HoldsLease(u, k)
    BY DEF HoldsLease, L!Held, L!Owns
  <2>2. /\ q \in RunIds /\ run[q].state = "running" /\ run[q].source = k
        /\ run[q].holder = u /\ run[q].token = job[u][k].token
    BY <2>1 DEF IInv, HoldersOwnRuns, JobsHaveRuns
  <2>3. q \notin Abandoned
    BY <2>1, <2>2 DEF Abandoned, HoldsLease
  <2> QED
    BY <2>2, <2>3
<1>6. ReadsAreRecent'
  <2>1. \A u \in Ticks, k \in Sources : HoldsLease(u, k)' => HoldsLease(u, k)
    BY DEF HoldsLease, L!Held, L!Owns
  <2>2. \A u \in Ticks, k \in Sources :
           job[u][k].pc = "read" => run'[job[u][k].run].pin = run[job[u][k].run].pin
    BY <1>3 DEF IInv, JobsHaveRuns
  <2> QED
    BY <2>1, <2>2 DEF IInv, ReadsAreRecent
<1> QED
  BY <1>1, <1>2, <1>4, <1>5, <1>6 DEF IInv

LEMMA RecoverInv ==
    ASSUME IInv, NEW t \in Ticks, Recover(t)
    PROVE  IInv'
<1> PICK f \in Injection(Abandoned, AbsentRuns) :
        run' = [r \in RunIds |->
                IF r \in Abandoned
                THEN [run[r] EXCEPT !.state = "failed", !.retryable = TRUE]
                ELSE IF r \in Range(f)
                THEN LET q == CHOOSE a \in Abandoned : f[a] = r
                     IN  Queued(run[q].source, q, run[q].pin, run[q].attempts, FALSE)
                ELSE run[r]]
  BY DEF Recover
<1> DEFINE origin(r) == CHOOSE a \in Abandoned : f[a] = r
<1>1. /\ f \in [Abandoned -> AbsentRuns]
      /\ \A a, b \in Abandoned : f[a] = f[b] => a = b
  BY DEF Injection, IsInjective
<1>2. \A r \in Range(f) : origin(r) \in Abandoned /\ f[origin(r)] = r /\ r \in AbsentRuns
  BY <1>1 DEF Range
<1>3. \A r \in Abandoned : /\ r \in RunIds /\ run[r].state = "running"
                           /\ run[r].source \in Sources
  BY DEF Abandoned, IInv, TypeOK
<1>4. run \in [RunIds -> Run]
  BY DEF IInv, TypeOK
<1>5. \A r \in Abandoned : LET row == [run[r] EXCEPT !.state = "failed", !.retryable = TRUE]
                           IN  /\ row \in Run /\ row.state = "failed"
                               /\ row.source = run[r].source /\ row.pin = run[r].pin
  BY ZenonT(60), <1>3, <1>4 DEF Run, Terminal
<1>6. \A q \in Abandoned : LET row == Queued(run[q].source, q, run[q].pin, run[q].attempts, FALSE)
                           IN  /\ row \in Run /\ row.state = "queued"
                               /\ row.source = run[q].source
  <2> SUFFICES ASSUME NEW q \in Abandoned
               PROVE  LET row == Queued(run[q].source, q, run[q].pin, run[q].attempts, FALSE)
                      IN  /\ row \in Run /\ row.state = "queued"
                          /\ row.source = run[q].source
    OBVIOUS
  <2>1. run[q].pin \in Commits \cup {NoCommit} /\ run[q].attempts \in Nat
    BY <1>3, <1>4 DEF Run
  <2>2. q \in RunIds \cup {0} /\ run[q].source \in Sources /\ FALSE \in BOOLEAN
    BY <1>3
  <2> QED
    BY ZenonT(60), <2>1, <2>2, QueuedType
<1>7. \A r \in RunIds :
         \/ r \in Abandoned /\ run'[r] = [run[r] EXCEPT !.state = "failed", !.retryable = TRUE]
         \/ /\ r \notin Abandoned /\ r \in Range(f)
            /\ run'[r] = Queued(run[origin(r)].source, origin(r), run[origin(r)].pin,
                                run[origin(r)].attempts, FALSE)
         \/ r \notin Abandoned /\ r \notin Range(f) /\ run'[r] = run[r]
  OBVIOUS
<1> HIDE DEF origin
<1>8. \A r \in RunIds :
         \/ /\ r \in Abandoned /\ run'[r] \in Run /\ run'[r].state = "failed"
            /\ run'[r].source = run[r].source /\ run'[r].pin = run[r].pin
         \/ /\ r \in Range(f) /\ run[r].state = "absent"
            /\ run'[r] \in Run /\ run'[r].state = "queued"
            /\ run'[r].source = run[origin(r)].source /\ run'[r].source \in Sources
         \/ r \notin Abandoned /\ r \notin Range(f) /\ run'[r] = run[r]
  <2> SUFFICES ASSUME NEW r \in RunIds
               PROVE  \/ /\ r \in Abandoned /\ run'[r] \in Run /\ run'[r].state = "failed"
                         /\ run'[r].source = run[r].source /\ run'[r].pin = run[r].pin
                      \/ /\ r \in Range(f) /\ run[r].state = "absent"
                         /\ run'[r] \in Run /\ run'[r].state = "queued"
                         /\ run'[r].source = run[origin(r)].source /\ run'[r].source \in Sources
                      \/ r \notin Abandoned /\ r \notin Range(f) /\ run'[r] = run[r]
    OBVIOUS
  <2>1. CASE r \in Abandoned
    BY <1>5, <1>7, <2>1
  <2>2. CASE r \notin Abandoned /\ r \in Range(f)
    <3>1. origin(r) \in Abandoned /\ run[r].state = "absent"
      BY <1>2, <2>2 DEF AbsentRuns
    <3>2. run'[r] = Queued(run[origin(r)].source, origin(r), run[origin(r)].pin,
                           run[origin(r)].attempts, FALSE)
      BY <1>7, <2>2
    <3> QED
      BY <1>3, <1>6, <2>2, <3>1, <3>2
  <2>3. CASE r \notin Abandoned /\ r \notin Range(f)
    BY <1>7, <2>3
  <2> QED
    BY <2>1, <2>2, <2>3
<1>9. run' \in [RunIds -> Run]
  BY <1>4, <1>8
<1>10. OneActiveRun'
  <2> SUFFICES ASSUME NEW p \in RunIds, NEW q \in RunIds,
                      run'[p].state \in Active, run'[q].state \in Active,
                      run'[p].source = run'[q].source
               PROVE  p = q
    BY DEF OneActiveRun
  <2>1. \A r \in RunIds : run'[r].state \in Active =>
           \/ /\ r \in Range(f) /\ run'[r].source = run[origin(r)].source
           \/ r \notin Abandoned /\ run'[r] = run[r]
    BY <1>8 DEF Active
  <2>2. \A r \in Range(f) : /\ origin(r) \in RunIds /\ run[origin(r)].state \in Active
                            /\ origin(r) \in Abandoned
    BY <1>2, <1>3 DEF Active
  <2>3. CASE p \in Range(f) /\ q \in Range(f)
    <3>1. run[origin(p)].source = run[origin(q)].source
      BY <1>8, <2>3, <1>2, <1>3 DEF AbsentRuns
    <3>2. origin(p) = origin(q)
      BY <2>2, <2>3, <3>1 DEF IInv, OneActiveRun
    <3> QED
      BY <1>2, <2>3, <3>2
  <2>4. CASE p \in Range(f) /\ q \notin Range(f)
    <3>1. run'[q] = run[q] /\ q \notin Abandoned /\ run'[p].source = run[origin(p)].source
      BY <2>1, <2>2, <2>4, <1>8, <1>2 DEF AbsentRuns, Active
    <3> QED
      BY <2>2, <2>4, <3>1 DEF IInv, OneActiveRun
  <2>5. CASE p \notin Range(f) /\ q \in Range(f)
    <3>1. run'[p] = run[p] /\ p \notin Abandoned /\ run'[q].source = run[origin(q)].source
      BY <2>1, <2>2, <2>5, <1>8, <1>2 DEF AbsentRuns, Active
    <3> QED
      BY <2>2, <2>5, <3>1 DEF IInv, OneActiveRun
  <2>6. CASE p \notin Range(f) /\ q \notin Range(f)
    BY <2>1, <2>6 DEF IInv, OneActiveRun
  <2> QED
    BY <2>3, <2>4, <2>5, <2>6
<1>11. tick' \in [Ticks -> Tick]
  BY ZenonT(60) DEF Recover, IInv, TypeOK, Tick
<1>12. UNCHANGED <<lease, due, job, bootstrap, catalog>> /\ faults' \in Nat
  BY DEF Recover, IInv, TypeOK
<1> QED
  BY <1>8, <1>9, <1>10, <1>11, <1>12, RowsInv

LEMMA EnqueueDueInv ==
    ASSUME IInv, NEW t \in Ticks, EnqueueDue(t)
    PROVE  IInv'
<1> PICK C \in Choices({s \in Sources : due[s] /\ ActiveRuns(s) = {}}) :
        LET S == IF RoomFor(Cardinality(C)) THEN C ELSE {}
        IN  \E f \in Injection(S, AbsentRuns) :
               /\ FreshSet(Range(f))
               /\ run' = [r \in RunIds |->
                     IF r \in Range(f)
                     THEN Queued(CHOOSE s \in S : f[s] = r, 0, NoCommit, 0, TRUE)
                     ELSE run[r]]
  BY DEF EnqueueDue
<1> DEFINE S == IF RoomFor(Cardinality(C)) THEN C ELSE {}
<1>1. S \subseteq Sources /\ \A s \in S : ActiveRuns(s) = {}
  BY DEF Choices
<1> HIDE DEF S
<1>2. PICK f \in Injection(S, AbsentRuns) :
         run' = [r \in RunIds |->
                    IF r \in Range(f)
                    THEN Queued(CHOOSE s \in S : f[s] = r, 0, NoCommit, 0, TRUE)
                    ELSE run[r]]
  BY DEF S
<1> DEFINE source(r) == CHOOSE s \in S : f[s] = r
<1>3. f \in [S -> AbsentRuns]
  BY DEF Injection
<1>4. \A r \in Range(f) : source(r) \in S /\ f[source(r)] = r /\ r \in AbsentRuns
  BY <1>3 DEF Range
<1>5. run \in [RunIds -> Run]
  BY DEF IInv, TypeOK
<1>6. \A r \in RunIds :
         \/ r \in Range(f) /\ run'[r] = Queued(source(r), 0, NoCommit, 0, TRUE)
         \/ r \notin Range(f) /\ run'[r] = run[r]
  BY <1>2
<1> HIDE DEF source
<1>7. \A s \in Sources : LET row == Queued(s, 0, NoCommit, 0, TRUE)
                         IN  row \in Run /\ row.state = "queued" /\ row.source = s
  <2>1. /\ 0 \in RunIds \cup {0} /\ NoCommit \in Commits \cup {NoCommit}
        /\ 0 \in Nat /\ TRUE \in BOOLEAN
    OBVIOUS
  <2> QED
    BY <2>1, QueuedType
<1>8. \A r \in RunIds :
         \/ /\ r \in Range(f) /\ run[r].state = "absent"
            /\ run'[r] \in Run /\ run'[r].state = "queued"
            /\ run'[r].source = source(r) /\ run'[r].source \in Sources
         \/ r \notin Range(f) /\ run'[r] = run[r]
  <2> SUFFICES ASSUME NEW r \in RunIds
               PROVE  \/ /\ r \in Range(f) /\ run[r].state = "absent"
                         /\ run'[r] \in Run /\ run'[r].state = "queued"
                         /\ run'[r].source = source(r) /\ run'[r].source \in Sources
                      \/ r \notin Range(f) /\ run'[r] = run[r]
    OBVIOUS
  <2>1. CASE r \in Range(f)
    <3>1. source(r) \in Sources /\ run[r].state = "absent"
      BY <1>1, <1>4, <2>1 DEF AbsentRuns
    <3>2. run'[r] = Queued(source(r), 0, NoCommit, 0, TRUE)
      BY <1>6, <2>1
    <3>3. LET row == Queued(source(r), 0, NoCommit, 0, TRUE)
          IN  row \in Run /\ row.state = "queued" /\ row.source = source(r)
      BY <1>7, <3>1
    <3> QED
      BY <2>1, <3>1, <3>2, <3>3
  <2>2. CASE r \notin Range(f)
    BY <1>6, <2>2
  <2> QED
    BY <2>1, <2>2
<1>9. run' \in [RunIds -> Run]
  <2>1. run' = [r \in RunIds |-> run'[r]]
    BY <1>2
  <2> QED
    BY <1>5, <1>8, <2>1
<1>10. OneActiveRun'
  <2> SUFFICES ASSUME NEW p \in RunIds, NEW q \in RunIds,
                      run'[p].state \in Active, run'[q].state \in Active,
                      run'[p].source = run'[q].source
               PROVE  p = q
    BY DEF OneActiveRun
  <2>1. \A r \in RunIds, k \in S : run[r].state \in Active => run[r].source # k
    BY <1>1 DEF ActiveRuns
  <2>2. \A r \in Range(f) : r \in RunIds /\ source(r) \in S
    BY <1>4 DEF AbsentRuns
  <2>3. CASE p \in Range(f) /\ q \in Range(f)
    <3>1. run'[p].source = source(p) /\ run'[q].source = source(q)
      BY <1>8, <2>3
    <3> QED
      BY <1>4, <2>3, <3>1
  <2>4. CASE p \in Range(f) /\ q \notin Range(f)
    BY <1>8, <2>1, <2>2, <2>4
  <2>5. CASE p \notin Range(f) /\ q \in Range(f)
    BY <1>8, <2>1, <2>2, <2>5
  <2>6. CASE p \notin Range(f) /\ q \notin Range(f)
    BY <1>8, <2>6 DEF IInv, OneActiveRun
  <2> QED
    BY <2>3, <2>4, <2>5, <2>6
<1>11. tick' \in [Ticks -> Tick]
  BY DEF EnqueueDue, IInv, TypeOK, Tick
<1>12. UNCHANGED <<lease, due, job, bootstrap, catalog>> /\ faults' \in Nat
  BY DEF EnqueueDue, IInv, TypeOK
<1> QED
  BY <1>8, <1>9, <1>10, <1>11, <1>12, RowsInv

\* An administrator's request.
LEMMA RequestInv ==
    ASSUME IInv, NEW s \in Sources, NEW pin \in Commits \cup {NoCommit}, Request(s, pin)
    PROVE  IInv'
<1> PICK n \in AbsentRuns : run' = [run EXCEPT ![n] = Queued(s, 0, pin, 0, TRUE)]
  BY DEF Request
<1> DEFINE new == Queued(s, 0, pin, 0, TRUE)
<1>1. new \in Run /\ new.state = "queued" /\ new.source = s
  BY ZenonT(60), QueuedType
<1>2. run' = [run EXCEPT ![n] = new] /\ n \in RunIds /\ run[n].state = "absent"
  BY DEF AbsentRuns
<1> HIDE DEF new
<1>3. /\ run' \in [RunIds -> Run] /\ run'[n] = new
      /\ \A r \in RunIds : r # n => run'[r] = run[r]
  BY <1>1, <1>2 DEF IInv, TypeOK
<1>4. OneActiveRun'
  <2>1. \A r \in RunIds : run[r].state \in Active => run[r].source # s
    BY DEF Request, ActiveRuns
  <2> QED
    BY ZenonT(60), <1>1, <1>3, <2>1 DEF IInv, OneActiveRun
<1>5. /\ UNCHANGED <<lease, due, job, bootstrap, catalog>>
      /\ faults' \in Nat /\ tick' \in [Ticks -> Tick]
  BY DEF Request, IInv, TypeOK
<1> QED
  BY <1>1, <1>2, <1>3, <1>4, <1>5, RowsInv

LEMMA BecomesReadyInv ==
    ASSUME IInv, NEW r \in RunIds, BecomesReady(r)
    PROVE  IInv'
<1> DEFINE row == [run[r] EXCEPT !.ready = TRUE]
<1>1. /\ row \in Run /\ row.state = run[r].state /\ row.source = run[r].source
      /\ row.holder = run[r].holder /\ row.token = run[r].token /\ row.pin = run[r].pin
  BY DEF IInv, TypeOK, Run
<1>2. run' = [run EXCEPT ![r] = row]
  BY DEF BecomesReady
<1> HIDE DEF row
<1>3. /\ run' \in [RunIds -> Run] /\ run'[r] = row
      /\ \A q \in RunIds : q # r => run'[q] = run[q]
  BY <1>1, <1>2 DEF IInv, TypeOK
<1>4. OneActiveRun'
  BY <1>1, <1>3 DEF IInv, OneActiveRun
<1>5. /\ UNCHANGED <<lease, due, job, bootstrap, catalog>>
      /\ faults' \in Nat /\ tick' \in [Ticks -> Tick]
  BY DEF BecomesReady, IInv, TypeOK
<1> QED
  BY <1>1, <1>3, <1>4, <1>5, RowsInv

\* A step that starts or forgets jobs before they have a lease.
LEMMA JobsInv ==
    ASSUME IInv,
           job' \in [Ticks -> [Sources -> Job]],
           \A t \in Ticks, s \in Sources :
              \/ job'[t][s] = job[t][s]
              \/ job'[t][s].pc = "none"
              \/ /\ job'[t][s].pc = "claimed" /\ job'[t][s].run \in RunIds
                 /\ run[job'[t][s].run].state # "absent"
                 /\ run[job'[t][s].run].source = s,
           UNCHANGED <<lease, rows, bootstrap, catalog>>,
           tick' \in [Ticks -> Tick],
           faults' \in Nat
    PROVE  IInv'
<1> USE DEF rows, catalog
<1>1. TypeOK'
  BY DEF IInv, TypeOK, L!LeaseTypeOK
<1>2. OneActiveRun'
  BY DEF IInv, OneActiveRun
<1>3. \A t \in Ticks, s \in Sources :
         job'[t][s].pc \notin {"none", "claimed"} =>
             job'[t][s] = job[t][s] /\ (HoldsLease(t, s)' => HoldsLease(t, s))
  BY DEF HoldsLease, L!Held, L!Owns
<1>4. TokensGrow'
  BY <1>3 DEF IInv, TokensGrow, Working
<1>5. JobsHaveRuns'
  BY DEF IInv, JobsHaveRuns
<1>6. HoldersOwnRuns'
  BY <1>3 DEF IInv, HoldersOwnRuns
<1>7. ReadsAreRecent'
  BY <1>3 DEF IInv, ReadsAreRecent
<1> QED
  BY <1>1, <1>2, <1>4, <1>5, <1>6, <1>7 DEF IInv

\* A step of what no invariant but TypeOK looks at.
LEMMA SurroundingsInv ==
    ASSUME IInv,
           UNCHANGED <<lease, run, job, newest, fence>>,
           due' \in [Sources -> BOOLEAN],
           tick' \in [Ticks -> Tick],
           snapshots' \in [Sources -> SUBSET Commits],
           head' \in [Sources -> Commits \cup {NoCommit}],
           bootstrap' \in [Sources -> Commits \cup {NoCommit}],
           upstream' \in [Sources -> Commits],
           \A s \in Sources : upstream[s] <= upstream'[s],
           faults' \in Nat
    PROVE  IInv'
<1>1. TypeOK'
  BY DEF IInv, TypeOK, L!LeaseTypeOK
<1>2. OneActiveRun' /\ TokensGrow' /\ JobsHaveRuns'
  BY DEF IInv, OneActiveRun, TokensGrow, Working, JobsHaveRuns
<1>3. \A t \in Ticks, s \in Sources : HoldsLease(t, s)' <=> HoldsLease(t, s)
  BY DEF HoldsLease, L!Held, L!Owns
<1>4. HoldersOwnRuns'
  BY <1>3 DEF IInv, HoldersOwnRuns
<1>5. ReadsAreRecent'
  <2>1. \A s \in Sources : newest[s] \in Nat /\ upstream[s] \in Nat /\ upstream'[s] \in Nat
    BY CommitBounds DEF IInv, TypeOK
  <2>2. \A s \in Sources : newest[s] <= upstream'[s]
    BY <2>1 DEF IInv, ReadsAreRecent
  <2>3. \A t \in Ticks, s \in Sources :
           job[t][s].pc = "read" /\ run[job[t][s].run].pin = NoCommit =>
               job[t][s].commit <= upstream'[s]
    <3>1. \A t \in Ticks, s \in Sources : job[t][s].pc = "read" => job[t][s].commit \in Nat
      BY CommitBounds DEF IInv, JobsHaveRuns
    <3> QED
      BY <2>1, <3>1 DEF IInv, ReadsAreRecent
  <2> QED
    BY <1>3, <2>2, <2>3 DEF IInv, ReadsAreRecent
<1> QED
  BY <1>1, <1>2, <1>4, <1>5 DEF IInv

LEMMA TickStepInv ==
    ASSUME IInv, NEW t \in Ticks, TickStep(t)
    PROVE  IInv'
<1>1. TypeOK /\ faults \in Nat
  BY DEF IInv, TypeOK
<1>2. CASE Recover(t)
  BY <1>2, RecoverInv
<1>3. CASE EnqueueDue(t)
  BY <1>3, EnqueueDueInv
<1>4. CASE TickThrows(t) \/ TickDone(t)
  <2> DEFINE idle == [pc |-> "idle", aborted |-> FALSE]
  <2>3. idle \in Tick
    BY DEF Tick
  <2>4. tick' = [tick EXCEPT ![t] = idle]
    BY <1>4 DEF TickThrows, TickDone
  <2>1. tick' \in [Ticks -> Tick]
    BY <1>1, <2>3, <2>4 DEF TypeOK
  <2>2. UNCHANGED <<lease, rows, job, bootstrap, catalog, faults>>
    BY <1>4 DEF TickThrows, TickDone
  <2> QED
    BY <1>1, <2>1, <2>2, JobsInv DEF TypeOK
<1>5. CASE ClaimRuns(t)
  <2>1. PICK C \in Choices({r \in RunIds : run[r].state = "queued" /\ run[r].ready}) :
           job' = [job EXCEPT ![t] = [s \in Sources |->
                     IF \E r \in C : run[r].source = s
                     THEN LET r == CHOOSE q \in C : run[q].source = s
                          IN  [NoJob EXCEPT !.pc = "claimed", !.run = r,
                                            !.attempts = run[r].attempts]
                     ELSE NoJob]]
    BY <1>5 DEF ClaimRuns
  <2> DEFINE claimed(s) == CHOOSE q \in C : run[q].source = s
             new(s) == IF \E r \in C : run[r].source = s
                       THEN [NoJob EXCEPT !.pc = "claimed", !.run = claimed(s),
                                          !.attempts = run[claimed(s)].attempts]
                       ELSE NoJob
  <2>2. \A r \in C : r \in RunIds /\ run[r].state = "queued"
    BY DEF Choices
  <2>3. \A s \in Sources : (\E r \in C : run[r].source = s) =>
                              claimed(s) \in C /\ run[claimed(s)].source = s
    OBVIOUS
  <2>4. job' = [job EXCEPT ![t] = [s \in Sources |-> new(s)]]
    BY <2>1
  <2> HIDE DEF claimed
  <2>5. ASSUME NEW s \in Sources
        PROVE  /\ new(s) \in Job
               /\ \/ new(s).pc = "none"
                  \/ /\ new(s).pc = "claimed" /\ new(s).run \in RunIds
                     /\ run[new(s).run].state # "absent"
                     /\ run[new(s).run].source = s
    <3>1. CASE \E r \in C : run[r].source = s
      <4>1. claimed(s) \in RunIds /\ run[claimed(s)].attempts \in Nat
        BY <1>1, <2>2, <2>3, <3>1 DEF TypeOK, Run
      <4>2. new(s) = [NoJob EXCEPT !.pc = "claimed", !.run = claimed(s),
                                   !.attempts = run[claimed(s)].attempts]
        BY <3>1
      <4>3. new(s) \in Job /\ new(s).pc = "claimed" /\ new(s).run = claimed(s)
        BY <4>1, <4>2, NoJobType DEF NoJob, Job
      <4> QED
        BY <2>2, <2>3, <3>1, <4>1, <4>3
    <3>2. CASE ~\E r \in C : run[r].source = s
      BY <3>2, NoJobType DEF NoJob
    <3> QED
      BY <3>1, <3>2
  <2> HIDE DEF new
  <2>6. /\ job' \in [Ticks -> [Sources -> Job]]
        /\ \A u \in Ticks, s \in Sources :
              job'[u][s] = job[u][s] \/ job'[u][s] = new(s)
    BY <1>1, <2>4, <2>5 DEF TypeOK
  <2>7. tick' \in [Ticks -> Tick]
    BY ZenonT(60), <1>1, <1>5 DEF ClaimRuns, TypeOK, Tick
  <2>8. UNCHANGED <<lease, rows, bootstrap, catalog, faults>>
    BY <1>5 DEF ClaimRuns
  <2>9. \A u \in Ticks, s \in Sources :
           \/ job'[u][s] = job[u][s]
           \/ job'[u][s].pc = "none"
           \/ /\ job'[u][s].pc = "claimed" /\ job'[u][s].run \in RunIds
              /\ run[job'[u][s].run].state # "absent"
              /\ run[job'[u][s].run].source = s
    BY <2>5, <2>6
  <2> QED
    BY <1>1, <2>6, <2>7, <2>8, <2>9, JobsInv
<1> QED
  BY <1>2, <1>3, <1>4, <1>5 DEF TickStep

LEMMA BreaksInv ==
    ASSUME IInv, NEW t \in Ticks, Breaks(t)
    PROVE  IInv'
<1>1. TypeOK /\ job \in [Ticks -> [Sources -> Job]]
  BY DEF IInv, TypeOK
<1>2. CASE DiscoveryThrows(t) \/ Abort(t)
  <2>1. /\ [tick[t] EXCEPT !.pc = "idle"] \in Tick
        /\ [tick[t] EXCEPT !.aborted = TRUE] \in Tick
    BY <1>1 DEF TypeOK, Tick
  <2>2. \/ tick' = [tick EXCEPT ![t] = [tick[t] EXCEPT !.pc = "idle"]]
        \/ tick' = [tick EXCEPT ![t] = [tick[t] EXCEPT !.aborted = TRUE]]
    BY <1>2 DEF DiscoveryThrows, Abort
  <2>3. tick' \in [Ticks -> Tick]
    BY <1>1, <2>1, <2>2 DEF TypeOK
  <2>4. faults' \in Nat
    BY <1>1, <1>2, FaultType DEF DiscoveryThrows, Abort
  <2>5. UNCHANGED <<lease, rows, job, bootstrap, catalog>>
    BY <1>2 DEF DiscoveryThrows, Abort
  <2> QED
    BY <1>1, <2>3, <2>4, <2>5, JobsInv
<1>3. CASE Crash(t)
  <2>1. tick' \in [Ticks -> Tick] /\ faults' \in Nat
    BY <1>1, <1>3, FaultType DEF Crash, TypeOK, Tick
  <2>2. job' \in [Ticks -> [Sources -> Job]]
    BY <1>1, <1>3, NoJobType DEF Crash
  <2>3. \A u \in Ticks, s \in Sources : job'[u][s] = job[u][s] \/ job'[u][s].pc = "none"
    BY <1>1, <1>3 DEF Crash, NoJob
  <2>4. UNCHANGED <<lease, rows, bootstrap, catalog>>
    BY <1>3 DEF Crash
  <2> QED
    BY <2>1, <2>2, <2>3, <2>4, JobsInv
<1> QED
  BY <1>2, <1>3, QuietActionsInv, ReplyLostInv DEF Breaks

LEMMA EnvironmentInv ==
    ASSUME IInv, NEW s \in Sources, Environment(s)
    PROVE  IInv'
<1>1. /\ TypeOK /\ faults \in Nat /\ upstream \in [Sources -> Nat]
      /\ NoCommit \in Commits \cup {NoCommit}
  BY CommitBounds DEF IInv, TypeOK
<1>2. CASE LeaseExpires(s)
  <2>1. faults' \in Nat
    BY <1>1, <1>2, FaultType DEF LeaseExpires
  <2> QED
    BY <1>2, <2>1, LeaseEndsInv DEF LeaseExpires, L!Expire
<1>3. CASE AdminSync(s) \/ AdminVerify(s)
  <2>1. \A c \in snapshots[s] : c \in Commits \cup {NoCommit}
    BY <1>1 DEF TypeOK
  <2> QED
    BY <1>1, <1>3, <2>1, RequestInv DEF AdminSync, AdminVerify
<1>4. CASE BecomesDue(s)
  BY <1>1, <1>4, SurroundingsInv DEF BecomesDue, catalog, TypeOK
<1>5. CASE Push(s)
  <2>1. upstream[s] + 1 \in Commits
    BY <1>1, <1>5, SizesAssumption DEF Push, TypeOK, Commits
  <2>2. upstream' \in [Sources -> Commits] /\ \A k \in Sources : upstream[k] <= upstream'[k]
    BY <1>1, <1>5, <2>1 DEF Push, TypeOK
  <2> QED
    BY <1>1, <1>5, <2>2, SurroundingsInv DEF Push, rows, TypeOK
<1>6. CASE BootstrapRead(s)
  BY <1>1, <1>6, SurroundingsInv DEF BootstrapRead, rows, catalog, TypeOK
<1>7. CASE BootstrapEnds(s)
  <2>1. bootstrap[s] \in Commits
    BY <1>1, <1>7 DEF BootstrapEnds, TypeOK
  <2>2. /\ snapshots' \in [Sources -> SUBSET Commits]
        /\ head' \in [Sources -> Commits \cup {NoCommit}]
        /\ bootstrap' \in [Sources -> Commits \cup {NoCommit}]
    BY <1>1, <1>7, <2>1 DEF BootstrapEnds, TypeOK, catalog
  <2>3. UNCHANGED <<lease, rows, tick, job, faults, upstream, newest, fence>>
    BY <1>7 DEF BootstrapEnds, catalog
  <2> QED
    BY <1>1, <2>2, <2>3, SurroundingsInv DEF rows, TypeOK
<1> QED
  BY <1>2, <1>3, <1>4, <1>5, <1>6, <1>7 DEF Environment

-----------------------------------------------------------------------------
LEMMA InvNext == IInv /\ [Next]_vars => IInv'
<1> SUFFICES ASSUME IInv, [Next]_vars PROVE IInv'
  OBVIOUS
<1>1. CASE UNCHANGED vars
  <2>1. /\ due' \in [Sources -> BOOLEAN]
        /\ tick' \in [Ticks -> Tick]
        /\ snapshots' \in [Sources -> SUBSET Commits]
        /\ head' \in [Sources -> Commits \cup {NoCommit}]
        /\ bootstrap' \in [Sources -> Commits \cup {NoCommit}]
        /\ upstream' \in [Sources -> Commits]
        /\ faults' \in Nat
    BY <1>1 DEF vars, IInv, TypeOK
  <2>2. upstream \in [Sources -> Nat]
    BY CommitBounds DEF IInv, TypeOK
  <2>3. \A s \in Sources : upstream[s] <= upstream'[s]
    BY <1>1, <2>2 DEF vars
  <2> QED
    BY <1>1, <2>1, <2>3, SurroundingsInv DEF vars
<1>2. CASE Next
  BY <1>2, TickStepInv, BreaksInv, JobStepInv, EnvironmentInv, BecomesReadyInv DEF Next
<1> QED
  BY <1>1, <1>2

\* IInv holds in every reachable state.
THEOREM Invariance == Spec => []IInv
<1>1. Init => IInv
  BY InvInit
<1>2. IInv /\ [Next]_vars => IInv'
  BY InvNext
<1> QED
  BY <1>1, <1>2, PTL DEF Spec

\* Every row and every record keeps its type, whatever goes wrong when.
THEOREM TypeCorrect == Spec => []TypeOK
<1>1. IInv => TypeOK
  BY DEF IInv
<1> QED
  BY <1>1, Invariance, PTL

\* No interleaving of recoveries, retries, schedules and requests gives a source
\* two active runs: the unique index never refuses a transaction.
THEOREM OneActiveRunAlways == Spec => []OneActiveRun
<1>1. IInv => OneActiveRun
  BY DEF IInv
<1> QED
  BY <1>1, Invariance, PTL

-----------------------------------------------------------------------------
(***************************************************************************)
(* What moves a head.                                                      *)
(***************************************************************************)
\* Of all steps, only a publication touches what was published.
LEMMA OnlyPublicationMoves ==
    ASSUME [Next]_vars
    PROVE  \/ UNCHANGED <<newest, fence>>
           \/ \E t \in Ticks, s \in Sources : job[t][s].pc = "read" /\ Publication(t, s)
<1> USE DEF catalog
<1>1. CASE UNCHANGED vars
  BY <1>1 DEF vars
<1>2. ASSUME NEW t \in Ticks, TickStep(t) PROVE UNCHANGED <<newest, fence>>
  BY <1>2 DEF TickStep, Recover, TickThrows, EnqueueDue, ClaimRuns, TickDone
<1>3. ASSUME NEW t \in Ticks, Breaks(t)
      PROVE  \/ UNCHANGED <<newest, fence>>
             \/ \E s \in Sources : job[t][s].pc = "read" /\ Publication(t, s)
  BY <1>3 DEF Breaks, DiscoveryThrows, Abort, Crash, CallFails, ReplyLost
<1>4. ASSUME NEW t \in Ticks, NEW s \in Sources, JobStep(t, s)
      PROVE  \/ UNCHANGED <<newest, fence>>
             \/ job[t][s].pc = "read" /\ Publication(t, s)
  BY <1>4 DEF JobStep, AcquireLease, SkipRun, MarkRunning, MarkRefused, ReadUpstream,
              Publish, Throw, Complete, CompleteThrows, Fail, Quarantine, NotRecorded,
              ReleaseLease
<1>5. ASSUME NEW t \in Ticks, NEW s \in Sources, HeartbeatRenews(t, s) \/ HeartbeatFails(t, s)
      PROVE  UNCHANGED <<newest, fence>>
  BY <1>5 DEF HeartbeatRenews, HeartbeatFails
<1>6. ASSUME NEW s \in Sources, Environment(s) PROVE UNCHANGED <<newest, fence>>
  BY <1>6 DEF Environment, LeaseExpires, BecomesDue, Push, AdminSync, AdminVerify, Request,
              BootstrapRead, BootstrapEnds
<1>7. ASSUME NEW r \in RunIds, BecomesReady(r) PROVE UNCHANGED <<newest, fence>>
  BY <1>7 DEF BecomesReady
<1> QED
  BY <1>1, <1>2, <1>3, <1>4, <1>5, <1>6, <1>7 DEF Next

\* What a publication does to the tokens and the commits of heads.
LEMMA PublicationMoves ==
    ASSUME IInv, NEW t \in Ticks, NEW s \in Sources,
           job[t][s].pc = "read", Publication(t, s)
    PROVE  /\ \A k \in Sources : k # s => fence'[k] = fence[k] /\ newest'[k] = newest[k]
           /\ fence'[s] # fence[s] =>
                 /\ fence'[s] > fence[s]
                 /\ \E r \in RunIds : /\ run[r].state = "running"
                                      /\ run[r].source = s
                                      /\ run[r].token = fence'[s]
           /\ newest'[s] >= newest[s]
<1> DEFINE c == job[t][s].commit
           r == job[t][s].run
<1>1. HoldsLease(t, s) /\ c \in Commits /\ r \in RunIds /\ run[r].source = s
  BY DEF IInv, JobsHaveRuns, Publication
<1>2. /\ fence[s] \in Nat /\ newest[s] \in Nat /\ c \in Nat
      /\ lease[s].token \in Nat /\ job[t][s].token = lease[s].token
  BY <1>1, CommitBounds
     DEF IInv, TypeOK, L!LeaseTypeOK, L!LeaseRow, HoldsLease, L!Held, L!Owns
<1>3. \A k \in Sources : k # s => fence'[k] = fence[k] /\ newest'[k] = newest[k]
  BY DEF IInv, TypeOK, Publication
<1>4. fence'[s] = lease[s].token /\ fence[s] <= lease[s].token
  BY <1>2 DEF IInv, TypeOK, TokensGrow, Publication
<1>5. run[r].state = "running" /\ run[r].token = lease[s].token
  BY <1>1, <1>2 DEF IInv, HoldersOwnRuns
<1>6. newest'[s] >= newest[s]
  <2>1. CASE run[r].pin = NoCommit
    <3>1. newest[s] <= c
      BY <1>1, <2>1 DEF IInv, ReadsAreRecent
    <3>2. newest'[s] = c
      BY <2>1 DEF IInv, TypeOK, Publication
    <3> QED
      BY <1>2, <3>1, <3>2
  <2>2. CASE run[r].pin # NoCommit
    BY <1>2, <2>2 DEF Publication
  <2> QED
    BY <2>1, <2>2
<1> QED
  BY <1>1, <1>2, <1>3, <1>4, <1>5, <1>6

\* A head moves only under the token of a run that is running at that moment,
\* and under ever larger tokens: an overtaken job never publishes.
THEOREM FencedHeadAlways == Spec => FencedHead
<1>1. IInv /\ [Next]_vars =>
         [\A s \in Sources : fence'[s] # fence[s] =>
             /\ fence'[s] > fence[s]
             /\ \E r \in RunIds : /\ run[r].state = "running"
                                  /\ run[r].source = s
                                  /\ run[r].token = fence'[s]]_vars
  <2> SUFFICES ASSUME IInv, [Next]_vars, NEW s \in Sources, fence'[s] # fence[s]
               PROVE  /\ fence'[s] > fence[s]
                      /\ \E r \in RunIds : /\ run[r].state = "running"
                                           /\ run[r].source = s
                                           /\ run[r].token = fence'[s]
    OBVIOUS
  <2>1. PICK t \in Ticks, k \in Sources : job[t][k].pc = "read" /\ Publication(t, k)
    BY OnlyPublicationMoves
  <2>2. k = s
    BY <2>1, PublicationMoves
  <2> QED
    BY <2>1, <2>2, PublicationMoves
<1> QED
  BY <1>1, Invariance, PTL DEF Spec, FencedHead

\* No job publishes a commit of the default branch that is older than one that
\* was published before, however its reads and publications interleave with
\* those of other jobs.
THEOREM NoCommitRegressionAlways == Spec => NoCommitRegression
<1>1. IInv /\ [Next]_vars => [\A s \in Sources : newest'[s] >= newest[s]]_vars
  <2> SUFFICES ASSUME IInv, [Next]_vars, NEW s \in Sources
               PROVE  newest'[s] >= newest[s]
    OBVIOUS
  <2>1. newest[s] \in Nat
    BY CommitBounds DEF IInv, TypeOK
  <2>2. CASE UNCHANGED <<newest, fence>>
    BY <2>1, <2>2
  <2>3. CASE \E t \in Ticks, k \in Sources : job[t][k].pc = "read" /\ Publication(t, k)
    <3>1. PICK t \in Ticks, k \in Sources : job[t][k].pc = "read" /\ Publication(t, k)
      BY <2>3
    <3> QED
      BY <2>1, <3>1, PublicationMoves
  <2> QED
    BY <2>2, <2>3, OnlyPublicationMoves
<1> QED
  BY <1>1, Invariance, PTL DEF Spec, NoCommitRegression

(***************************************************************************)
(* The results of runs: who decides them, what succeeds them, and what a   *)
(* success has published.                                                  *)
(***************************************************************************)

(***************************************************************************)
(* What a step does to the rows.                                           *)
(***************************************************************************)

\* A new row is about what row r is about, and carries on its attempts.
CarriesOn(new, old) ==
    /\ new.source = old.source
    /\ new.pin = old.pin
    /\ new.attempts >= old.attempts

\* A job that has published may complete run r.
Completes(r) ==
    \E t \in Ticks, s \in Sources :
        job[t][s].pc = "published" /\ job[t][s].run = r /\ Recordable(t, s)

\* A row that the step neither retries nor adds as a retry: it stays, an active
\* row moves on without asking for a retry, or a run is requested.
Alone(r) ==
    \/ run'[r] = run[r]
    \/ /\ run[r].state \in Active
       /\ CarriesOn(run'[r], run[r])
       /\ run'[r].prev = run[r].prev
       /\ run'[r].state # "absent"
       /\ ~(run'[r].state = "failed" /\ run'[r].retryable)
       /\ run'[r].state = "succeeded" => Completes(r)
    \/ /\ run[r].state = "absent"
       /\ run'[r].state = "queued"
       /\ run'[r].prev = 0

\* The runs A fail, and next is the row of the retry of each.
Retries(A, next) ==
    /\ A \subseteq RunIds
    /\ \A a \in A : /\ run[a].state \in Active
                    /\ run'[a].state = "failed"
                    /\ run'[a].prev = run[a].prev
                    /\ CarriesOn(run'[a], run[a])
    /\ \A a \in A : /\ next[a] \in RunIds
                    /\ run[next[a]].state = "absent"
                    /\ run'[next[a]].state = "queued"
                    /\ run'[next[a]].prev = a
                    /\ CarriesOn(run'[next[a]], run'[a])
    /\ \A a, b \in A : next[a] = next[b] => a = b
    /\ \A r \in RunIds : r \in A \/ (\E a \in A : r = next[a]) \/ Alone(r)

RowsMove == (\A r \in RunIds : Alone(r)) \/ (\E A, next : Retries(A, next))

\* A step that changes one active row.
LEMMA OneRowMoves ==
    ASSUME TypeOK, NEW r \in RunIds, NEW row \in Run,
           run' = [run EXCEPT ![r] = row],
           run[r].state \in Active,
           CarriesOn(row, run[r]),
           row.prev = run[r].prev,
           row.state # "absent",
           ~(row.state = "failed" /\ row.retryable),
           row.state = "succeeded" => Completes(r)
    PROVE  \A q \in RunIds : Alone(q)
<1>1. run'[r] = row /\ \A q \in RunIds : q # r => run'[q] = run[q]
  BY DEF TypeOK
<1> QED
  BY <1>1 DEF Alone

\* A job's run starts, or ends without a retry.
LEMMA StartedMoves ==
    ASSUME IInv, NEW t \in Ticks, NEW s \in Sources,
           job[t][s].pc # "none", Startable(t, s), Started(t, s)
    PROVE  \A q \in RunIds : Alone(q)
<1> DEFINE r == job[t][s].run
           row == [run[r] EXCEPT !.state = "running", !.holder = t,
                                 !.token = job[t][s].token,
                                 !.attempts = run[r].attempts + 1]
<1>1. r \in RunIds /\ run[r] \in Run /\ job[t][s].token \in Nat
  BY DEF IInv, TypeOK, JobsHaveRuns, Job
<1>2. run[r].attempts \in Nat
  BY <1>1 DEF Run
<1>3. row \in Run
  <2>1. run[r].attempts + 1 \in Nat /\ t \in Ticks \cup {None} /\ "running" \in Active
    BY <1>2 DEF Active
  <2> QED
    BY ZenonT(60), <1>1, <2>1 DEF Run
<1>4. /\ row.state = "running" /\ row.source = run[r].source /\ row.pin = run[r].pin
      /\ row.prev = run[r].prev /\ row.attempts = run[r].attempts + 1
  BY <1>1 DEF Run
<1>5. run' = [run EXCEPT ![r] = row] /\ run[r].state \in Active
  BY DEF Started, Startable, Active
<1> HIDE DEF r, row
<1>6. CarriesOn(row, run[r])
  BY <1>2, <1>4 DEF CarriesOn
<1> QED
  BY <1>1, <1>3, <1>4, <1>5, <1>6, OneRowMoves DEF IInv

LEMMA EndedMoves ==
    ASSUME IInv, NEW r \in RunIds, run[r].state = "running",
           NEW state \in Terminal,
           \/ run' = [run EXCEPT ![r].state = state] /\ state # "failed"
           \/ run' = [run EXCEPT ![r] = [run[r] EXCEPT !.state = state, !.retryable = FALSE]],
           state = "succeeded" => Completes(r)
    PROVE  \A q \in RunIds : Alone(q)
<1> DEFINE row == [run[r] EXCEPT !.state = state]
           final == [run[r] EXCEPT !.state = state, !.retryable = FALSE]
<1>1. run[r] \in Run
  BY DEF IInv, TypeOK
<1>2. /\ row \in Run /\ row.state = state /\ row.prev = run[r].prev
      /\ row.source = run[r].source /\ row.pin = run[r].pin
      /\ row.attempts = run[r].attempts
  BY <1>1 DEF Run
<1>3. /\ final \in Run /\ final.state = state /\ final.prev = run[r].prev
      /\ final.source = run[r].source /\ final.pin = run[r].pin
      /\ final.attempts = run[r].attempts /\ final.retryable = FALSE
  BY <1>1 DEF Run
<1>4. run[r].attempts \in Nat /\ run[r].state \in Active /\ state # "absent"
  BY <1>1 DEF Run, Active, Terminal
<1>5. \/ run' = [run EXCEPT ![r] = row] /\ state # "failed"
      \/ run' = [run EXCEPT ![r] = final]
  OBVIOUS
<1> HIDE DEF row, final
<1>6. CarriesOn(row, run[r]) /\ CarriesOn(final, run[r])
  BY <1>2, <1>3, <1>4 DEF CarriesOn
<1>7. CASE run' = [run EXCEPT ![r] = row] /\ state # "failed"
  BY <1>2, <1>4, <1>6, <1>7, OneRowMoves DEF IInv
<1>8. CASE run' = [run EXCEPT ![r] = final]
  BY <1>3, <1>4, <1>6, <1>8, OneRowMoves DEF IInv
<1> QED
  BY <1>5, <1>7, <1>8

LEMMA CompletionMoves ==
    ASSUME IInv, NEW t \in Ticks, NEW s \in Sources,
           job[t][s].pc = "published", Completion(t, s)
    PROVE  \A q \in RunIds : Alone(q)
<1>1. job[t][s].run \in RunIds
  BY DEF IInv, JobsHaveRuns
<1>2. run[job[t][s].run].state = "running"
  BY DEF Completion, Recordable
<1>3. PICK state \in {"succeeded", "quarantined"} : run' = [run EXCEPT ![job[t][s].run].state = state]
  BY DEF Completion
<1>4. state \in Terminal /\ state # "failed"
  BY DEF Terminal
<1>5. Completes(job[t][s].run)
  BY DEF Completes, Completion
<1> QED
  BY <1>1, <1>2, <1>3, <1>4, <1>5, EndedMoves

LEMMA QuarantineMoves ==
    ASSUME IInv, NEW t \in Ticks, NEW s \in Sources, Quarantine(t, s)
    PROVE  \A q \in RunIds : Alone(q)
<1>1. job[t][s].run \in RunIds
  BY DEF IInv, JobsHaveRuns, Quarantine
<1>2. run[job[t][s].run].state = "running"
  BY DEF Quarantine, Recordable
<1>3. run' = [run EXCEPT ![job[t][s].run].state = "quarantined"]
  BY DEF Quarantine
<1>4. "quarantined" \in Terminal /\ "quarantined" # "failed"
  BY DEF Terminal
<1> QED
  BY <1>1, <1>2, <1>3, <1>4, EndedMoves

LEMMA ReadyMoves ==
    ASSUME IInv, NEW r \in RunIds, BecomesReady(r)
    PROVE  \A q \in RunIds : Alone(q)
<1> DEFINE row == [run[r] EXCEPT !.ready = TRUE]
<1>1. run[r] \in Run /\ run[r].state = "queued"
  BY DEF IInv, TypeOK, BecomesReady
<1>2. /\ row \in Run /\ row.state = "queued" /\ row.prev = run[r].prev
      /\ row.source = run[r].source /\ row.pin = run[r].pin
      /\ row.attempts = run[r].attempts /\ run[r].attempts \in Nat
  BY <1>1 DEF Run
<1>3. run' = [run EXCEPT ![r] = row]
  BY DEF BecomesReady
<1> HIDE DEF row
<1>4. CarriesOn(row, run[r]) /\ run[r].state \in Active
  BY <1>1, <1>2 DEF CarriesOn, Active
<1> QED
  BY <1>1, <1>2, <1>3, <1>4, OneRowMoves DEF IInv

\* The order on attempts is needed in this form only.
LEMMA SameCarriesOn ==
    ASSUME NEW new, NEW old, new.source = old.source, new.pin = old.pin,
           new.attempts = old.attempts, old.attempts \in Nat
    PROVE  CarriesOn(new, old)
BY DEF CarriesOn

LEMMA RequestMoves ==
    ASSUME IInv, NEW s \in Sources, NEW pin, Request(s, pin)
    PROVE  \A q \in RunIds : Alone(q)
<1> PICK n \in AbsentRuns : run' = [run EXCEPT ![n] = Queued(s, 0, pin, 0, TRUE)]
  BY DEF Request
<1>1. n \in RunIds /\ run[n].state = "absent" /\ run \in [RunIds -> Run]
  BY DEF AbsentRuns, IInv, TypeOK
<1>2. /\ run'[n] = Queued(s, 0, pin, 0, TRUE)
      /\ \A q \in RunIds : q # n => run'[q] = run[q]
  BY <1>1
<1>3. run'[n].state = "queued" /\ run'[n].prev = 0
  <2>1. Queued(s, 0, pin, 0, TRUE).state = "queued" /\ Queued(s, 0, pin, 0, TRUE).prev = 0
    BY DEF Queued, Absent
  <2> QED
    BY <1>2, <2>1
<1> QED
  BY <1>1, <1>2, <1>3 DEF Alone

LEMMA EnqueueMoves ==
    ASSUME IInv, NEW t \in Ticks, EnqueueDue(t)
    PROVE  \A q \in RunIds : Alone(q)
<1> PICK C \in Choices({s \in Sources : due[s] /\ ActiveRuns(s) = {}}) :
        LET S == IF RoomFor(Cardinality(C)) THEN C ELSE {}
        IN  \E f \in Injection(S, AbsentRuns) :
               /\ FreshSet(Range(f))
               /\ run' = [r \in RunIds |->
                     IF r \in Range(f)
                     THEN Queued(CHOOSE s \in S : f[s] = r, 0, NoCommit, 0, TRUE)
                     ELSE run[r]]
  BY DEF EnqueueDue
<1> DEFINE S == IF RoomFor(Cardinality(C)) THEN C ELSE {}
<1>1. PICK f \in Injection(S, AbsentRuns) :
         run' = [r \in RunIds |->
                    IF r \in Range(f)
                    THEN Queued(CHOOSE s \in S : f[s] = r, 0, NoCommit, 0, TRUE)
                    ELSE run[r]]
  OBVIOUS
<1> HIDE DEF S
<1>2. \A r \in Range(f) : r \in AbsentRuns
  BY <1>1 DEF Injection, Range
<1> SUFFICES ASSUME NEW r \in RunIds PROVE Alone(r)
  OBVIOUS
<1>3. CASE r \in Range(f)
  <2>1. run'[r] = Queued(CHOOSE s \in S : f[s] = r, 0, NoCommit, 0, TRUE)
    BY <1>1, <1>3
  <2>2. run'[r].state = "queued" /\ run'[r].prev = 0
    BY <2>1 DEF Queued, Absent
  <2>3. run[r].state = "absent"
    BY <1>2, <1>3 DEF AbsentRuns
  <2> QED
    BY <2>2, <2>3 DEF Alone
<1>4. CASE r \notin Range(f)
  BY <1>1, <1>4 DEF Alone
<1> QED
  BY <1>3, <1>4

\* The row of a run that fails and is to be retried.
LEMMA FailedRow ==
    ASSUME NEW old \in Run
    PROVE  LET row == [old EXCEPT !.state = "failed", !.retryable = TRUE]
           IN  /\ row.state = "failed" /\ row.prev = old.prev
               /\ row.source = old.source /\ row.pin = old.pin
               /\ row.attempts = old.attempts /\ row.attempts \in Nat
BY DEF Run

LEMMA RecoverMoves ==
    ASSUME IInv, NEW t \in Ticks, Recover(t)
    PROVE  \E A, next : Retries(A, next)
<1> PICK f \in Injection(Abandoned, AbsentRuns) :
        run' = [r \in RunIds |->
                IF r \in Abandoned
                THEN [run[r] EXCEPT !.state = "failed", !.retryable = TRUE]
                ELSE IF r \in Range(f)
                THEN LET q == CHOOSE a \in Abandoned : f[a] = r
                     IN  Queued(run[q].source, q, run[q].pin, run[q].attempts, FALSE)
                ELSE run[r]]
  BY DEF Recover
<1>1. /\ f \in [Abandoned -> AbsentRuns]
      /\ \A a, b \in Abandoned : f[a] = f[b] => a = b
  BY DEF Injection, IsInjective
<1>2. \A a \in Abandoned : /\ a \in RunIds /\ run[a] \in Run
                           /\ run[a].state = "running" /\ run[a].state \in Active
  BY DEF Abandoned, IInv, TypeOK, Active
<1>3. \A a \in Abandoned : /\ run'[a].state = "failed" /\ run'[a].prev = run[a].prev
                           /\ run'[a].source = run[a].source /\ run'[a].pin = run[a].pin
                           /\ run'[a].attempts = run[a].attempts /\ run'[a].attempts \in Nat
  <2> SUFFICES ASSUME NEW a \in Abandoned
               PROVE  /\ run'[a].state = "failed" /\ run'[a].prev = run[a].prev
                      /\ run'[a].source = run[a].source /\ run'[a].pin = run[a].pin
                      /\ run'[a].attempts = run[a].attempts /\ run'[a].attempts \in Nat
    OBVIOUS
  <2>1. run'[a] = [run[a] EXCEPT !.state = "failed", !.retryable = TRUE]
    BY <1>2
  <2> QED
    BY <1>2, <2>1, FailedRow
<1>4. \A a \in Abandoned : CarriesOn(run'[a], run[a])
  <2> SUFFICES ASSUME NEW a \in Abandoned PROVE CarriesOn(run'[a], run[a])
    OBVIOUS
  <2>1. run[a].attempts \in Nat
    BY <1>2 DEF Run
  <2> QED
    BY <1>3, <2>1, SameCarriesOn
<1>5. \A a \in Abandoned :
         /\ f[a] \in RunIds /\ run[f[a]].state = "absent"
         /\ run'[f[a]] = Queued(run[a].source, a, run[a].pin, run[a].attempts, FALSE)
  <2> SUFFICES ASSUME NEW a \in Abandoned
               PROVE  /\ f[a] \in RunIds /\ run[f[a]].state = "absent"
                      /\ run'[f[a]] = Queued(run[a].source, a, run[a].pin, run[a].attempts, FALSE)
    OBVIOUS
  <2>1. f[a] \in RunIds /\ run[f[a]].state = "absent" /\ f[a] \notin Abandoned
    BY <1>1, <1>2 DEF AbsentRuns
  <2>2. f[a] \in Range(f)
    BY <1>1 DEF Range
  <2>3. (CHOOSE b \in Abandoned : f[b] = f[a]) = a
    BY <1>1
  <2> QED
    BY <2>1, <2>2, <2>3
<1>6. \A a \in Abandoned : /\ run'[f[a]].state = "queued" /\ run'[f[a]].prev = a
                           /\ CarriesOn(run'[f[a]], run'[a])
  <2> SUFFICES ASSUME NEW a \in Abandoned
               PROVE  /\ run'[f[a]].state = "queued" /\ run'[f[a]].prev = a
                      /\ CarriesOn(run'[f[a]], run'[a])
    OBVIOUS
  <2>1. /\ run'[f[a]].state = "queued" /\ run'[f[a]].prev = a
        /\ run'[f[a]].source = run[a].source /\ run'[f[a]].pin = run[a].pin
        /\ run'[f[a]].attempts = run[a].attempts
    <3> DEFINE new == Queued(run[a].source, a, run[a].pin, run[a].attempts, FALSE)
    <3>1. /\ new.state = "queued" /\ new.prev = a /\ new.source = run[a].source
          /\ new.pin = run[a].pin /\ new.attempts = run[a].attempts
      BY DEF Queued, Absent
    <3>2. run'[f[a]] = new
      BY <1>5
    <3> QED
      BY <3>1, <3>2
  <2>2. /\ run'[f[a]].source = run'[a].source /\ run'[f[a]].pin = run'[a].pin
        /\ run'[f[a]].attempts = run'[a].attempts /\ run'[a].attempts \in Nat
    BY <1>3, <2>1
  <2>3. CarriesOn(run'[f[a]], run'[a])
    BY ZenonT(30), <2>2, SameCarriesOn
  <2> QED
    BY <2>1, <2>3
<1>7. \A r \in RunIds : r \in Abandoned \/ (\E a \in Abandoned : r = f[a]) \/ Alone(r)
  <2> SUFFICES ASSUME NEW r \in RunIds, r \notin Abandoned, \A a \in Abandoned : r # f[a]
               PROVE  Alone(r)
    OBVIOUS
  <2>1. r \notin Range(f)
    BY <1>1 DEF Range
  <2>2. run'[r] = run[r]
    BY <2>1
  <2> QED
    BY <2>2 DEF Alone
<1>8. Retries(Abandoned, f)
  BY <1>1, <1>2, <1>3, <1>4, <1>5, <1>6, <1>7 DEF Retries
<1> QED
  BY <1>8

\* A failure report: with and without a retry.
LEMMA FailMoves ==
    ASSUME IInv, NEW t \in Ticks, NEW s \in Sources, Fail(t, s)
    PROVE  RowsMove
<1> DEFINE r == job[t][s].run
           cancelled == Aborted(t, s)
           state == IF cancelled THEN "cancelled" ELSE "failed"
           retryable == /\ ~cancelled
                        /\ job[t][s].attempts + 1 < MaxAttempts
                        /\ job[t][s].outcome = "retryable"
           row == [run[r] EXCEPT !.state = state, !.retryable = retryable]
<1>1. r \in RunIds /\ run[r].source = s /\ run[r].state = "running"
  BY DEF Fail, Recordable, IInv, JobsHaveRuns
<1>2. run \in [RunIds -> Run] /\ run[r] \in Run
  BY <1>1 DEF IInv, TypeOK
<1>3. IF retryable
      THEN \E n \in AbsentRuns :
              run' = [[run EXCEPT ![r] = row] EXCEPT ![n] =
                         Queued(s, r, run[r].pin, run[r].attempts, FALSE)]
      ELSE run' = [run EXCEPT ![r] = row]
  BY DEF Fail
<1>4. CASE ~retryable
  <2>1. retryable = FALSE
    BY <1>4
  <2>2. run' = [run EXCEPT ![r] = [run[r] EXCEPT !.state = state, !.retryable = FALSE]]
    BY <1>3, <2>1
  <2>3. state \in Terminal /\ state # "succeeded"
    BY DEF Terminal
  <2> QED
    BY <1>1, <2>2, <2>3, EndedMoves DEF RowsMove
<1>5. CASE retryable
  <2>1. state = "failed" /\ retryable = TRUE
    BY <1>5
  <2>2. PICK n \in AbsentRuns :
           run' = [[run EXCEPT ![r] = row] EXCEPT ![n] =
                      Queued(s, r, run[r].pin, run[r].attempts, FALSE)]
    BY <1>3, <1>5
  <2>3. n \in RunIds /\ run[n].state = "absent" /\ n # r
    BY <1>1, <2>2 DEF AbsentRuns
  <2>4. /\ run'[r] = [run[r] EXCEPT !.state = "failed", !.retryable = TRUE]
        /\ run'[n] = Queued(s, r, run[r].pin, run[r].attempts, FALSE)
        /\ \A q \in RunIds : q \notin {r, n} => run'[q] = run[q]
    BY <1>1, <1>2, <2>1, <2>2, <2>3
  <2> HIDE DEF r, row, state, retryable, cancelled
  <2>5. /\ run'[r].state = "failed" /\ run'[r].prev = run[r].prev
        /\ run'[r].source = run[r].source /\ run'[r].pin = run[r].pin
        /\ run'[r].attempts = run[r].attempts /\ run[r].attempts \in Nat
    BY <1>2, <2>4, FailedRow
  <2>6. CarriesOn(run'[r], run[r])
    BY <2>5, SameCarriesOn
  <2>7. /\ run'[n].state = "queued" /\ run'[n].prev = r /\ run'[n].source = s
        /\ run'[n].pin = run[r].pin /\ run'[n].attempts = run[r].attempts
    BY <2>4 DEF Queued, Absent
  <2>8. CarriesOn(run'[n], run'[r])
    BY <1>1, <2>5, <2>7, SameCarriesOn
  <2>9. \A q \in RunIds : q \notin {r, n} => Alone(q)
    BY <2>4 DEF Alone
  <2> DEFINE next == [a \in {r} |-> n]
  <2>10. next[r] = n
    OBVIOUS
  <2> HIDE DEF next
  <2>11. run[r].state \in Active
    BY <1>1 DEF Active
  <2>12. Retries({r}, next)
    BY <1>1, <2>3, <2>5, <2>6, <2>7, <2>8, <2>9, <2>10, <2>11 DEF Retries
  <2> QED
    BY <2>12 DEF RowsMove
<1> QED
  BY <1>4, <1>5

\* Every step of the system moves the rows in one of these ways.
LEMMA NextRowsMove == IInv /\ [Next]_vars => RowsMove
<1> SUFFICES ASSUME IInv, [Next]_vars PROVE RowsMove
  OBVIOUS
<1> USE DEF rows
<1>1. ASSUME UNCHANGED run PROVE RowsMove
  BY <1>1 DEF RowsMove, Alone
<1>2. CASE UNCHANGED vars
  BY <1>1, <1>2 DEF vars
<1>3. ASSUME NEW t \in Ticks, TickStep(t) PROVE RowsMove
  <2>1. CASE Recover(t)
    BY <2>1, RecoverMoves DEF RowsMove
  <2>2. CASE EnqueueDue(t)
    BY <2>2, EnqueueMoves DEF RowsMove
  <2>3. CASE TickThrows(t) \/ ClaimRuns(t) \/ TickDone(t)
    BY <1>1, <2>3 DEF TickThrows, ClaimRuns, TickDone
  <2> QED
    BY <1>3, <2>1, <2>2, <2>3 DEF TickStep
<1>4. ASSUME NEW t \in Ticks, Breaks(t) PROVE RowsMove
  <2>1. CASE DiscoveryThrows(t) \/ Abort(t) \/ Crash(t)
    BY <1>1, <2>1 DEF DiscoveryThrows, Abort, Crash
  <2>2. ASSUME NEW s \in Sources, CallFails(t, s) PROVE RowsMove
    BY <1>1, <2>2 DEF CallFails
  <2>3. ASSUME NEW s \in Sources, ReplyLost(t, s) PROVE RowsMove
    <3>1. CASE UNCHANGED run
      BY <1>1, <3>1
    <3>2. CASE job[t][s].pc = "acquired" /\ Startable(t, s) /\ Started(t, s)
      BY <3>2, StartedMoves DEF RowsMove
    <3>3. CASE job[t][s].pc = "published" /\ Completion(t, s)
      BY <3>3, CompletionMoves DEF RowsMove
    <3> QED
      BY <2>3, <3>1, <3>2, <3>3 DEF ReplyLost
  <2> QED
    BY <1>4, <2>1, <2>2, <2>3 DEF Breaks
<1>5. ASSUME NEW t \in Ticks, NEW s \in Sources, JobStep(t, s) PROVE RowsMove
  <2>1. CASE AcquireLease(t, s) \/ SkipRun(t, s) \/ MarkRefused(t, s) \/ ReadUpstream(t, s)
    BY <1>1, <2>1 DEF AcquireLease, SkipRun, MarkRefused, ReadUpstream
  <2>2. CASE Publish(t, s) \/ Throw(t, s) \/ CompleteThrows(t, s) \/ NotRecorded(t, s)
             \/ ReleaseLease(t, s)
    BY <1>1, <2>2 DEF Publish, Throw, CompleteThrows, NotRecorded, ReleaseLease
  <2>3. CASE MarkRunning(t, s)
    BY <2>3, StartedMoves DEF MarkRunning, RowsMove
  <2>4. CASE Complete(t, s)
    BY <2>4, CompletionMoves DEF Complete, RowsMove
  <2>5. CASE Fail(t, s)
    BY <2>5, FailMoves
  <2>6. CASE Quarantine(t, s)
    BY <2>6, QuarantineMoves DEF RowsMove
  <2> QED
    BY <1>5, <2>1, <2>2, <2>3, <2>4, <2>5, <2>6 DEF JobStep
<1>6. ASSUME NEW t \in Ticks, NEW s \in Sources, HeartbeatRenews(t, s) \/ HeartbeatFails(t, s)
      PROVE  RowsMove
  BY <1>1, <1>6 DEF HeartbeatRenews, HeartbeatFails
<1>7. ASSUME NEW s \in Sources, Environment(s) PROVE RowsMove
  <2>1. CASE AdminSync(s)
    BY <2>1, RequestMoves DEF AdminSync, RowsMove
  <2>2. CASE AdminVerify(s)
    BY <2>2, RequestMoves DEF AdminVerify, RowsMove
  <2>3. CASE LeaseExpires(s) \/ BecomesDue(s) \/ Push(s) \/ BootstrapRead(s) \/ BootstrapEnds(s)
    BY <1>1, <2>3 DEF LeaseExpires, BecomesDue, Push, BootstrapRead, BootstrapEnds
  <2> QED
    BY <1>7, <2>1, <2>2, <2>3 DEF Environment
<1>8. ASSUME NEW r \in RunIds, BecomesReady(r) PROVE RowsMove
  BY <1>8, ReadyMoves DEF RowsMove
<1> QED
  BY <1>2, <1>3, <1>4, <1>5, <1>6, <1>7, <1>8 DEF Next

-----------------------------------------------------------------------------
(***************************************************************************)
(* The first report decides.                                               *)
(***************************************************************************)

\* A run that ended keeps its result: whichever of a recovery, a late completion
\* and a failure report comes first, the others find a run that is not running.
THEOREM ResultIsAlwaysFinal == Spec => ResultIsFinal
<1>1. IInv /\ [Next]_vars =>
         [\A r \in RunIds : run[r].state \in Terminal => run'[r] = run[r]]_vars
  <2> SUFFICES ASSUME IInv, [Next]_vars, NEW r \in RunIds, run[r].state \in Terminal
               PROVE  run'[r] = run[r]
    OBVIOUS
  <2>1. run[r].state \notin Active /\ run[r].state # "absent"
    BY DEF Terminal, Active
  <2>2. CASE Alone(r)
    BY <2>1, <2>2 DEF Alone
  <2>3. CASE \E A, next : Retries(A, next)
    BY <2>1, <2>2, <2>3 DEF Retries
  <2> QED
    BY <2>2, <2>3, NextRowsMove DEF RowsMove
<1> QED
  BY <1>1, Invariance, PTL DEF Spec, ResultIsFinal

-----------------------------------------------------------------------------
(***************************************************************************)
(* Every retryable failure has one retry.                                  *)
(***************************************************************************)

\* Only a run that has ended is named as the origin of another, so a run that
\* comes to be retried has no successor yet; and a free row names none.
OriginsHaveEnded ==
    \A q \in RunIds :
        /\ run[q].state = "absent" => run[q].prev = 0
        /\ run[q].prev # 0 => run[run[q].prev].state \in Terminal

\* n is the one row that names r as its origin, and carries r on.
IsRetryOf(n, r) ==
    /\ n \in RunIds
    /\ \A q \in RunIds : run[q].prev = r <=> q = n
    /\ CarriesOn(run[n], run[r])

RetriesExist ==
    \A r \in RunIds : run[r].state = "failed" /\ run[r].retryable =>
        \E n \in RunIds : IsRetryOf(n, r)

LEMMA RetriesAreQueued == RetriesExist => RetryIsQueuedOnce
<1> SUFFICES ASSUME RetriesExist, NEW r \in RunIds,
                    run[r].state = "failed", run[r].retryable
             PROVE  \E n \in RunIds :
                        /\ {q \in RunIds : run[q].prev = r} = {n}
                        /\ run[n].source = run[r].source
                        /\ run[n].pin = run[r].pin
                        /\ run[n].attempts >= run[r].attempts
  BY DEF RetryIsQueuedOnce
<1>1. PICK n \in RunIds : IsRetryOf(n, r)
  BY DEF RetriesExist
<1>2. {q \in RunIds : run[q].prev = r} = {n}
  BY <1>1 DEF IsRetryOf
<1> QED
  BY <1>1, <1>2 DEF IsRetryOf, CarriesOn

LEMMA RetriesInit == Init => OriginsHaveEnded /\ RetriesExist
<1> SUFFICES ASSUME Init PROVE OriginsHaveEnded /\ RetriesExist
  OBVIOUS
<1>1. \A r \in RunIds : run[r].state = "absent" /\ run[r].prev = 0
  BY DEF Init, Absent
<1> QED
  BY <1>1 DEF OriginsHaveEnded, RetriesExist

\* A row keeps its origin, and one that is new names a run that ends in the step.
LEMMA OriginsKept ==
    ASSUME RowsMove, OriginsHaveEnded, NEW q \in RunIds
    PROVE  \/ run'[q].prev = run[q].prev
           \/ /\ run[q].state = "absent" /\ run[q].prev = 0
              /\ \/ run'[q].prev = 0
                 \/ \E A, next : Retries(A, next) /\ run'[q].prev \in A /\ q = next[run'[q].prev]
<1>1. run[q].state = "absent" => run[q].prev = 0
  BY DEF OriginsHaveEnded
<1>2. CASE Alone(q)
  BY <1>1, <1>2 DEF Alone
<1>3. CASE ~Alone(q)
  <2>1. PICK A, next : Retries(A, next)
    BY <1>3 DEF RowsMove
  <2>2. CASE q \in A
    BY <2>1, <2>2 DEF Retries
  <2>3. CASE q \notin A
    <3>1. PICK a \in A : q = next[a]
      BY <1>3, <2>1, <2>3 DEF Retries
    <3>2. run[q].state = "absent" /\ run'[q].prev = a
      BY <2>1, <3>1 DEF Retries
    <3> QED
      BY <1>1, <2>1, <3>1, <3>2
  <2> QED
    BY <2>2, <2>3
<1> QED
  BY <1>2, <1>3

LEMMA OriginsInv ==
    ASSUME IInv, IInv', RowsMove, OriginsHaveEnded
    PROVE  OriginsHaveEnded'
<1> SUFFICES ASSUME NEW q \in RunIds
             PROVE  /\ run'[q].state = "absent" => run'[q].prev = 0
                    /\ run'[q].prev # 0 => run'[run'[q].prev].state \in Terminal
  BY DEF OriginsHaveEnded
<1>1. run[q].prev \in RunIds \cup {0} /\ run'[q].prev \in RunIds \cup {0}
  BY DEF IInv, TypeOK, Run
<1>2. run'[q].state = "absent" => run'[q] = run[q]
  <2>1. CASE Alone(q)
    BY <2>1 DEF Alone, Active
  <2>2. CASE ~Alone(q)
    BY <2>2 DEF RowsMove, Retries
  <2> QED
    BY <2>1, <2>2
<1>3. \A r \in RunIds : run[r].state \in Terminal => run'[r].state \in Terminal
  <2> SUFFICES ASSUME NEW r \in RunIds, run[r].state \in Terminal
               PROVE  run'[r].state \in Terminal
    OBVIOUS
  <2>1. run[r].state \notin Active /\ run[r].state # "absent"
    BY DEF Terminal, Active
  <2>2. CASE Alone(r)
    BY <2>1, <2>2 DEF Alone
  <2>3. CASE ~Alone(r)
    BY <2>1, <2>3 DEF RowsMove, Retries
  <2> QED
    BY <2>2, <2>3
<1>4. CASE run'[q].prev = run[q].prev
  BY <1>1, <1>2, <1>3, <1>4 DEF OriginsHaveEnded
<1>5. CASE \E A, next : Retries(A, next) /\ run'[q].prev \in A /\ q = next[run'[q].prev]
  <2>1. run'[run'[q].prev].state = "failed"
    BY <1>5 DEF Retries
  <2> QED
    BY <1>2, <2>1 DEF OriginsHaveEnded, Terminal
<1>6. CASE run'[q].prev = 0
  BY <1>6
<1> QED
  BY <1>4, <1>5, <1>6, OriginsKept

\* A row that is retried already stays so.
LEMMA RetryKept ==
    ASSUME IInv, IInv', RowsMove, OriginsHaveEnded,
           NEW r \in RunIds, run'[r] = run[r], run[r].state \in Terminal,
           NEW n \in RunIds, IsRetryOf(n, r)
    PROVE  IsRetryOf(n, r)'
<1>1. r # 0 /\ run[n].prev = r
  BY SizesAssumption DEF IsRetryOf, RunIds
<1>2. \A A, next : Retries(A, next) => r \notin A
  BY DEF Retries, Active, Terminal
<1>3. \A q \in RunIds : run'[q].prev = r <=> run[q].prev = r
  BY <1>1, <1>2, OriginsKept
<1>4. CarriesOn(run'[n], run[n])
  <2>1. run[n].state # "absent"
    BY <1>1 DEF OriginsHaveEnded
  <2>2. run[n].attempts \in Nat
    BY DEF IInv, TypeOK, Run
  <2>3. CASE Alone(n)
    BY <2>1, <2>2, <2>3, SameCarriesOn DEF Alone
  <2>4. CASE ~Alone(n)
    BY <2>1, <2>4 DEF RowsMove, Retries
  <2> QED
    BY <2>3, <2>4
<1>5. run[n].attempts \in Nat /\ run'[n].attempts \in Nat /\ run[r].attempts \in Nat
  BY DEF IInv, TypeOK, Run
<1>6. CarriesOn(run'[n], run'[r])
  BY <1>4, <1>5 DEF CarriesOn, IsRetryOf
<1> QED
  BY <1>3, <1>6 DEF IsRetryOf

\* A row that the step retries had no successor, and has one now.
LEMMA RetryAdded ==
    ASSUME IInv, IInv', RowsMove, OriginsHaveEnded,
           NEW A, NEW next, Retries(A, next), NEW r \in A
    PROVE  \E n \in RunIds : IsRetryOf(n, r)'
<1> DEFINE n == next[r]
<1>1. /\ r \in RunIds /\ run[r].state \in Active /\ n \in RunIds
      /\ run'[n].prev = r /\ CarriesOn(run'[n], run'[r])
  BY DEF Retries
<1>2. r # 0
  BY <1>1, SizesAssumption DEF RunIds
<1>3. \A q \in RunIds : run[q].prev # r
  BY <1>1, <1>2 DEF OriginsHaveEnded, Active, Terminal
<1>4. \A q \in RunIds : run'[q].prev = r => q = n
  <2> SUFFICES ASSUME NEW q \in RunIds, run'[q].prev = r PROVE q = n
    OBVIOUS
  <2>1. ~Alone(q)
    BY <1>2, <1>3 DEF Alone
  <2>2. q \notin A
    BY <1>3 DEF Retries
  <2>3. PICK a \in A : q = next[a]
    BY <2>1, <2>2 DEF Retries
  <2>4. run'[q].prev = a
    BY <2>3 DEF Retries
  <2> QED
    BY <2>3, <2>4
<1> HIDE DEF n
<1>5. IsRetryOf(n, r)'
  BY <1>1, <1>4 DEF IsRetryOf
<1> QED
  BY <1>1, <1>5

LEMMA RetriesInv ==
    ASSUME IInv, IInv', RowsMove, OriginsHaveEnded, RetriesExist
    PROVE  RetriesExist'
<1> SUFFICES ASSUME NEW r \in RunIds, run'[r].state = "failed", run'[r].retryable
             PROVE  \E n \in RunIds : IsRetryOf(n, r)'
  BY DEF RetriesExist
<1>1. CASE Alone(r)
  <2>1. run'[r] = run[r]
    BY <1>1 DEF Alone
  <2>2. run[r].state \in Terminal
    BY <2>1 DEF Terminal
  <2>3. PICK n \in RunIds : IsRetryOf(n, r)
    BY <2>1 DEF RetriesExist
  <2> QED
    BY <2>1, <2>2, <2>3, RetryKept
<1>2. CASE ~Alone(r)
  <2>1. PICK A, next : Retries(A, next)
    BY <1>2 DEF RowsMove
  <2>2. r \in A
    BY <1>2, <2>1 DEF Retries
  <2> QED
    BY <2>1, <2>2, RetryAdded
<1> QED
  BY <1>1, <1>2

\* A failure marked retryable has exactly one successor, which carries it on,
\* whichever of failSyncRun and recoverAbandonedJobs ended it.
THEOREM RetryIsAlwaysQueuedOnce == Spec => []RetryIsQueuedOnce
<1> DEFINE Inv == IInv /\ OriginsHaveEnded /\ RetriesExist
<1>1. Init => Inv
  BY InvInit, RetriesInit
<1>2. Inv /\ [Next]_vars => Inv'
  BY InvNext, NextRowsMove, OriginsInv, RetriesInv
<1>3. Inv => RetryIsQueuedOnce
  BY RetriesAreQueued
<1> QED
  BY <1>1, <1>2, <1>3, PTL DEF Spec

-----------------------------------------------------------------------------
(***************************************************************************)
(* A success has moved the head last.                                      *)
(***************************************************************************)

\* As long as a job that has published holds its lease, the head is its own.
PublishedMoved ==
    \A t \in Ticks, s \in Sources :
        job[t][s].pc = "published" /\ HoldsLease(t, s) => fence[s] = job[t][s].token

\* A lease row names a new acquisition, or the same one for no longer than before.
LeaseMoves(s) ==
    \/ lease'[s].token = lease[s].token + 1
    \/ /\ lease'[s].holder = lease[s].holder
       /\ lease'[s].token = lease[s].token
       /\ lease'[s].live => lease[s].live

LEMMA LeaseRowsMove ==
    ASSUME IInv, NEW s \in Sources, NEW k \in Sources, NEW t \in Ticks, NEW n \in Nat,
           \/ UNCHANGED lease
           \/ L!Acquire(s, t)
           \/ L!Renew(s, t, n)
           \/ L!Release(s, t, n)
           \/ L!Expire(s)
    PROVE  LeaseMoves(k)
<1>1. lease \in [Sources -> L!LeaseRow]
  BY DEF IInv, TypeOK, L!LeaseTypeOK
<1>2. CASE UNCHANGED lease
  BY <1>2 DEF LeaseMoves
<1>3. CASE L!Acquire(s, t)
  BY <1>1, <1>3 DEF LeaseMoves, L!Acquire, L!LeaseRow
<1>4. CASE L!Renew(s, t, n)
  BY <1>1, <1>4 DEF LeaseMoves, L!Renew, L!Held, L!LeaseRow
<1>5. CASE L!Release(s, t, n)
  BY <1>1, <1>5 DEF LeaseMoves, L!Release, L!LeaseRow
<1>6. CASE L!Expire(s)
  BY <1>1, <1>6 DEF LeaseMoves, L!Expire, L!LeaseRow
<1> QED
  BY <1>2, <1>3, <1>4, <1>5, <1>6

\* A job that has published under a step had published before, or does so now.
JobMoves(t, s) ==
    job'[t][s].pc = "published" =>
        /\ job'[t][s].token = job[t][s].token
        /\ \/ job[t][s].pc = "published"
           \/ job[t][s].pc = "read" /\ Publication(t, s) /\ UNCHANGED lease

\* Every step of the system moves the lease rows and the jobs in these ways.
LEMMA NextLeasesMove == ASSUME IInv, [Next]_vars, NEW k \in Sources PROVE LeaseMoves(k)
<1> SUFFICES ASSUME ~LeaseMoves(k) PROVE FALSE
  OBVIOUS
<1>1. lease' # lease
  BY LeaseRowsMove DEF LeaseMoves
<1>2. \A t \in Ticks, s \in Sources : job[t][s].token \in Nat
  BY DEF IInv, TypeOK, Job
<1>3. ASSUME NEW t \in Ticks, NEW s \in Sources, NEW n \in Nat,
             L!Acquire(s, t) \/ L!Renew(s, t, n) \/ L!Release(s, t, n)
      PROVE  FALSE
  BY <1>3, LeaseRowsMove
<1>4. ASSUME NEW s \in Sources, L!Expire(s) PROVE FALSE
  BY <1>4 DEF LeaseMoves, L!Expire, IInv, TypeOK, L!LeaseTypeOK, L!LeaseRow
<1>5. ASSUME NEW t \in Ticks, TickStep(t) PROVE FALSE
  BY <1>1, <1>5 DEF TickStep, Recover, TickThrows, EnqueueDue, ClaimRuns, TickDone
<1>6. ASSUME NEW t \in Ticks, Breaks(t) PROVE FALSE
  BY <1>1, <1>3, <1>6, 0 \in Nat DEF Breaks, DiscoveryThrows, Abort, Crash, CallFails, ReplyLost
<1>7. ASSUME NEW t \in Ticks, NEW s \in Sources, JobStep(t, s) PROVE FALSE
  <2>1. CASE AcquireLease(t, s)
    BY <1>3, <2>1, 0 \in Nat DEF AcquireLease
  <2>2. CASE ReleaseLease(t, s)
    BY <1>2, <1>3, <2>2 DEF ReleaseLease
  <2>3. CASE SkipRun(t, s) \/ MarkRunning(t, s) \/ MarkRefused(t, s) \/ ReadUpstream(t, s)
             \/ Publish(t, s) \/ Throw(t, s) \/ Complete(t, s) \/ CompleteThrows(t, s)
             \/ Fail(t, s) \/ Quarantine(t, s) \/ NotRecorded(t, s)
    BY <1>1, <2>3 DEF SkipRun, MarkRunning, MarkRefused, ReadUpstream, Publish, Throw,
                      Complete, CompleteThrows, Fail, Quarantine, NotRecorded
  <2> QED
    BY <1>7, <2>1, <2>2, <2>3 DEF JobStep
<1>8. ASSUME NEW t \in Ticks, NEW s \in Sources, HeartbeatRenews(t, s) \/ HeartbeatFails(t, s)
      PROVE  FALSE
  BY <1>1, <1>2, <1>3, <1>8 DEF HeartbeatRenews, HeartbeatFails
<1>9. ASSUME NEW s \in Sources, Environment(s) PROVE FALSE
  BY <1>1, <1>4, <1>9 DEF Environment, LeaseExpires, BecomesDue, Push, AdminSync, AdminVerify,
                          Request, BootstrapRead, BootstrapEnds
<1>10. ASSUME NEW r \in RunIds, BecomesReady(r) PROVE FALSE
  BY <1>1, <1>10 DEF BecomesReady
<1> QED
  BY <1>1, <1>5, <1>6, <1>7, <1>8, <1>9, <1>10 DEF Next, vars

LEMMA NextJobsMove ==
    ASSUME IInv, [Next]_vars, NEW t \in Ticks, NEW s \in Sources
    PROVE  JobMoves(t, s)
<1> USE DEF Goto, Leave, ToCatch, NoJob
<1>1. job \in [Ticks -> [Sources -> Job]]
  BY DEF IInv, TypeOK
<1>2. ASSUME UNCHANGED job PROVE JobMoves(t, s)
  BY <1>2 DEF JobMoves
<1>3. ASSUME NEW u \in Ticks, NEW k \in Sources, NEW pc, Goto(u, k, pc), pc # "published"
      PROVE  JobMoves(t, s)
  <2>1. job'[u][k].pc = pc
    BY <1>1, <1>3 DEF Job
  <2>2. (t = u /\ s = k) \/ job'[t][s] = job[t][s]
    BY <1>1, <1>3
  <2> QED
    BY <1>3, <2>1, <2>2 DEF JobMoves
<1>3a. ASSUME NEW u \in Ticks, NEW k \in Sources, NEW e, ToCatch(u, k, e)
      PROVE  JobMoves(t, s)
  <2>1. job'[u][k].pc = "failing"
    BY <1>1, <1>3a DEF Job
  <2>2. (t = u /\ s = k) \/ job'[t][s] = job[t][s]
    BY <1>1, <1>3a
  <2> QED
    BY <2>1, <2>2 DEF JobMoves
<1>4. ASSUME NEW u \in Ticks, NEW k \in Sources, Leave(u, k) PROVE JobMoves(t, s)
  <2>1. job'[u][k].pc = "none"
    BY <1>1, <1>4
  <2>2. (t = u /\ s = k) \/ job'[t][s] = job[t][s]
    BY <1>1, <1>4
  <2> QED
    BY <2>1, <2>2 DEF JobMoves
<1>5. ASSUME NEW u \in Ticks, TickStep(u) PROVE JobMoves(t, s)
  <2>1. CASE ClaimRuns(u)
    <3>1. \A k \in Sources : job'[u][k].pc # "published"
      <4> SUFFICES ASSUME NEW k \in Sources PROVE job'[u][k].pc # "published"
        OBVIOUS
      <4>1. PICK C : job' = [job EXCEPT ![u] = [x \in Sources |->
                     IF \E r \in C : run[r].source = x
                     THEN LET r == CHOOSE q \in C : run[q].source = x
                          IN  [NoJob EXCEPT !.pc = "claimed", !.run = r,
                                            !.attempts = run[r].attempts]
                     ELSE NoJob]]
        BY <2>1 DEF ClaimRuns
      <4> DEFINE r == CHOOSE q \in C : run[q].source = k
                 claim == [NoJob EXCEPT !.pc = "claimed", !.run = r,
                                        !.attempts = run[r].attempts]
      <4>2. job'[u][k] \in {NoJob, claim}
        BY <1>1, <4>1
      <4>3. NoJob.pc = "none" /\ claim.pc = "claimed"
        OBVIOUS
      <4> QED
        BY <4>2, <4>3
    <3>2. t # u => job'[t] = job[t]
      BY <1>1, <2>1 DEF ClaimRuns
    <3> QED
      BY <3>1, <3>2 DEF JobMoves
  <2>2. CASE Recover(u) \/ TickThrows(u) \/ EnqueueDue(u) \/ TickDone(u)
    BY <1>2, <2>2 DEF Recover, TickThrows, EnqueueDue, TickDone
  <2> QED
    BY <1>5, <2>1, <2>2 DEF TickStep
<1>6. ASSUME NEW u \in Ticks, Breaks(u) PROVE JobMoves(t, s)
  <2>1. CASE DiscoveryThrows(u) \/ Abort(u)
    BY <1>2, <2>1 DEF DiscoveryThrows, Abort
  <2>2. CASE Crash(u)
    BY <1>1, <2>2 DEF Crash, JobMoves
  <2>3. ASSUME NEW k \in Sources, CallFails(u, k) PROVE JobMoves(t, s)
    <3> HIDE DEF Goto, Leave, ToCatch
    <3> QED
      BY <1>3, <1>4, <1>3a, <2>3 DEF CallFails
  <2>4. ASSUME NEW k \in Sources, ReplyLost(u, k) PROVE JobMoves(t, s)
    <3> HIDE DEF Goto, Leave, ToCatch
    <3> QED
      BY <1>3, <1>4, <1>3a, <2>4 DEF ReplyLost
  <2> QED
    BY <1>6, <2>1, <2>2, <2>3, <2>4 DEF Breaks
<1>7. ASSUME NEW u \in Ticks, NEW k \in Sources, JobStep(u, k) PROVE JobMoves(t, s)
  <2>1. CASE AcquireLease(u, k)
    <3>1. job'[u][k].pc = "acquired"
      BY <1>1, <2>1 DEF AcquireLease, Job
    <3>2. (t = u /\ s = k) \/ job'[t][s] = job[t][s]
      BY <1>1, <2>1 DEF AcquireLease
    <3> QED
      BY <3>1, <3>2 DEF JobMoves
  <2>2. CASE SkipRun(u, k) \/ ReleaseLease(u, k)
    <3> HIDE DEF Leave
    <3> QED
      BY <1>4, <2>2 DEF SkipRun, ReleaseLease
  <2>3. CASE MarkRunning(u, k) \/ MarkRefused(u, k) \/ NotRecorded(u, k)
             \/ Complete(u, k) \/ Fail(u, k) \/ Quarantine(u, k)
    <3> HIDE DEF Goto
    <3>1. Goto(u, k, "running") \/ Goto(u, k, "releasing")
      BY <2>3 DEF MarkRunning, MarkRefused, NotRecorded, Complete, Fail, Quarantine
    <3> QED
      BY <1>3, <3>1
  <2>4. CASE ReadUpstream(u, k)
    <3>1. job'[u][k].pc = "read"
      BY <1>1, <2>4 DEF ReadUpstream, Job
    <3>2. (t = u /\ s = k) \/ job'[t][s] = job[t][s]
      BY <1>1, <2>4 DEF ReadUpstream
    <3> QED
      BY <3>1, <3>2 DEF JobMoves
  <2>5. CASE Throw(u, k) \/ CompleteThrows(u, k)
    <3> HIDE DEF ToCatch
    <3> QED
      BY <1>3a, <2>5 DEF Throw, CompleteThrows
  <2>6. CASE Publish(u, k)
    <3>1. PICK o : job' = [job EXCEPT ![u][k].pc = "published", ![u][k].outcome = o]
      BY <2>6 DEF Publish
    <3>2. CASE t = u /\ s = k
      <4>1. job'[t][s].token = job[t][s].token
        BY <1>1, <3>1, <3>2 DEF Job
      <4> QED
        BY <2>6, <3>2, <4>1 DEF Publish, JobMoves
    <3>3. CASE ~(t = u /\ s = k)
      BY <1>1, <3>1, <3>3 DEF JobMoves
    <3> QED
      BY <3>2, <3>3
  <2> QED
    BY <1>7, <2>1, <2>2, <2>3, <2>4, <2>5, <2>6 DEF JobStep
<1>8. ASSUME NEW u \in Ticks, NEW k \in Sources, HeartbeatRenews(u, k) PROVE JobMoves(t, s)
  BY <1>2, <1>8 DEF HeartbeatRenews
<1>9. ASSUME NEW u \in Ticks, NEW k \in Sources, HeartbeatFails(u, k) PROVE JobMoves(t, s)
  BY <1>1, <1>9 DEF HeartbeatFails, JobMoves, Job
<1>10. ASSUME NEW k \in Sources, Environment(k) PROVE JobMoves(t, s)
  BY <1>2, <1>10 DEF Environment, LeaseExpires, BecomesDue, Push, AdminSync, AdminVerify,
                     Request, BootstrapRead, BootstrapEnds
<1>11. ASSUME NEW r \in RunIds, BecomesReady(r) PROVE JobMoves(t, s)
  BY <1>2, <1>11 DEF BecomesReady
<1>12. CASE UNCHANGED vars
  BY <1>2, <1>12 DEF vars
<1> QED
  BY <1>5, <1>6, <1>7, <1>8, <1>9, <1>10, <1>11, <1>12 DEF Next

\* A publication is the publishing job's own move of the head, so it does not
\* disturb another job that still holds the lease of the source.
LEMMA PublishedMovedInv == IInv /\ PublishedMoved /\ [Next]_vars => PublishedMoved'
<1> SUFFICES ASSUME IInv, PublishedMoved, [Next]_vars, NEW t \in Ticks, NEW s \in Sources,
                    job'[t][s].pc = "published", HoldsLease(t, s)'
             PROVE  fence'[s] = job'[t][s].token
  BY DEF PublishedMoved
<1>1. LeaseMoves(s) /\ JobMoves(t, s)
  BY NextLeasesMove, NextJobsMove
<1>2. /\ job'[t][s].token = job[t][s].token
      /\ lease'[s].holder = t /\ lease'[s].token = job[t][s].token /\ lease'[s].live
      /\ job[t][s].token \in Nat /\ lease[s].token \in Nat
  BY <1>1 DEF JobMoves, HoldsLease, L!Held, L!Owns, IInv, TypeOK, Job,
              L!LeaseTypeOK, L!LeaseRow
<1>3. CASE job[t][s].pc = "read" /\ Publication(t, s)
  BY <1>2, <1>3 DEF Publication, IInv, TypeOK
<1>4. CASE job[t][s].pc = "published"
  <2>1. job[t][s].token <= lease[s].token
    BY <1>4 DEF IInv, TokensGrow, Working
  <2>2. HoldsLease(t, s)
    BY <1>1, <1>2, <2>1 DEF LeaseMoves, HoldsLease, L!Held, L!Owns
  <2>3. fence[s] = job[t][s].token
    BY <1>4, <2>2 DEF PublishedMoved
  <2>4. ASSUME NEW u \in Ticks, NEW k \in Sources, job[u][k].pc = "read", Publication(u, k)
        PROVE  fence'[s] = fence[s]
    <3>1. k # s
      BY <1>4, <2>2, <2>4 DEF Publication, HoldsLease, L!Held, L!Owns
    <3> QED
      BY <2>4, <3>1, PublicationMoves
  <2>5. fence'[s] = fence[s]
    BY <2>4, OnlyPublicationMoves
  <2> QED
    BY <1>2, <2>3, <2>5
<1> QED
  BY <1>1, <1>3, <1>4 DEF JobMoves

\* A run succeeds only as the last mover of the head: what completes it has
\* published under the lease that it still holds.
THEOREM SuccessIsAlwaysPublished == Spec => SuccessIsPublished
<1> DEFINE Inv == IInv /\ PublishedMoved
<1>1. Init => Inv
  <2>1. Init => PublishedMoved
    BY DEF Init, PublishedMoved, NoJob
  <2> QED
    BY <2>1, InvInit
<1>2. Inv /\ [Next]_vars => Inv'
  BY InvNext, PublishedMovedInv
<1>3. Inv /\ [Next]_vars =>
         [\A r \in RunIds :
             run[r].state = "running" /\ run'[r].state = "succeeded"
                 => fence[run[r].source] = run[r].token]_vars
  <2> SUFFICES ASSUME IInv, PublishedMoved, [Next]_vars, NEW r \in RunIds,
                      run[r].state = "running", run'[r].state = "succeeded"
               PROVE  fence[run[r].source] = run[r].token
    OBVIOUS
  <2>1. Alone(r)
    BY NextRowsMove DEF RowsMove, Retries
  <2>2. Completes(r)
    BY <2>1 DEF Alone
  <2>3. PICK t \in Ticks, s \in Sources :
           job[t][s].pc = "published" /\ job[t][s].run = r /\ Recordable(t, s)
    BY <2>2 DEF Completes
  <2>4. run[r].source = s /\ run[r].token = job[t][s].token /\ HoldsLease(t, s)
    BY <2>3 DEF Recordable, IInv, JobsHaveRuns
  <2> QED
    BY <2>3, <2>4 DEF PublishedMoved
<1> QED
  BY <1>1, <1>2, <1>3, PTL DEF Spec, SuccessIsPublished
=============================================================================
