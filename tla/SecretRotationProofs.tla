------------------------ MODULE SecretRotationProofs ------------------------
(***************************************************************************)
(* Proofs about SecretRotation, for any set of processes and of secrets    *)
(* and any number of faults.                                               *)
(***************************************************************************)
EXTENDS SecretRotation, TLAPS

(***************************************************************************)
(* The inductive invariant.                                                *)
(***************************************************************************)
Unlocked == {"idle", "previewing", "previewed"}
Early == Unlocked \cup {"begun", "check"}
Over == Early \cup {"catch"}

\* Which stages and flags go with a place.
PlaceOK(x) ==
    /\ x.pc \in Early => x.stage = "candidate" /\ ~x.owns /\ ~x.swapped
    /\ x.pc \in {"create", "write"} => x.stage = "candidate"
    /\ x.pc \in {"link", "rename", "sync", "unswap", "unlink"} => x.stage = "swap"
    /\ x.pc \in {"apply", "deploy"} =>
          x.stage \in {"candidate-readiness", "active-readiness", "rollback"}
    /\ x.pc \in {"write-set", "write-ownership"} => x.stage \in {"publication", "rollback"}
    /\ x.pc \in {"restore", "restoring", "discard", "compensate"} => x.stage = "rollback"
    /\ x.stage = "rollback" => x.pc \notin {"intend", "record", "unproven", "thrown"}
    /\ x.stage = "done" => x.pc \in {"intend", "catch"}
    /\ x.stage \in {"candidate", "candidate-readiness"} => ~x.swapped
    /\ x.pc \in {"link", "rename", "unlink"} => ~x.swapped
    /\ x.pc \in {"sync", "unswap", "restore", "restoring"} => x.swapped
    /\ x.stage = "swap" /\ x.pc = "intend" => ~x.swapped
    /\ x.stage = "swap" /\ x.pc = "record" => x.swapped
    /\ x.stage \in {"active-readiness", "publication", "done"} => x.swapped
    /\ x.stage = "rollback" /\ x.pc \notin {"restore", "restoring", "catch"} => ~x.swapped
    /\ x.stage = "candidate" /\ x.pc \in {"intend", "create"} => ~x.owns
    /\ x.stage = "candidate" /\ x.pc \in {"write", "record"} => x.owns

\* Where the new secret and the old one are, from the check to the last word.
FilesOK(x) ==
    /\ x.fresh \in used /\ x.old \in used /\ x.fresh # x.old
    /\ x.seen.others = ownership.others
    /\ x.stage = "candidate" => x.fresh # db /\ published = x.old
    /\ x.pc = "write" => file[Candidate(x.old)] = Torn
    /\ x.stage = "candidate" /\ x.owns /\ x.pc # "write" => file[Candidate(x.old)] = x.fresh
    /\ x.stage \in {"candidate-readiness", "swap"} /\ ~x.swapped =>
          file[Candidate(x.old)] = x.fresh
    /\ x.swapped /\ x.pc # "restoring" =>
          file[Current] = x.fresh /\ file[Candidate(x.old)] = Absent
    /\ x.stage = "rollback" => file[Candidate(x.old)] \in {Absent, x.fresh}
    /\ x.pc = "restoring" => file[Current] = Absent
    /\ x.pc = "rename" => file[Retained(x.old)] = file[Current]
    /\ x.pc = "unlink" => file[Current] = Absent \/ file[Retained(x.old)] = file[Current]

\* Which secret the database has been given.
ServiceOK(x) ==
    /\ x.stage = "candidate-readiness" /\ x.pc \in {"deploy", "record"} => db = x.fresh
    /\ x.stage = "swap" /\ x.pc \notin {"record", "unproven", "thrown"} => db = x.fresh
    /\ x.stage = "rollback" /\ x.pc \in {"deploy", "write-set", "write-ownership", "discard"} =>
          db = file[Current]
    /\ x.stage = "rollback" /\ x.pc \in {"write-ownership", "discard"} => published = x.old

ProcOK(x) == PlaceOK(x) /\ (x.pc \notin Over => FilesOK(x) /\ ServiceOK(x))

LockOK == \A p \in Procs : proc[p].pc \notin Unlocked <=> holder = p

ProcsOK == \A p \in Procs : ProcOK(proc[p])

UsedOK ==
    /\ db \in used /\ published \in used
    /\ \A q \in Paths : file[q] \in Secrets => file[q] \in used

IInv == TypeOK /\ LockOK /\ ProcsOK /\ UsedOK /\ DatabasePasswordIsKept

LEMMA PathFacts ==
    ASSUME NEW s \in Secrets
    PROVE  /\ Current \in Paths /\ Candidate(s) \in Paths /\ Retained(s) \in Paths
           /\ Current # Candidate(s) /\ Current # Retained(s) /\ Candidate(s) # Retained(s)
BY DEF Current, Candidate, Retained, Paths

\* A name whose content is not the secret may get another one.
LEMMA OverwriteKeeps ==
    ASSUME file \in [Paths -> Contents], NEW q \in Paths, NEW v,
           file' = [file EXCEPT ![q] = v], NEW s, OnDisk(s), file[q] # s
    PROVE  OnDisk(s)'
BY DEF OnDisk

\* A file may take the name of another one that is not the secret's.
LEMMA MoveKeeps ==
    ASSUME file \in [Paths -> Contents], NEW from \in Paths, NEW to \in Paths, from # to,
           Move(from, to), NEW s, OnDisk(s), file[to] # s
    PROVE  OnDisk(s)'
<1>1. PICK q \in Paths : file[q] = s
  BY DEF OnDisk
<1>2. CASE q = from
  BY <1>1, <1>2 DEF Move, OnDisk
<1>3. CASE q # from
  BY <1>1, <1>3 DEF Move, OnDisk
<1> QED
  BY <1>2, <1>3

LEMMA MoveFacts ==
    ASSUME file \in [Paths -> Contents], NEW from \in Paths, NEW to \in Paths, from # to,
           Move(from, to)
    PROVE  /\ file' \in [Paths -> Contents]
           /\ file'[to] = file[from] /\ file'[from] = Absent
           /\ \A q \in Paths : q # from /\ q # to => file'[q] = file[q]
BY DEF Move, Contents

LEMMA IdleType == ASSUME NEW s \in Secrets PROVE Idle(s) \in Process
BY DEF Idle, Process, Ownership, Pcs, Stages

\* A process that works under the lock, before and after its step.
LEMMA HeldStep ==
    ASSUME IInv, NEW p \in Procs, proc[p].pc \notin Unlocked,
           proc' \in [Procs -> Process],
           \A q \in Procs : q # p => proc'[q] = proc[q],
           ProcOK(proc[p])', proc'[p].pc \notin Unlocked,
           file' \in [Paths -> Contents], used' \subseteq Secrets, used \subseteq used',
           db' \in used', published' \in used',
           \A q \in Paths : file'[q] \in Secrets => file'[q] \in used',
           OnDisk(db)', app' \in Paths, ownership' \in Ownership, faults' \in Nat,
           UNCHANGED <<holder, interrupted, report>>
    PROVE  IInv'
<1>1. holder = p /\ TypeOK
  BY DEF IInv, LockOK
<1>2. TypeOK'
  BY <1>1 DEF TypeOK
<1>3. LockOK'
  BY <1>1 DEF IInv, LockOK
<1>4. ASSUME NEW q \in Procs PROVE ProcOK(proc[q])'
  <2>1. CASE q # p
    <3>1. proc'[q] = proc[q] /\ proc[q].pc \in Unlocked /\ ProcOK(proc[q])
      BY <1>1, <2>1 DEF IInv, LockOK, ProcsOK
    <3> QED
      BY <3>1 DEF ProcOK, PlaceOK, Over, Early
  <2> QED
    BY <2>1
<1> QED
  BY <1>2, <1>3, <1>4 DEF IInv, ProcsOK, UsedOK, DatabasePasswordIsKept

\* A step that changes nothing but the place of its process.
LEMMA QuietStep ==
    ASSUME IInv, NEW p \in Procs, proc[p].pc \notin Unlocked,
           proc' \in [Procs -> Process],
           \A q \in Procs : q # p => proc'[q] = proc[q],
           ProcOK(proc[p])', proc'[p].pc \notin Unlocked, faults' \in Nat,
           UNCHANGED <<file, used, service, records, outcome>>
    PROVE  IInv'
<1>1. UNCHANGED <<file, used, db, app, published, ownership, holder, interrupted, report>>
  BY DEF service, records, outcome
<1>2. OnDisk(db)'
  BY <1>1 DEF IInv, DatabasePasswordIsKept, OnDisk
<1> QED
  BY <1>1, <1>2, HeldStep DEF IInv, TypeOK, UsedOK

\* A step that ends a command, whatever it reports.
LEMMA EndStep ==
    ASSUME IInv, NEW p \in Procs, holder = p, NEW asks \in BOOLEAN,
           NEW r \in {"none", "success", "failed", "recovery-required"}, End(p, r, asks),
           UNCHANGED <<file, used, service, records>>, faults' \in Nat
    PROVE  IInv'
<1>1. UNCHANGED <<file, used, db, app, published, ownership>>
  BY DEF service, records
<1>2. proc \in [Procs -> Process] /\ proc[p].old \in Secrets
  BY DEF IInv, TypeOK, Process
<1>3. /\ proc' \in [Procs -> Process]
      /\ proc'[p] = Idle(proc[p].old) /\ \A q \in Procs : q # p => proc'[q] = proc[q]
  BY <1>2, IdleType DEF End, Reset
<1>4. TypeOK'
  BY <1>1, <1>3 DEF IInv, TypeOK, End
<1>5. \A q \in Procs : q # p => proc[q].pc \in Unlocked
  BY DEF IInv, LockOK
<1>6. proc'[p].pc \in Unlocked /\ ProcOK(proc[p])'
  BY <1>3 DEF Idle, Unlocked, ProcOK, PlaceOK, Over, Early
<1>7. LockOK'
  BY <1>3, <1>5, <1>6, NobodyAssumption DEF LockOK, End
<1>8. ASSUME NEW q \in Procs PROVE ProcOK(proc[q])'
  <2>1. CASE q = p
    BY <2>1, <1>3, <1>6
  <2>2. CASE q # p
    BY <2>2, <1>3, <1>5 DEF IInv, ProcsOK, ProcOK, PlaceOK, Over, Early
  <2> QED
    BY <2>1, <2>2
<1>9. UsedOK' /\ DatabasePasswordIsKept'
  BY <1>1 DEF IInv, UsedOK, DatabasePasswordIsKept, OnDisk
<1> QED
  BY <1>4, <1>7, <1>8, <1>9 DEF IInv, ProcsOK
LEMMA GotoFacts ==
    ASSUME IInv, NEW p \in Procs, NEW pc \in Pcs, Goto(p, pc)
    PROVE  /\ proc' \in [Procs -> Process]
           /\ \A q \in Procs : q # p => proc'[q] = proc[q]
           /\ proc'[p].pc = pc
           /\ proc'[p].stage = proc[p].stage /\ proc'[p].old = proc[p].old
           /\ proc'[p].seen = proc[p].seen /\ proc'[p].fresh = proc[p].fresh
           /\ proc'[p].owns = proc[p].owns /\ proc'[p].swapped = proc[p].swapped
<1>1. proc \in [Procs -> Process] /\ proc[p] \in Process
  BY DEF IInv, TypeOK
<1> QED
  BY <1>1 DEF Goto, Process

\* Of a process beyond the check.
LEMMA Working ==
    ASSUME IInv, NEW p \in Procs, proc[p].pc \notin Over
    PROVE  /\ holder = p /\ proc[p].pc \notin Unlocked
           /\ PlaceOK(proc[p]) /\ FilesOK(proc[p]) /\ ServiceOK(proc[p])
           /\ proc[p] \in Process /\ proc[p].old \in Secrets /\ proc[p].fresh \in Secrets
           /\ proc[p].seen \in Ownership /\ proc[p].stage \in Stages
           /\ file \in [Paths -> Contents] /\ faults \in Nat
           /\ Absent \notin Secrets /\ Torn \notin Secrets /\ Absent # Torn
<1>1. proc \in [Procs -> Process] /\ ProcOK(proc[p])
  BY DEF IInv, TypeOK, ProcsOK
<1> QED
  BY <1>1, ContentsAssumption DEF IInv, TypeOK, LockOK, ProcOK, Over, Early, Process

\* Steps of processes without the lock.
LEMMA UnlockedInv ==
    ASSUME IInv, NEW p \in Procs,
           ReadOwnership(p) \/ ReadSecretSet(p) \/ LockRefused(p) \/ ChangeOtherAsset(p)
    PROVE  IInv'
<1>1. proc \in [Procs -> Process] /\ proc[p] \in Process /\ ownership \in Ownership
  BY DEF IInv, TypeOK
<1>2. UNCHANGED <<file, used, db, app, published, holder, interrupted, report, faults>>
  BY DEF ReadOwnership, ReadSecretSet, LockRefused, ChangeOtherAsset, service, records, outcome
<1>3. ownership' \in Ownership /\ (ownership' = ownership \/ holder = None)
  BY <1>1 DEF ReadOwnership, ReadSecretSet, LockRefused, ChangeOtherAsset, records, Ownership
<1>4. /\ proc' \in [Procs -> Process]
      /\ proc[p].pc \in Unlocked /\ proc'[p].pc \in Unlocked /\ PlaceOK(proc'[p])
      /\ \A q \in Procs : q # p => proc'[q] = proc[q]
  <2>1. PlaceOK(proc[p])
    BY DEF IInv, ProcsOK, ProcOK
  <2>2. CASE ReadOwnership(p)
    BY <1>1, <2>1, <2>2 DEF ReadOwnership, Process, Pcs, Unlocked, PlaceOK, Early
  <2>3. CASE LockRefused(p)
    BY <1>1, <2>1, <2>3, IdleType
       DEF LockRefused, Reset, Process, Unlocked, PlaceOK, Early, Idle
  <2>4. CASE ChangeOtherAsset(p)
    BY <1>1, <2>1, <2>4 DEF ChangeOtherAsset, Unlocked, PlaceOK
  <2>5. CASE ReadSecretSet(p) /\ proc[p].seen.secret = published
    BY <1>1, <2>1, <2>5 DEF IInv, TypeOK, ReadSecretSet, Process, Pcs, Unlocked, PlaceOK, Early
  <2>6. CASE ReadSecretSet(p) /\ proc[p].seen.secret # published
    <3>1. proc' = [proc EXCEPT ![p] = Idle(proc[p].old)] /\ proc[p].pc = "previewing"
      BY <2>6 DEF ReadSecretSet, Reset
    <3>2. Idle(proc[p].old) \in Process
      BY <1>1, IdleType DEF Process
    <3> QED
      BY <1>1, <3>1, <3>2 DEF Unlocked, PlaceOK, Early, Idle
  <2> QED
    BY <2>2, <2>3, <2>4, <2>5, <2>6
<1>5. TypeOK'
  BY <1>2, <1>3, <1>4 DEF IInv, TypeOK
<1>6. LockOK'
  BY <1>2, <1>4 DEF IInv, LockOK
<1>7. ASSUME NEW q \in Procs PROVE ProcOK(proc[q])'
  <2>1. CASE q = p
    BY <1>4, <2>1 DEF ProcOK, PlaceOK, Over, Early
  <2>2. CASE q # p /\ proc[q].pc \in Unlocked
    BY <1>4, <2>2 DEF IInv, ProcsOK, ProcOK, PlaceOK, Over, Early
  <2>3. CASE q # p /\ proc[q].pc \notin Unlocked
    <3>1. ownership' = ownership /\ proc'[q] = proc[q] /\ ProcOK(proc[q])
      BY <1>3, <1>4, <2>3, NobodyAssumption DEF IInv, LockOK, ProcsOK
    <3> QED
      BY <1>2, <3>1 DEF ProcOK, PlaceOK, FilesOK, ServiceOK
  <2> QED
    BY <2>1, <2>2, <2>3
<1>8. UsedOK' /\ DatabasePasswordIsKept'
  BY <1>2 DEF IInv, UsedOK, DatabasePasswordIsKept, OnDisk
<1> QED
  BY <1>5, <1>6, <1>7, <1>8 DEF IInv, ProcsOK

LEMMA AcquireInv ==
    ASSUME IInv, NEW p \in Procs, AcquireOperation(p)
    PROVE  IInv'
<1>1. /\ Goto(p, "begun") /\ holder = None /\ holder' = p /\ report' = "none"
      /\ UNCHANGED <<file, used, db, app, published, ownership, interrupted, faults>>
  BY DEF AcquireOperation, service, records
<1>2. /\ proc' \in [Procs -> Process] /\ \A q \in Procs : q # p => proc'[q] = proc[q]
      /\ proc'[p].pc = "begun" /\ proc'[p].stage = proc[p].stage
      /\ proc'[p].owns = proc[p].owns /\ proc'[p].swapped = proc[p].swapped
  BY <1>1, GotoFacts DEF Pcs
<1>3. \A q \in Procs : proc[q].pc \in Unlocked /\ PlaceOK(proc[q])
  BY <1>1, NobodyAssumption DEF IInv, LockOK, ProcsOK, ProcOK
<1>4. TypeOK'
  BY <1>1, <1>2 DEF IInv, TypeOK
<1>5. LockOK'
  BY <1>1, <1>2, <1>3 DEF LockOK, Unlocked
<1>6. ASSUME NEW q \in Procs PROVE ProcOK(proc[q])'
  <2>1. CASE q = p
    BY <1>2, <1>3, <2>1 DEF ProcOK, PlaceOK, Over, Early, Unlocked
  <2>2. CASE q # p
    BY <1>2, <1>3, <2>2 DEF ProcOK, PlaceOK, Over, Early
  <2> QED
    BY <2>1, <2>2
<1>7. UsedOK' /\ DatabasePasswordIsKept'
  BY <1>1 DEF IInv, UsedOK, DatabasePasswordIsKept, OnDisk
<1> QED
  BY <1>4, <1>5, <1>6, <1>7 DEF IInv, ProcsOK

\* A step that only moves a process that has the lock.
LEMMA GotoInv ==
    ASSUME IInv, NEW p \in Procs, proc[p].pc \notin Unlocked, NEW pc \in Pcs, Goto(p, pc),
           UNCHANGED <<file, used, service, records, outcome>>, faults' \in Nat,
           pc \notin Unlocked, ProcOK([proc[p] EXCEPT !.pc = pc])
    PROVE  IInv'
<1>1. proc \in [Procs -> Process] /\ proc[p] \in Process
  BY DEF IInv, TypeOK
<1>2. PICK x \in Process : x = [proc[p] EXCEPT !.pc = pc]
  BY <1>1 DEF Process
<1>3. proc'[p] = x /\ ProcOK(x)
  BY <1>1, <1>2 DEF Goto
<1>4. UNCHANGED <<file, used, db, published, ownership>>
  BY DEF service, records
<1>5. ProcOK(proc[p])'
  BY <1>3, <1>4 DEF ProcOK, PlaceOK, FilesOK, ServiceOK
<1> QED
  BY <1>5, GotoFacts, QuietStep

LEMMA BeginInv ==
    ASSUME IInv, NEW p \in Procs, BeginRotation(p)
    PROVE  IInv'
<1>1. proc \in [Procs -> Process] /\ proc[p] \in Process /\ faults \in Nat /\ PlaceOK(proc[p])
  BY DEF IInv, TypeOK, ProcsOK, ProcOK
<1>2. ProcOK([proc[p] EXCEPT !.pc = "check"])
  BY <1>1 DEF BeginRotation, ProcOK, PlaceOK, Process, Over, Early, Unlocked
<1> QED
  BY <1>1, <1>2, GotoInv DEF BeginRotation, Pcs, Unlocked

\* The check: what was read before the lock is what is there.
LEMMA CheckInv ==
    ASSUME IInv, NEW p \in Procs, CheckState(p)
    PROVE  IInv'
<1>1. /\ proc \in [Procs -> Process] /\ proc[p] \in Process /\ faults \in Nat
      /\ PlaceOK(proc[p]) /\ proc[p].pc = "check" /\ proc[p].old \in Secrets
      /\ UNCHANGED <<file, service, records, outcome, faults>>
  BY DEF IInv, TypeOK, ProcsOK, ProcOK, CheckState, Process
<1>2. CASE Goto(p, "catch") /\ UNCHANGED used
  <2>1. ProcOK([proc[p] EXCEPT !.pc = "catch"])
    BY <1>1 DEF ProcOK, PlaceOK, Process, Over, Early, Unlocked
  <2> QED
    BY <1>1, <1>2, <2>1, GotoInv DEF Pcs, Unlocked
<1>3. CASE ~(Goto(p, "catch") /\ UNCHANGED used)
  <2>1. PICK s \in Secrets \ used :
           /\ used' = used \cup {s}
           /\ proc' = [proc EXCEPT ![p].pc = "intend", ![p].fresh = s]
    BY <1>3 DEF CheckState
  <2>2. ownership = proc[p].seen /\ published = proc[p].old
    BY <1>3 DEF CheckState, Unchanged
  <2>3. /\ proc' \in [Procs -> Process] /\ \A q \in Procs : q # p => proc'[q] = proc[q]
        /\ proc'[p].pc = "intend" /\ proc'[p].fresh = s /\ proc'[p].stage = proc[p].stage
        /\ proc'[p].old = proc[p].old /\ proc'[p].seen = proc[p].seen
        /\ proc'[p].owns = proc[p].owns /\ proc'[p].swapped = proc[p].swapped
    BY <1>1, <2>1 DEF Process, Pcs
  <2>4. /\ UNCHANGED <<file, db, app, published, ownership, holder, interrupted, report>>
        /\ db \in used /\ published \in used /\ s \notin used /\ s \in used'
    BY <1>1, <2>1 DEF service, records, outcome, IInv, UsedOK
  <2>5. PlaceOK(proc[p])'
    BY <1>1, <2>3 DEF PlaceOK, Early
  <2>6. FilesOK(proc[p])'
    BY <1>1, <2>1, <2>2, <2>3, <2>4 DEF FilesOK, PlaceOK, Early
  <2>7. ServiceOK(proc[p])'
    BY <1>1, <2>3 DEF ServiceOK, PlaceOK, Early
  <2>8. OnDisk(db)'
    BY <2>4 DEF IInv, DatabasePasswordIsKept, OnDisk
  <2>9. proc[p].pc \notin Unlocked /\ proc'[p].pc \notin Unlocked
    BY <1>1, <2>3 DEF Unlocked
  <2>10. /\ used' \subseteq Secrets /\ used \subseteq used' /\ db' \in used' /\ published' \in used'
         /\ \A q \in Paths : file'[q] \in Secrets => file'[q] \in used'
         /\ file' \in [Paths -> Contents] /\ app' \in Paths /\ ownership' \in Ownership
    BY <2>1, <2>4 DEF IInv, TypeOK, UsedOK
  <2> QED
    BY <1>1, <2>3, <2>4, <2>5, <2>6, <2>7, <2>8, <2>9, <2>10, HeldStep DEF ProcOK
<1> QED
  BY <1>2, <1>3

\* The steps beyond the check that only move the process.
LEMMA MoveOnInv ==
    ASSUME IInv, NEW p \in Procs,
           \/ IntendEffect(p) \/ AppendFails(p) \/ CandidateExists(p) \/ DropFails(p)
           \/ SecretUnsafe(p) \/ SyncDirectory(p) \/ SwapFails(p) \/ RollbackFails(p)
           \/ RecordRollback(p)
    PROVE  IInv'
<1> USE DEF Over, Early, Unlocked
<1>1. faults \in Nat
  BY DEF IInv, TypeOK
<1>2. proc[p].pc \notin Over /\ faults' \in Nat
      /\ UNCHANGED <<file, used, service, records, outcome>>
  BY <1>1 DEF IntendEffect, AppendFails, CandidateExists, DropFails, SecretUnsafe, SyncDirectory,
              SwapFails, RollbackFails, RecordRollback, Fault
<1>3. /\ proc[p] \in Process /\ PlaceOK(proc[p]) /\ FilesOK(proc[p]) /\ ServiceOK(proc[p])
      /\ proc[p].stage \in Stages
  BY <1>2, Working
<1>4. ASSUME NEW pc \in Pcs \ Unlocked, Goto(p, pc), ProcOK([proc[p] EXCEPT !.pc = pc])
      PROVE  IInv'
  BY <1>2, <1>4, GotoInv
<1>5. Goto(p, "catch") => IInv'
  <2>1. ProcOK([proc[p] EXCEPT !.pc = "catch"])
    BY <1>3 DEF ProcOK, PlaceOK, Process
  <2> QED
    BY <1>4, <2>1 DEF Pcs
<1>6. ASSUME Goto(p, "thrown"), proc[p].pc \in {"intend", "unproven"}, proc[p].stage # "done"
      PROVE  IInv'
  <2>1. ProcOK([proc[p] EXCEPT !.pc = "thrown"])
    BY <1>3, <1>6 DEF ProcOK, PlaceOK, FilesOK, ServiceOK, Process
  <2> QED
    BY <1>4, <1>6, <2>1 DEF Pcs
<1>7. ASSUME Goto(p, "unproven"), proc[p].stage # "rollback",
             proc[p].pc \in {"record", "create", "apply", "link", "unswap", "unlink"}
      PROVE  IInv'
  <2>1. ProcOK([proc[p] EXCEPT !.pc = "unproven"])
    BY <1>3, <1>7 DEF ProcOK, PlaceOK, FilesOK, ServiceOK, Process
  <2> QED
    BY <1>4, <1>7, <2>1 DEF Pcs
<1>8. CASE IntendEffect(p)
  <2>1. CASE proc[p].aborted
    BY <1>6, <1>8, <2>1 DEF IntendEffect
  <2>2. CASE ~proc[p].aborted
    <3>1. proc[p].pc = "intend" /\ proc[p].stage \notin {"done", "rollback"}
          /\ Goto(p, FirstCall(proc[p].stage))
      BY <1>3, <1>8, <2>2 DEF IntendEffect, PlaceOK
    <3>2. FirstCall(proc[p].stage) \in Pcs \ Unlocked
      BY DEF FirstCall, Pcs
    <3>3. ProcOK([proc[p] EXCEPT !.pc = FirstCall(proc[p].stage)])
      BY <1>3, <3>1 DEF ProcOK, PlaceOK, FilesOK, ServiceOK, Process, FirstCall, Stages
    <3> QED
      BY <1>4, <3>1, <3>2, <3>3
  <2> QED
    BY <2>1, <2>2
<1>9. CASE AppendFails(p)
  <2>1. \/ Goto(p, "catch")
        \/ Goto(p, "thrown") /\ proc[p].pc \in {"intend", "unproven"} /\ proc[p].stage # "done"
        \/ Goto(p, "unproven") /\ proc[p].pc = "record" /\ proc[p].stage # "rollback"
    BY <1>3, <1>9 DEF AppendFails, PlaceOK
  <2> QED
    BY <1>5, <1>6, <1>7, <2>1
<1>10. CASE CandidateExists(p) \/ SecretUnsafe(p)
  <2>1. Goto(p, "catch") \/ (Goto(p, "unproven") /\ proc[p].pc \in {"create", "apply"}
                             /\ proc[p].stage # "rollback")
    BY <1>10 DEF CandidateExists, SecretUnsafe, Throws
  <2> QED
    BY <1>5, <1>7, <2>1
<1>11. CASE DropFails(p) \/ RollbackFails(p) \/ RecordRollback(p)
  BY <1>5, <1>11 DEF DropFails, RollbackFails, RecordRollback
<1>12. CASE SyncDirectory(p)
  <2>1. ProcOK([proc[p] EXCEPT !.pc = "record"])
    BY <1>3, <1>12 DEF SyncDirectory, ProcOK, PlaceOK, FilesOK, ServiceOK, Process
  <2> QED
    BY <1>4, <1>12, <2>1 DEF SyncDirectory, Pcs
<1>13. CASE SwapFails(p)
  <2>1. CASE proc[p].pc = "rename" /\ Goto(p, "unlink")
    <3>1. ProcOK([proc[p] EXCEPT !.pc = "unlink"])
      BY <1>3, <2>1 DEF ProcOK, PlaceOK, FilesOK, ServiceOK, Process
    <3> QED
      BY <1>4, <2>1, <3>1 DEF Pcs
  <2>2. CASE proc[p].pc = "sync" /\ Goto(p, "unswap")
    <3>1. ProcOK([proc[p] EXCEPT !.pc = "unswap"])
      BY <1>3, <2>2 DEF ProcOK, PlaceOK, FilesOK, ServiceOK, Process
    <3> QED
      BY <1>4, <2>2, <3>1 DEF Pcs
  <2>3. CASE proc[p].pc \in {"link", "unswap", "unlink"} /\ Goto(p, "unproven")
    BY <1>3, <1>7, <2>3 DEF PlaceOK
  <2> QED
    BY <1>3, <1>13, <2>1, <2>2, <2>3 DEF SwapFails, Throws, PlaceOK
<1> QED
  BY <1>8, <1>9, <1>10, <1>11, <1>12, <1>13
\* Steps that record, and the step into the rollback, change the process only.
LEMMA RecordInv ==
    ASSUME IInv, NEW p \in Procs,
           RecordEffect(p) \/ RecordUnproven(p) \/ RecordFails(p) \/ StartRollback(p)
    PROVE  IInv'
<1> USE DEF Over, Early, Unlocked
<1>1. /\ proc[p].pc \notin Over /\ faults' \in Nat
      /\ UNCHANGED <<file, used, service, records, outcome>>
  BY DEF RecordEffect, RecordUnproven, RecordFails, StartRollback, Fault, IInv, TypeOK
<1>2. /\ proc \in [Procs -> Process] /\ proc[p] \in Process
      /\ PlaceOK(proc[p]) /\ FilesOK(proc[p]) /\ ServiceOK(proc[p])
      /\ proc[p].stage \in Stages
      /\ UNCHANGED <<file, used, db, published, ownership>>
  BY <1>1, Working DEF IInv, TypeOK, service, records
<1>3. /\ proc' \in [Procs -> Process] /\ \A q \in Procs : q # p => proc'[q] = proc[q]
      /\ proc'[p].old = proc[p].old /\ proc'[p].seen = proc[p].seen
      /\ proc'[p].fresh = proc[p].fresh /\ proc'[p].owns = proc[p].owns
      /\ proc'[p].swapped = proc[p].swapped
  <2>1. After(proc[p].stage) \in Stages
    BY DEF After, Stages
  <2> QED
    BY <1>2, <2>1 DEF RecordEffect, RecordUnproven, RecordFails, StartRollback, Process, Pcs, Stages
<1>4. CASE RecordEffect(p)
  <2>1. proc[p].pc = "record" /\ proc'[p].pc = "intend" /\ proc'[p].stage = After(proc[p].stage)
    BY <1>2, <1>4 DEF RecordEffect, Process
  <2>2. proc[p].stage \notin {"rollback", "done"}
    BY <1>2, <2>1 DEF PlaceOK
  <2>3. PlaceOK(proc[p])'
    BY <1>2, <1>3, <2>1, <2>2 DEF PlaceOK, After, Stages
  <2>4. FilesOK(proc[p])'
    BY <1>2, <1>3, <2>1, <2>2 DEF FilesOK, PlaceOK, After, Stages
  <2>5. ServiceOK(proc[p])'
    BY <1>2, <1>3, <2>1, <2>2 DEF ServiceOK, PlaceOK, After, Stages
  <2> QED
    BY <1>1, <1>2, <1>3, <2>1, <2>3, <2>4, <2>5, QuietStep DEF ProcOK
<1>5. CASE RecordUnproven(p)
  <2>1. proc[p].pc = "unproven" /\ proc'[p].pc = "thrown" /\ proc'[p].stage = proc[p].stage
    BY <1>2, <1>5 DEF RecordUnproven, Process
  <2>2. ProcOK(proc[p])'
    BY <1>2, <1>3, <2>1 DEF ProcOK, PlaceOK, FilesOK, ServiceOK
  <2> QED
    BY <1>1, <1>2, <1>3, <2>1, <2>2, QuietStep
<1>6. CASE StartRollback(p)
  <2>1. /\ proc[p].pc = "thrown" /\ proc[p].stage # "candidate" /\ proc'[p].stage = "rollback"
        /\ proc'[p].pc = IF proc[p].swapped THEN "restore" ELSE "apply"
    BY <1>2, <1>6 DEF StartRollback, Process
  <2>2. proc[p].stage \notin {"rollback", "done"}
    BY <1>2, <2>1 DEF PlaceOK
  <2>3. ProcOK(proc[p])'
    BY <1>2, <1>3, <2>1, <2>2 DEF ProcOK, PlaceOK, FilesOK, ServiceOK, Stages
  <2> QED
    BY <1>1, <1>2, <1>3, <2>1, <2>3, QuietStep
<1>7. CASE RecordFails(p)
  <2>1. proc[p].pc = "record" /\ proc'[p].pc = "unproven" /\ proc'[p].stage = proc[p].stage
    <3>1. PICK effect \in BOOLEAN :
             proc' = [proc EXCEPT ![p].pc = "unproven", ![p].incomplete = @ \/ effect]
      BY <1>7 DEF RecordFails
    <3>2. proc'[p] = [proc[p] EXCEPT !.pc = "unproven", !.incomplete = @ \/ effect]
      BY <1>2, <3>1
    <3> QED
      BY <1>2, <1>7, <3>2 DEF RecordFails, Process
  <2>2. ProcOK(proc[p])'
    BY <1>2, <1>3, <2>1 DEF ProcOK, PlaceOK, FilesOK, ServiceOK
  <2> QED
    BY <1>1, <1>2, <1>3, <2>1, <2>2, QuietStep
<1> QED
  BY <1>4, <1>5, <1>6, <1>7

\* Of the file that is applied.
LEMMA AppliedFacts ==
    ASSUME IInv, NEW p \in Procs, proc[p].pc \notin Over
    PROVE  /\ Applied(p) \in Paths
           /\ Valid(Applied(p)) => /\ file[Applied(p)] \in used
                                   /\ OnDisk(file[Applied(p)])
<1>1. Applied(p) \in Paths
  BY Working, PathFacts DEF Applied
<1> QED
  BY <1>1 DEF IInv, UsedOK, Valid, OnDisk

\* PostgreSQL and the application.
LEMMA ServiceInv ==
    ASSUME IInv, NEW p \in Procs, AlterRole(p) \/ AlterFails(p) \/ Deploy(p) \/ DeployFails(p)
    PROVE  IInv'
<1> USE DEF Over, Early, Unlocked
<1>1. proc[p].pc \in {"apply", "deploy"}
      /\ UNCHANGED <<file, used, published, ownership, holder, interrupted, report>>
  BY DEF AlterRole, AlterFails, Deploy, DeployFails, records, outcome
<1>2. /\ PlaceOK(proc[p]) /\ FilesOK(proc[p]) /\ ServiceOK(proc[p]) /\ proc[p] \in Process
      /\ file \in [Paths -> Contents] /\ faults \in Nat
  BY <1>1, Working
<1>3. faults' \in Nat
  BY <1>2 DEF AlterRole, AlterFails, Deploy, DeployFails, CallFault, Fault
<1>4. db' \in used /\ OnDisk(db)' /\ app' \in Paths
  <2>1. db' = db \/ (Valid(Applied(p)) /\ db' = file[Applied(p)])
    BY DEF AlterRole, AlterFails, Deploy, DeployFails
  <2>2. OnDisk(db) /\ db \in used
    BY DEF IInv, UsedOK, DatabasePasswordIsKept
  <2>3. app' \in {app, Applied(p)}
    BY DEF AlterRole, AlterFails, Deploy, DeployFails
  <2>4. OnDisk(db)' <=> \E q \in Paths : file[q] = db'
    BY <1>1 DEF OnDisk
  <2>5. app \in Paths
    BY DEF IInv, TypeOK
  <2> QED
    BY <1>1, <2>1, <2>2, <2>3, <2>4, <2>5, AppliedFacts DEF OnDisk
<1>5. PICK pc \in {"deploy", "write-set", "record", "catch", "unproven"} :
         /\ Goto(p, pc)
         /\ pc = "deploy" => AlterRole(p)
         /\ pc = "write-set" => Deploy(p) /\ proc[p].stage = "rollback"
         /\ pc = "record" => Deploy(p) /\ proc[p].stage # "rollback"
         /\ pc = "unproven" => proc[p].stage # "rollback"
  BY DEF AlterRole, AlterFails, Deploy, DeployFails, Throws
<1>6. /\ proc' \in [Procs -> Process] /\ \A q \in Procs : q # p => proc'[q] = proc[q]
      /\ proc'[p].pc = pc
      /\ proc'[p].stage = proc[p].stage /\ proc'[p].old = proc[p].old
      /\ proc'[p].seen = proc[p].seen /\ proc'[p].fresh = proc[p].fresh
      /\ proc'[p].owns = proc[p].owns /\ proc'[p].swapped = proc[p].swapped
  BY <1>5, GotoFacts DEF Pcs
<1>7. PlaceOK(proc[p])'
  BY <1>1, <1>2, <1>5, <1>6 DEF PlaceOK, Deploy, AlterRole
<1>8. FilesOK(proc[p])'
  BY <1>1, <1>2, <1>5, <1>6 DEF FilesOK, PlaceOK
<1>9. ServiceOK(proc[p])'
  <2>1. CASE AlterRole(p)
    <3>1. pc = "deploy" /\ db' = file[Applied(p)]
      BY <1>2, <1>6, <2>1 DEF AlterRole, Goto, Process, IInv, TypeOK
    <3> QED
      BY <1>1, <1>2, <1>6, <2>1, <3>1 DEF ServiceOK, PlaceOK, FilesOK, Applied, AlterRole
  <2>2. CASE Deploy(p)
    <3>1. db' = db /\ proc[p].pc = "deploy" /\ pc \in {"write-set", "record"}
      BY <1>2, <1>6, <2>2 DEF Deploy, Goto, Process, IInv, TypeOK
    <3> QED
      BY <1>1, <1>2, <1>5, <1>6, <3>1 DEF ServiceOK, PlaceOK
  <2>3. CASE AlterFails(p) \/ DeployFails(p)
    <3>1. pc \in {"catch", "unproven"}
      BY <1>2, <1>6, <2>3 DEF AlterFails, DeployFails, Throws, Goto, Process, IInv, TypeOK
    <3> QED
      BY <1>1, <1>2, <1>5, <1>6, <3>1 DEF ServiceOK, PlaceOK
  <2> QED
    BY <2>1, <2>2, <2>3
<1>10. used' \subseteq Secrets /\ published' \in used' /\ ownership' \in Ownership
       /\ \A q \in Paths : file'[q] \in Secrets => file'[q] \in used'
  BY <1>1 DEF IInv, TypeOK, UsedOK
<1> QED
  BY <1>1, <1>2, <1>3, <1>4, <1>6, <1>7, <1>8, <1>9, <1>10, HeldStep DEF ProcOK

\* The two state files.
LEMMA RecordsInv ==
    ASSUME IInv, NEW p \in Procs, WriteSecretSet(p) \/ WriteOwnership(p) \/ PublishFails(p)
    PROVE  IInv'
<1> USE DEF Over, Early, Unlocked
<1>1. proc[p].pc \in {"write-set", "write-ownership"}
      /\ UNCHANGED <<file, used, db, app, holder, interrupted, report>>
  BY DEF WriteSecretSet, WriteOwnership, PublishFails, service, outcome
<1>2. /\ PlaceOK(proc[p]) /\ FilesOK(proc[p]) /\ ServiceOK(proc[p]) /\ proc[p] \in Process
      /\ file \in [Paths -> Contents] /\ faults \in Nat /\ proc[p].seen \in Ownership
      /\ proc[p].old \in Secrets /\ proc[p].fresh \in Secrets
  BY <1>1, Working
<1>3. faults' \in Nat
  BY <1>2 DEF WriteSecretSet, WriteOwnership, PublishFails, Fault
<1>4. NewSecret(p) \in used /\ NewOwnership(p) \in Ownership
      /\ NewOwnership(p).others = proc[p].seen.others
  BY <1>2 DEF NewSecret, NewOwnership, FilesOK, Ownership
<1>5. /\ published' \in {published, NewSecret(p)} /\ ownership' \in {ownership, NewOwnership(p)}
      /\ published \in used /\ ownership \in Ownership
      /\ proc[p].pc = "write-ownership" => published' = published
      /\ WriteSecretSet(p) => published' = NewSecret(p)
  BY DEF WriteSecretSet, WriteOwnership, PublishFails, IInv, TypeOK, UsedOK
<1>6. PICK pc \in {"write-ownership", "discard", "record", "catch", "unproven"} :
         /\ Goto(p, pc)
         /\ pc = "write-ownership" => WriteSecretSet(p)
         /\ pc = "discard" => WriteOwnership(p) /\ proc[p].stage = "rollback"
         /\ pc \in {"record", "unproven"} => proc[p].stage # "rollback"
  BY DEF WriteSecretSet, WriteOwnership, PublishFails, Throws
<1>7. /\ proc' \in [Procs -> Process] /\ \A q \in Procs : q # p => proc'[q] = proc[q]
      /\ proc'[p].pc = pc
      /\ proc'[p].stage = proc[p].stage /\ proc'[p].old = proc[p].old
      /\ proc'[p].seen = proc[p].seen /\ proc'[p].fresh = proc[p].fresh
      /\ proc'[p].owns = proc[p].owns /\ proc'[p].swapped = proc[p].swapped
  BY <1>6, GotoFacts DEF Pcs
<1>8. PlaceOK(proc[p])'
  BY <1>1, <1>2, <1>6, <1>7 DEF PlaceOK
<1>9. ownership'.others = ownership.others
  BY <1>2, <1>4, <1>5 DEF FilesOK
<1>10. FilesOK(proc[p])'
  BY <1>1, <1>2, <1>6, <1>7, <1>9 DEF FilesOK, PlaceOK
<1>11. ServiceOK(proc[p])'
  <2>1. pc = "write-ownership" /\ proc[p].stage = "rollback" => published' = proc[p].old
    BY <1>5, <1>6 DEF NewSecret
  <2>2. pc = "discard" => proc[p].pc = "write-ownership" /\ published' = published
    BY <1>5, <1>6 DEF WriteOwnership
  <2>3. pc = "write-ownership" => proc[p].pc = "write-set"
    BY <1>6 DEF WriteSecretSet
  <2> QED
    BY <1>1, <1>2, <1>6, <1>7, <2>1, <2>2, <2>3 DEF ServiceOK, PlaceOK
<1>12. used' \subseteq Secrets /\ published' \in used' /\ db' \in used' /\ app' \in Paths
       /\ OnDisk(db)' /\ \A q \in Paths : file'[q] \in Secrets => file'[q] \in used'
  BY <1>1, <1>4, <1>5 DEF IInv, TypeOK, UsedOK, DatabasePasswordIsKept, OnDisk
<1>13. ownership' \in Ownership
  BY <1>4, <1>5
<1> QED
  BY <1>1, <1>2, <1>3, <1>7, <1>8, <1>10, <1>11, <1>12, <1>13, HeldStep DEF ProcOK
\* A step in the directory of secrets.
LEMMA FileStep ==
    ASSUME IInv, NEW p \in Procs, proc[p].pc \notin Over,
           proc' \in [Procs -> Process], \A q \in Procs : q # p => proc'[q] = proc[q],
           proc'[p].pc \notin Unlocked, ProcOK(proc[p])',
           file' \in [Paths -> Contents],
           \A q \in Paths : file'[q] \in Secrets => file'[q] \in used,
           OnDisk(db) => OnDisk(db)', faults' \in Nat,
           UNCHANGED <<used, service, records, outcome>>
    PROVE  IInv'
<1>1. UNCHANGED <<used, db, app, published, ownership, holder, interrupted, report>>
  BY DEF service, records, outcome
<1>2. proc[p].pc \notin Unlocked
  BY DEF Over, Early
<1>3. /\ OnDisk(db)' /\ used' \subseteq Secrets /\ db' \in used' /\ published' \in used'
      /\ app' \in Paths /\ ownership' \in Ownership
      /\ \A q \in Paths : file'[q] \in Secrets => file'[q] \in used'
  BY <1>1 DEF IInv, TypeOK, UsedOK, DatabasePasswordIsKept
<1> QED
  BY <1>1, <1>2, <1>3, HeldStep

\* What the two files of a rotation hold after a step that writes one of them.
LEMMA WriteInv ==
    ASSUME IInv, NEW p \in Procs,
           \/ CreateCandidate(p) \/ WriteCandidate(p) \/ WriteFails(p) \/ DropCandidate(p)
           \/ Link(p) \/ UnlinkRetained(p) \/ DiscardCandidate(p)
    PROVE  /\ IInv'
           /\ \A s \in Secrets : s = published /\ OnDisk(s) =>
                 OnDisk(s)' \/ (proc[p].pc = "unlink" /\ file[Current] = Absent)
<1> USE DEF Over, Early, Unlocked
<1> DEFINE c == Candidate(proc[p].old)
           r == Retained(proc[p].old)
<1>1. /\ proc[p].pc \in {"create", "write", "thrown", "link", "unlink", "discard"}
      /\ UNCHANGED <<used, service, records, outcome>>
  BY DEF CreateCandidate, WriteCandidate, WriteFails, DropCandidate, Link, UnlinkRetained,
         DiscardCandidate
<1>2. /\ PlaceOK(proc[p]) /\ FilesOK(proc[p]) /\ ServiceOK(proc[p]) /\ proc[p] \in Process
      /\ proc \in [Procs -> Process] /\ file \in [Paths -> Contents] /\ faults \in Nat
      /\ proc[p].old \in Secrets /\ proc[p].fresh \in Secrets
      /\ Absent \notin Secrets /\ Torn \notin Secrets /\ Absent # Torn
  BY <1>1, Working DEF IInv, TypeOK
<1>3. /\ Current \in Paths /\ c \in Paths /\ r \in Paths
      /\ c # Current /\ r # Current /\ c # r
  BY <1>2, PathFacts
<1>4. UNCHANGED <<used, db, app, published, ownership>> /\ db \in Secrets /\ published \in Secrets
      /\ db \in used /\ published \in used
  BY <1>1 DEF service, records, IInv, TypeOK, UsedOK
<1>5. faults' \in Nat
  BY <1>2 DEF CreateCandidate, WriteCandidate, WriteFails, DropCandidate, Link, UnlinkRetained,
              DiscardCandidate, Fault
<1>6. \A q \in Paths : file[q] \in Secrets => file[q] \in used
  BY DEF IInv, UsedOK
<1>7. ASSUME NEW q \in Paths, NEW v \in Contents, file' = [file EXCEPT ![q] = v],
             v \in Secrets => v \in used,
             proc' \in [Procs -> Process], \A i \in Procs : i # p => proc'[i] = proc[i],
             proc'[p].pc \notin Unlocked, ProcOK(proc[p])',
             file[q] # db, file[q] # published \/ (proc[p].pc = "unlink" /\ file[Current] = Absent)
      PROVE  /\ IInv'
             /\ \A s \in Secrets : s = published /\ OnDisk(s) =>
                   OnDisk(s)' \/ (proc[p].pc = "unlink" /\ file[Current] = Absent)
  <2>1. file' \in [Paths -> Contents]
    BY <1>2, <1>7
  <2>2. \A i \in Paths : file'[i] \in Secrets => file'[i] \in used
    BY <1>2, <1>6, <1>7
  <2>3. OnDisk(db) => OnDisk(db)'
    <3>1. OnDisk(db) => \E i \in Paths : file'[i] = db
      BY <1>2, <1>7 DEF OnDisk
    <3> QED
      BY <1>4, <3>1 DEF OnDisk
  <2>4. ASSUME NEW s \in Secrets, s = published, OnDisk(s), file[q] # published
        PROVE  OnDisk(s)'
    BY <1>2, <1>7, <2>4, OverwriteKeeps
  <2> QED
    BY <1>1, <1>5, <1>7, <2>1, <2>2, <2>3, <2>4, FileStep
<1>8. CASE CreateCandidate(p)
  <2>1. /\ file' = [file EXCEPT ![c] = Torn] /\ file[c] = Absent /\ proc[p].pc = "create"
        /\ proc' = [proc EXCEPT ![p].pc = "write", ![p].owns = TRUE]
    BY <1>8 DEF CreateCandidate
  <2>2. /\ proc' \in [Procs -> Process] /\ \A i \in Procs : i # p => proc'[i] = proc[i]
        /\ proc'[p].pc = "write" /\ proc'[p].owns = TRUE
        /\ proc'[p].stage = proc[p].stage /\ proc'[p].old = proc[p].old
        /\ proc'[p].seen = proc[p].seen /\ proc'[p].fresh = proc[p].fresh
        /\ proc'[p].swapped = proc[p].swapped
    BY <1>2, <2>1 DEF Process, Pcs
  <2>3. ProcOK(proc[p])'
    BY <1>2, <1>3, <1>4, <2>1, <2>2 DEF ProcOK, PlaceOK, FilesOK, ServiceOK
  <2> QED
    BY <1>2, <1>3, <1>4, <1>7, <2>1, <2>2, <2>3 DEF Contents
<1>9. CASE WriteCandidate(p)
  <2>1. file' = [file EXCEPT ![c] = proc[p].fresh] /\ Goto(p, "record") /\ proc[p].pc = "write"
    BY <1>9 DEF WriteCandidate
  <2>2. /\ proc' \in [Procs -> Process] /\ \A i \in Procs : i # p => proc'[i] = proc[i]
        /\ proc'[p].pc = "record" /\ proc'[p].owns = proc[p].owns
        /\ proc'[p].stage = proc[p].stage /\ proc'[p].old = proc[p].old
        /\ proc'[p].seen = proc[p].seen /\ proc'[p].fresh = proc[p].fresh
        /\ proc'[p].swapped = proc[p].swapped
    BY <2>1, GotoFacts DEF Pcs
  <2>3. ProcOK(proc[p])'
    BY <1>2, <1>3, <1>4, <2>1, <2>2 DEF ProcOK, PlaceOK, FilesOK, ServiceOK
  <2>4. file[c] = Torn /\ proc[p].fresh \in used
    BY <1>2, <2>1 DEF FilesOK
  <2> QED
    BY <1>2, <1>3, <1>4, <1>7, <2>1, <2>2, <2>3, <2>4 DEF Contents
<1>10. CASE WriteFails(p)
  <2>1. PICK v \in {Absent, Torn} : file' = [file EXCEPT ![c] = v]
    BY <1>10 DEF WriteFails
  <2>2. proc[p].pc = "write" /\ proc' = [proc EXCEPT ![p].pc = "unproven", ![p].owns = FALSE]
    BY <1>10 DEF WriteFails
  <2>3. /\ proc' \in [Procs -> Process] /\ \A i \in Procs : i # p => proc'[i] = proc[i]
        /\ proc'[p].pc = "unproven" /\ proc'[p].owns = FALSE
        /\ proc'[p].stage = proc[p].stage /\ proc'[p].old = proc[p].old
        /\ proc'[p].seen = proc[p].seen /\ proc'[p].fresh = proc[p].fresh
        /\ proc'[p].swapped = proc[p].swapped
    BY <1>2, <2>2 DEF Process, Pcs
  <2>4. ProcOK(proc[p])'
    BY <1>2, <1>3, <1>4, <2>1, <2>2, <2>3 DEF ProcOK, PlaceOK, FilesOK, ServiceOK
  <2>5. file[c] = Torn
    BY <1>2, <2>2 DEF FilesOK
  <2> QED
    BY <1>2, <1>3, <1>4, <1>7, <2>1, <2>3, <2>4, <2>5 DEF Contents
<1>11. CASE DropCandidate(p)
  <2>1. /\ proc[p].pc = "thrown" /\ proc[p].stage = "candidate" /\ Goto(p, "catch")
        /\ file' = [file EXCEPT ![c] = IF proc[p].owns THEN Absent ELSE file[c]]
    BY <1>2, <1>3, <1>11 DEF DropCandidate, RemovesCandidate
  <2>2. /\ proc' \in [Procs -> Process] /\ \A i \in Procs : i # p => proc'[i] = proc[i]
        /\ proc'[p].pc = "catch" /\ ProcOK(proc[p])'
    BY <1>2, <2>1, GotoFacts DEF Pcs, ProcOK, PlaceOK
  <2>3. CASE proc[p].owns
    <3>1. file[c] = proc[p].fresh /\ proc[p].fresh # db /\ published = proc[p].old
          /\ proc[p].fresh # proc[p].old
      BY <1>2, <2>1, <2>3 DEF FilesOK
    <3> QED
      BY <1>2, <1>3, <1>7, <2>1, <2>2, <2>3, <3>1 DEF Contents
  <2>4. CASE ~proc[p].owns
    <3>1. file' = file
      BY <1>2, <1>3, <2>1, <2>4
    <3>2. \A s : OnDisk(s) => OnDisk(s)'
      BY <3>1 DEF OnDisk
    <3>3. OnDisk(db) => OnDisk(db)'
      BY <1>4, <3>1 DEF OnDisk
    <3> QED
      BY <1>1, <1>2, <1>5, <1>6, <2>2, <3>1, <3>2, <3>3, FileStep
  <2> QED
    BY <2>3, <2>4
<1>12. CASE Link(p)
  <2>1. /\ proc[p].pc = "link" /\ file[r] = Absent /\ file' = [file EXCEPT ![r] = file[Current]]
        /\ Goto(p, "rename")
    BY <1>12 DEF Link
  <2>2. /\ proc' \in [Procs -> Process] /\ \A i \in Procs : i # p => proc'[i] = proc[i]
        /\ proc'[p].pc = "rename" /\ proc'[p].owns = proc[p].owns
        /\ proc'[p].stage = proc[p].stage /\ proc'[p].old = proc[p].old
        /\ proc'[p].seen = proc[p].seen /\ proc'[p].fresh = proc[p].fresh
        /\ proc'[p].swapped = proc[p].swapped
    BY <2>1, GotoFacts DEF Pcs
  <2>3. ProcOK(proc[p])'
    BY <1>2, <1>3, <1>4, <2>1, <2>2 DEF ProcOK, PlaceOK, FilesOK, ServiceOK
  <2> QED
    BY <1>2, <1>3, <1>4, <1>6, <1>7, <2>1, <2>2, <2>3
<1>13. CASE UnlinkRetained(p)
  <2>1. proc[p].pc = "unlink" /\ file' = [file EXCEPT ![r] = Absent] /\ Throws(p)
    BY <1>13 DEF UnlinkRetained
  <2>2. proc[p].stage = "swap" /\ ~proc[p].swapped /\ Goto(p, "unproven")
    BY <1>2, <2>1 DEF PlaceOK, Throws
  <2>3. /\ proc' \in [Procs -> Process] /\ \A i \in Procs : i # p => proc'[i] = proc[i]
        /\ proc'[p].pc = "unproven" /\ proc'[p].owns = proc[p].owns
        /\ proc'[p].stage = proc[p].stage /\ proc'[p].old = proc[p].old
        /\ proc'[p].seen = proc[p].seen /\ proc'[p].fresh = proc[p].fresh
        /\ proc'[p].swapped = proc[p].swapped
    BY <2>2, GotoFacts DEF Pcs
  <2>4. ProcOK(proc[p])'
    BY <1>2, <1>3, <1>4, <2>1, <2>2, <2>3 DEF ProcOK, PlaceOK, FilesOK, ServiceOK
  <2>5. file' \in [Paths -> Contents]
        /\ \A q \in Paths : file'[q] \in Secrets => file'[q] \in used
    BY <1>2, <1>3, <1>6, <2>1 DEF Contents
  <2>6. file'[c] = db
    BY <1>2, <1>3, <2>1, <2>2 DEF FilesOK, ServiceOK
  <2>7. ASSUME NEW s \in Secrets, OnDisk(s), file[Current] # Absent PROVE OnDisk(s)'
    <3>1. file[r] = file[Current]
      BY <1>2, <2>1, <2>7 DEF FilesOK
    <3>2. PICK q \in Paths : file[q] = s
      BY <2>7 DEF OnDisk
    <3>3. file'[q] = s \/ file'[Current] = s
      BY <1>2, <1>3, <2>1, <3>1, <3>2
    <3> QED
      BY <1>3, <3>3 DEF OnDisk
  <2>8. OnDisk(db)'
    BY <1>3, <1>4, <2>6 DEF OnDisk
  <2> QED
    BY <1>1, <1>5, <2>1, <2>3, <2>4, <2>5, <2>7, <2>8, FileStep
<1>14. CASE DiscardCandidate(p)
  <2>1. proc[p].pc = "discard" /\ file' = [file EXCEPT ![c] = Absent] /\ Goto(p, "compensate")
    BY <1>14 DEF DiscardCandidate
  <2>2. /\ proc' \in [Procs -> Process] /\ \A i \in Procs : i # p => proc'[i] = proc[i]
        /\ proc'[p].pc = "compensate" /\ proc'[p].owns = proc[p].owns
        /\ proc'[p].stage = proc[p].stage /\ proc'[p].old = proc[p].old
        /\ proc'[p].seen = proc[p].seen /\ proc'[p].fresh = proc[p].fresh
        /\ proc'[p].swapped = proc[p].swapped
    BY <2>1, GotoFacts DEF Pcs
  <2>3. ProcOK(proc[p])'
    BY <1>2, <1>3, <1>4, <2>1, <2>2 DEF ProcOK, PlaceOK, FilesOK, ServiceOK
  <2>4. /\ proc[p].stage = "rollback" /\ file[c] \in {Absent, proc[p].fresh}
        /\ published = proc[p].old /\ proc[p].fresh # proc[p].old /\ db = file[Current]
    BY <1>2, <2>1 DEF PlaceOK, FilesOK, ServiceOK
  <2>5. file' \in [Paths -> Contents]
        /\ \A q \in Paths : file'[q] \in Secrets => file'[q] \in used
    BY <1>2, <1>3, <1>6, <2>1 DEF Contents
  <2>6. OnDisk(db)'
    BY <1>2, <1>3, <1>4, <2>1, <2>4 DEF OnDisk
  <2>7. ASSUME NEW s \in Secrets, s = published, OnDisk(s) PROVE OnDisk(s)'
    BY <1>2, <1>3, <2>1, <2>4, <2>7, OverwriteKeeps
  <2> QED
    BY <1>1, <1>5, <2>2, <2>3, <2>5, <2>6, <2>7, FileStep
<1> QED
  BY <1>8, <1>9, <1>10, <1>11, <1>12, <1>13, <1>14
\* A step that renames one of the files: the name that it takes is that of no
\* file, or of one that has another name.
LEMMA RenameInv ==
    ASSUME IInv, NEW p \in Procs,
           \/ RenameCandidate(p) \/ Unswap(p) \/ RestoreCandidate(p)
           \/ RestoreCurrent(p) \/ RestoreNotSynced(p)
    PROVE  /\ IInv'
           /\ \A s \in Secrets : OnDisk(s) => OnDisk(s)'
<1> USE DEF Over, Early, Unlocked
<1> DEFINE c == Candidate(proc[p].old)
           r == Retained(proc[p].old)
<1>1. /\ proc[p].pc \in {"rename", "unswap", "restore", "restoring"}
      /\ UNCHANGED <<used, service, records, outcome>>
  BY DEF RenameCandidate, Unswap, RestoreCandidate, RestoreCurrent, RestoreNotSynced
<1>2. /\ PlaceOK(proc[p]) /\ FilesOK(proc[p]) /\ ServiceOK(proc[p]) /\ proc[p] \in Process
      /\ proc \in [Procs -> Process] /\ file \in [Paths -> Contents] /\ faults \in Nat
      /\ proc[p].old \in Secrets /\ proc[p].fresh \in Secrets
      /\ Absent \notin Secrets /\ Torn \notin Secrets /\ Absent # Torn
  BY <1>1, Working DEF IInv, TypeOK
<1>3. /\ Current \in Paths /\ c \in Paths /\ r \in Paths
      /\ c # Current /\ r # Current /\ c # r
  BY <1>2, PathFacts
<1>4. UNCHANGED <<used, db, app, published, ownership>> /\ db \in Secrets
  BY <1>1 DEF service, records, IInv, TypeOK
<1>5. faults' \in Nat
  BY <1>2 DEF RenameCandidate, Unswap, RestoreCandidate, RestoreCurrent, RestoreNotSynced, Fault
<1>6. \A q \in Paths : file[q] \in Secrets => file[q] \in used
  BY DEF IInv, UsedOK
<1>7. ASSUME NEW from \in Paths, NEW to \in Paths, from # to, Move(from, to),
             proc' \in [Procs -> Process], \A i \in Procs : i # p => proc'[i] = proc[i],
             proc'[p].pc \notin Unlocked, ProcOK(proc[p])',
             file[to] = Absent \/ \E q \in Paths : q # to /\ q # from /\ file[q] = file[to]
      PROVE  IInv' /\ \A s \in Secrets : OnDisk(s) => OnDisk(s)'
  <2>1. /\ file' \in [Paths -> Contents]
        /\ file'[to] = file[from] /\ file'[from] = Absent
        /\ \A q \in Paths : q # from /\ q # to => file'[q] = file[q]
    BY <1>2, <1>7, MoveFacts
  <2>2. \A q \in Paths : file'[q] \in Secrets => file'[q] \in used
    BY <1>2, <1>6, <1>7, <2>1
  <2>3. ASSUME NEW s \in Secrets, OnDisk(s) PROVE OnDisk(s)'
    <3>1. CASE file[to] # s
      BY <1>2, <1>7, <2>3, <3>1, MoveKeeps
    <3>2. CASE file[to] = s
      BY <1>2, <1>7, <2>1, <3>2 DEF OnDisk
    <3> QED
      BY <3>1, <3>2
  <2>4. OnDisk(db) => OnDisk(db)'
    BY <1>4, <2>3 DEF OnDisk
  <2> QED
    BY <1>1, <1>5, <1>7, <2>1, <2>2, <2>3, <2>4, FileStep
<1>8. CASE RenameCandidate(p)
  <2>1. /\ proc[p].pc = "rename" /\ Move(c, Current)
        /\ proc' = [proc EXCEPT ![p].pc = "sync", ![p].swapped = TRUE]
    BY <1>8 DEF RenameCandidate
  <2>2. /\ proc' \in [Procs -> Process] /\ \A i \in Procs : i # p => proc'[i] = proc[i]
        /\ proc'[p].pc = "sync" /\ proc'[p].swapped = TRUE
        /\ proc'[p].stage = proc[p].stage /\ proc'[p].old = proc[p].old
        /\ proc'[p].seen = proc[p].seen /\ proc'[p].fresh = proc[p].fresh
        /\ proc'[p].owns = proc[p].owns
    BY <1>2, <2>1 DEF Process, Pcs
  <2>3. /\ file'[Current] = file[c] /\ file'[c] = Absent
    BY <1>2, <1>3, <2>1, MoveFacts
  <2>4. ProcOK(proc[p])'
    BY <1>2, <1>4, <2>1, <2>2, <2>3 DEF ProcOK, PlaceOK, FilesOK, ServiceOK
  <2>5. file[r] = file[Current]
    BY <1>2, <2>1 DEF FilesOK
  <2> QED
    BY <1>3, <1>7, <2>1, <2>2, <2>4, <2>5
<1>9. CASE Unswap(p)
  <2>1. /\ proc[p].pc = "unswap" /\ Move(Current, c)
        /\ proc' = [proc EXCEPT ![p].pc = "unlink", ![p].swapped = FALSE]
    BY <1>9 DEF Unswap
  <2>2. /\ proc' \in [Procs -> Process] /\ \A i \in Procs : i # p => proc'[i] = proc[i]
        /\ proc'[p].pc = "unlink" /\ proc'[p].swapped = FALSE
        /\ proc'[p].stage = proc[p].stage /\ proc'[p].old = proc[p].old
        /\ proc'[p].seen = proc[p].seen /\ proc'[p].fresh = proc[p].fresh
        /\ proc'[p].owns = proc[p].owns
    BY <1>2, <2>1 DEF Process, Pcs
  <2>3. /\ file'[c] = file[Current] /\ file'[Current] = Absent
    BY <1>2, <1>3, <2>1, MoveFacts
  <2>4. ProcOK(proc[p])'
    BY <1>2, <1>4, <2>1, <2>2, <2>3 DEF ProcOK, PlaceOK, FilesOK, ServiceOK
  <2>5. file[c] = Absent
    BY <1>2, <2>1 DEF FilesOK, PlaceOK
  <2> QED
    BY <1>3, <1>7, <2>1, <2>2, <2>4, <2>5
<1>10. CASE RestoreCandidate(p)
  <2>1. proc[p].pc = "restore" /\ Move(Current, c) /\ Goto(p, "restoring")
    BY <1>10 DEF RestoreCandidate
  <2>2. /\ proc' \in [Procs -> Process] /\ \A i \in Procs : i # p => proc'[i] = proc[i]
        /\ proc'[p].pc = "restoring" /\ proc'[p].swapped = proc[p].swapped
        /\ proc'[p].stage = proc[p].stage /\ proc'[p].old = proc[p].old
        /\ proc'[p].seen = proc[p].seen /\ proc'[p].fresh = proc[p].fresh
        /\ proc'[p].owns = proc[p].owns
    BY <2>1, GotoFacts DEF Pcs
  <2>3. /\ file'[c] = file[Current] /\ file'[Current] = Absent
    BY <1>2, <1>3, <2>1, MoveFacts
  <2>4. ProcOK(proc[p])'
    BY <1>2, <1>4, <2>1, <2>2, <2>3 DEF ProcOK, PlaceOK, FilesOK, ServiceOK
  <2>5. file[c] = Absent
    BY <1>2, <2>1 DEF FilesOK, PlaceOK
  <2> QED
    BY <1>3, <1>7, <2>1, <2>2, <2>4, <2>5
<1>11. CASE RestoreCurrent(p) \/ RestoreNotSynced(p)
  <2>1. PICK pc \in {"apply", "catch"} :
           /\ proc[p].pc = "restoring" /\ Move(r, Current)
           /\ proc' = [proc EXCEPT ![p].pc = pc, ![p].swapped = FALSE]
    BY <1>11 DEF RestoreCurrent, RestoreNotSynced
  <2>2. /\ proc' \in [Procs -> Process] /\ \A i \in Procs : i # p => proc'[i] = proc[i]
        /\ proc'[p].pc = pc /\ proc'[p].swapped = FALSE
        /\ proc'[p].stage = proc[p].stage /\ proc'[p].old = proc[p].old
        /\ proc'[p].seen = proc[p].seen /\ proc'[p].fresh = proc[p].fresh
        /\ proc'[p].owns = proc[p].owns
    BY <1>2, <2>1 DEF Process, Pcs
  <2>3. file'[c] = file[c]
    BY <1>2, <1>3, <2>1, MoveFacts
  <2>4. ProcOK(proc[p])'
    BY <1>2, <1>4, <2>1, <2>2, <2>3 DEF ProcOK, PlaceOK, FilesOK, ServiceOK
  <2>5. file[Current] = Absent
    BY <1>2, <2>1 DEF FilesOK
  <2> QED
    BY <1>3, <1>7, <2>1, <2>2, <2>4, <2>5
<1> QED
  BY <1>8, <1>9, <1>10, <1>11

\* The ends of a command, and an abort.
LEMMA EndInv ==
    ASSUME IInv, NEW p \in Procs,
           CommitRotation(p) \/ Fail(p) \/ BeginFails(p) \/ Crash(p) \/ Abort(p)
    PROVE  IInv'
<1>1. faults' \in Nat /\ UNCHANGED <<file, used, service, records>>
  <2>1. faults \in Nat /\ (faults' = faults \/ faults' = faults + 1)
    BY DEF IInv, TypeOK, CommitRotation, Fail, BeginFails, Crash, Abort, Fault
  <2>2. UNCHANGED <<file, used, service, records>>
    BY DEF CommitRotation, Fail, BeginFails, Crash, Abort
  <2> QED
    BY <2>1, <2>2
<1>2. holder = p /\ proc[p].pc \notin Unlocked
  BY DEF CommitRotation, Fail, BeginFails, Crash, Abort, IInv, LockOK, Unlocked
<1>3. CASE ~Abort(p)
  <2>1. PICK r \in {"none", "success", "failed", "recovery-required"}, asks \in BOOLEAN :
           End(p, r, asks)
    BY <1>3 DEF CommitRotation, Fail, BeginFails, Crash
  <2> QED
    BY <1>1, <1>2, <2>1, EndStep
<1>4. CASE Abort(p)
  <2>1. proc \in [Procs -> Process] /\ ProcOK(proc[p])
    BY DEF IInv, TypeOK, ProcsOK
  <2>2. proc' = [proc EXCEPT ![p].aborted = TRUE] /\ UNCHANGED outcome
    BY <1>4 DEF Abort
  <2>3. /\ proc' \in [Procs -> Process] /\ \A q \in Procs : q # p => proc'[q] = proc[q]
        /\ proc'[p].pc = proc[p].pc
        /\ proc'[p].stage = proc[p].stage /\ proc'[p].old = proc[p].old
        /\ proc'[p].seen = proc[p].seen /\ proc'[p].fresh = proc[p].fresh
        /\ proc'[p].owns = proc[p].owns /\ proc'[p].swapped = proc[p].swapped
    BY <2>1, <2>2 DEF Process
  <2>4. UNCHANGED <<file, used, db, published, ownership>>
    BY <1>1 DEF service, records
  <2>5. ProcOK(proc[p])'
    BY <2>1, <2>3, <2>4 DEF ProcOK, PlaceOK, FilesOK, ServiceOK
  <2> QED
    BY <1>1, <1>2, <2>2, <2>3, <2>5, QuietStep
<1> QED
  BY <1>3, <1>4

LEMMA InitInv == Init => IInv
<1> SUFFICES ASSUME NEW s \in Secrets,
                    /\ file = [q \in Paths |-> IF q = Current THEN s ELSE Absent]
                    /\ used = {s} /\ db = s /\ app = Current /\ published = s
                    /\ ownership = [secret |-> s, retained |-> {}, others |-> 0]
                    /\ holder = None /\ interrupted = FALSE /\ report = "none"
                    /\ proc = [p \in Procs |-> Idle(s)] /\ faults = 0
             PROVE  IInv
  BY DEF Init
<1>1. Current \in Paths /\ Absent \notin Secrets
  BY PathFacts, ContentsAssumption
<1>2. TypeOK
  BY <1>1, IdleType DEF TypeOK, Contents, Ownership
<1>3. LockOK /\ ProcsOK
  BY NobodyAssumption DEF LockOK, ProcsOK, ProcOK, PlaceOK, Idle, Unlocked, Over, Early
<1>4. UsedOK /\ DatabasePasswordIsKept
  BY <1>1 DEF UsedOK, DatabasePasswordIsKept, OnDisk
<1> QED
  BY <1>2, <1>3, <1>4 DEF IInv

LEMMA NextInv == IInv /\ [Next]_vars => IInv'
<1> SUFFICES ASSUME IInv, [Next]_vars PROVE IInv'
  OBVIOUS
<1>1. CASE UNCHANGED vars
  <2>1. UNCHANGED <<file, used, db, app, published, ownership, holder, interrupted, report,
                    proc, faults>>
    BY <1>1 DEF vars, service, records, outcome
  <2>2. TypeOK' /\ LockOK' /\ UsedOK' /\ DatabasePasswordIsKept'
    BY <2>1 DEF IInv, TypeOK, LockOK, UsedOK, DatabasePasswordIsKept, OnDisk
  <2>3. ProcsOK'
    BY <2>1 DEF IInv, ProcsOK, ProcOK, PlaceOK, FilesOK, ServiceOK
  <2> QED
    BY <2>2, <2>3 DEF IInv
<1>2. CASE Next
  <2>1. PICK p \in Procs : Command(p) \/ Effect(p) \/ Rollback(p) \/ Breaks(p)
    BY <1>2 DEF Next
  <2>2. CASE Command(p)
    BY <2>2, UnlockedInv, AcquireInv, BeginInv, CheckInv, EndInv DEF Command
  <2>3. CASE Effect(p)
    BY <2>3, MoveOnInv, RecordInv, ServiceInv, RecordsInv, WriteInv, RenameInv DEF Effect
  <2>4. CASE Rollback(p)
    BY <2>4, MoveOnInv, RecordInv, WriteInv, RenameInv DEF Rollback
  <2>5. CASE Breaks(p)
    BY <2>5, MoveOnInv, RecordInv, ServiceInv, RecordsInv, WriteInv, RenameInv, EndInv DEF Breaks
  <2> QED
    BY <2>1, <2>2, <2>3, <2>4, <2>5
<1> QED
  BY <1>1, <1>2

LEMMA Invariance == Spec => []IInv
BY InitInv, NextInv, PTL DEF Spec

(***************************************************************************)
(* The theorems.                                                           *)
(***************************************************************************)
\* The files, records and processes are always well formed.
THEOREM TypeCorrect == Spec => []TypeOK
<1>1. IInv => TypeOK
  BY DEF IInv
<1> QED
  BY <1>1, Invariance, PTL

\* However many rotations fail, die or are tried again, and wherever they do,
\* the password that PostgreSQL wants is in a file.
THEOREM PasswordNeverLost == Spec => []DatabasePasswordIsKept
<1>1. IInv => DatabasePasswordIsKept
  BY DEF IInv
<1> QED
  BY <1>1, Invariance, PTL

\* Only the undone swap removes the last file of the published secret.
THEOREM PublishedNeverLost == Spec => PublishedIsKept
<1>1. IInv /\ [Next]_vars =>
         [\A s \in Secrets :
             s = published /\ OnDisk(s) =>
                 OnDisk(s)' \/ \E p \in Procs : proc[p].pc = "unlink" /\ file[Current] = Absent]_vars
  <2> SUFFICES ASSUME IInv, [Next]_vars, NEW s \in Secrets, s = published, OnDisk(s)
               PROVE  OnDisk(s)' \/ \E p \in Procs : proc[p].pc = "unlink" /\ file[Current] = Absent
    OBVIOUS
  <2>1. CASE UNCHANGED file
    BY <2>1 DEF OnDisk
  <2>2. CASE ~UNCHANGED file
    <3>1. PICK p \in Procs : Command(p) \/ Effect(p) \/ Rollback(p) \/ Breaks(p)
      BY <2>2 DEF Next, vars
    <3>2. \/ CreateCandidate(p) \/ WriteCandidate(p) \/ WriteFails(p) \/ DropCandidate(p)
          \/ Link(p) \/ UnlinkRetained(p) \/ DiscardCandidate(p)
          \/ RenameCandidate(p) \/ Unswap(p) \/ RestoreCandidate(p)
          \/ RestoreCurrent(p) \/ RestoreNotSynced(p)
      <4>1. ~Command(p)
        BY <2>2 DEF Command, ReadOwnership, ReadSecretSet, AcquireOperation, LockRefused,
                    BeginRotation, CheckState, ChangeOtherAsset, CommitRotation, Fail
      <4>2. Effect(p) => \/ CreateCandidate(p) \/ WriteCandidate(p) \/ DropCandidate(p)
                         \/ Link(p) \/ UnlinkRetained(p) \/ RenameCandidate(p) \/ Unswap(p)
        BY <2>2 DEF Effect, IntendEffect, RecordEffect, RecordUnproven, CandidateExists, AlterRole,
                    SecretUnsafe, Deploy, SyncDirectory, WriteSecretSet, WriteOwnership
      <4>3. Rollback(p) => RestoreCandidate(p) \/ RestoreCurrent(p) \/ DiscardCandidate(p)
        BY <2>2 DEF Rollback, StartRollback, RecordRollback
      <4>4. Breaks(p) => WriteFails(p) \/ RestoreNotSynced(p)
        BY <2>2 DEF Breaks, AppendFails, RecordFails, DropFails, AlterFails, DeployFails, SwapFails,
                    PublishFails, RollbackFails, BeginFails, Abort, Crash
      <4> QED
        BY <3>1, <4>1, <4>2, <4>3, <4>4
    <3> QED
      BY <3>2, WriteInv, RenameInv
  <2> QED
    BY <2>1, <2>2
<1> QED
  BY <1>1, Invariance, PTL DEF Spec, PublishedIsKept

\* No rotation writes back an ownership record that another command has
\* changed since.
THEOREM OwnershipNeverLost == Spec => NoLostOwnership
<1>1. IInv /\ [Next]_vars => [ownership'.others >= ownership.others]_vars
  <2> SUFFICES ASSUME IInv, [Next]_vars PROVE ownership'.others >= ownership.others
    OBVIOUS
  <2>1. ownership \in Ownership /\ ownership.others \in Nat
    BY DEF IInv, TypeOK, Ownership
  <2>2. CASE UNCHANGED ownership
    BY <2>1, <2>2
  <2>3. CASE ~UNCHANGED ownership
    <3>1. PICK p \in Procs : Command(p) \/ Effect(p) \/ Rollback(p) \/ Breaks(p)
      BY <2>3 DEF Next, vars, records
    <3>2. ChangeOtherAsset(p) \/ WriteOwnership(p) \/ PublishFails(p)
      <4>1. Command(p) => ChangeOtherAsset(p)
        BY <2>3 DEF Command, ReadOwnership, ReadSecretSet, AcquireOperation, LockRefused,
                    BeginRotation, CheckState, CommitRotation, Fail, records
      <4>2. Effect(p) => WriteOwnership(p)
        BY <2>3 DEF Effect, IntendEffect, RecordEffect, RecordUnproven, CandidateExists, AlterRole,
                    SecretUnsafe, Deploy, SyncDirectory, WriteSecretSet, CreateCandidate,
                    WriteCandidate, DropCandidate, Link, UnlinkRetained, RenameCandidate, Unswap,
                    records
      <4>3. ~Rollback(p)
        BY <2>3 DEF Rollback, StartRollback, RecordRollback, RestoreCandidate, RestoreCurrent,
                    DiscardCandidate, records
      <4>4. Breaks(p) => PublishFails(p)
        BY <2>3 DEF Breaks, AppendFails, RecordFails, DropFails, AlterFails, DeployFails, SwapFails,
                    RollbackFails, BeginFails, Abort, Crash, WriteFails, RestoreNotSynced, records
      <4> QED
        BY <3>1, <4>1, <4>2, <4>3, <4>4
    <3>3. CASE ChangeOtherAsset(p)
      BY <2>1, <3>3 DEF ChangeOtherAsset, Ownership
    <3>4. CASE WriteOwnership(p) \/ PublishFails(p)
      <4>1. proc[p].pc \notin Over /\ ownership' = NewOwnership(p)
        BY <2>3, <3>4 DEF WriteOwnership, PublishFails, Over, Early, Unlocked
      <4>2. proc[p].seen \in Ownership /\ proc[p].seen.others = ownership.others
        BY <4>1, Working DEF FilesOK
      <4>3. NewOwnership(p).others = proc[p].seen.others
        BY <4>2 DEF NewOwnership, Ownership
      <4> QED
        BY <2>1, <4>1, <4>2, <4>3
    <3> QED
      BY <3>2, <3>3, <3>4
  <2> QED
    BY <2>2, <2>3
<1> QED
  BY <1>1, Invariance, PTL DEF Spec, NoLostOwnership

-----------------------------------------------------------------------------
(***************************************************************************)
(* Disagreements are recorded, and a success is complete.                  *)
(***************************************************************************)

\* As long as the record is that of the current file, whatever it retains has
\* its file: only in that state does a rotation begin.
Coherent ==
    file[Current] = published /\ published = ownership.secret =>
        \A s \in ownership.retained : file[Retained(s)] = s

\* The ownership record that a rotation publishes.
NewRecord(x) == [x.seen EXCEPT !.secret = x.fresh, !.retained = @ \cup {x.old}]

\* The current file is still the old one.
AtOld(x) ==
    \/ x.stage \in {"candidate", "candidate-readiness"}
    \/ x.pc \in {"link", "rename"}
    \/ x.stage = "swap" /\ x.pc = "intend"

\* What a rotation keeps from the check to its last word, whatever fails: it
\* does not touch what others have retained, and as long as the new secret is
\* current the old one is retained.
KeptOK(x) ==
    /\ x.seen.secret = x.old
    /\ ownership \in {x.seen, NewRecord(x)}
    /\ \A s \in x.seen.retained : s # x.old /\ file[Retained(s)] = s
    /\ ~x.swapped => file[Current] # x.fresh
    /\ file[Current] = x.fresh \/ x.pc = "restoring" => file[Retained(x.old)] = x.old
    /\ AtOld(x) => file[Current] = x.old

\* What a rotation that has not failed has reached.
ReachedOK(x) ==
    /\ x.stage = "active-readiness" /\ x.pc \in {"deploy", "record"} => db = x.fresh
    /\ x.stage = "active-readiness" /\ x.pc = "record" => app = Current
    /\ x.stage = "publication" /\ x.pc \notin {"unproven", "thrown"} =>
          db = x.fresh /\ app = Current
    /\ x.stage = "publication" /\ x.pc \in {"write-ownership", "record"} => published = x.fresh
    /\ x.stage = "publication" /\ x.pc = "record" => ownership = NewRecord(x)

\* Before its first effect is on record a rotation has changed nothing that
\* matters, and after its last one everything; in between it will ask for
\* recovery.
TidyOK(x) ==
    /\ x.pc \in Over => Coherent
    /\ x.stage = "candidate" /\ ~interrupted => Consistent
    /\ x.stage = "done" => Consistent
    /\ x.stage \notin {"candidate", "done"} => x.incomplete
    /\ x.pc \notin Over => KeptOK(x) /\ ReachedOK(x)

TidyInv ==
    /\ holder = None => Coherent /\ SuccessIsComplete /\ DisagreementIsRecorded
    /\ \A p \in Procs : proc[p].pc \in {"previewed", "begun", "check"} =>
          proc[p].seen.secret = proc[p].old
    /\ \A p \in Procs : proc[p].pc \notin Unlocked => TidyOK(proc[p])

LEMMA PathsDiffer ==
    ASSUME NEW s \in Secrets, NEW r \in Secrets
    PROVE  /\ Retained(s) \in Paths /\ Retained(s) # Current /\ Retained(s) # Candidate(r)
           /\ s # r => Retained(s) # Retained(r)
BY DEF Current, Candidate, Retained, Paths

\* Of a process beyond the check.
LEMMA TidyWorking ==
    ASSUME IInv, TidyInv, NEW p \in Procs, proc[p].pc \notin Over
    PROVE  /\ TidyOK(proc[p]) /\ KeptOK(proc[p]) /\ ReachedOK(proc[p])
           /\ holder = p /\ holder # None
           /\ proc[p].seen.retained \subseteq Secrets
<1>1. proc[p].pc \notin Unlocked /\ holder = p /\ proc[p].seen \in Ownership
  BY Working
<1> QED
  BY <1>1, NobodyAssumption DEF TidyInv, TidyOK, Ownership

\* When a rotation is over, its record and the files agree as they should.
LEMMA KeptIsCoherent ==
    ASSUME IInv, NEW p \in Procs, proc[p].pc \notin Over, KeptOK(proc[p])
    PROVE  Coherent
<1> DEFINE x == proc[p]
<1>1. x.seen \in Ownership /\ x.old \in Secrets /\ x.fresh \in Secrets
  BY Working
<1>2. CASE ownership = x.seen
  BY <1>2 DEF KeptOK, Coherent
<1>3. CASE ownership = NewRecord(x)
  <2>1. ownership.secret = x.fresh /\ ownership.retained = x.seen.retained \cup {x.old}
    BY <1>1, <1>3 DEF NewRecord, Ownership
  <2> HIDE DEF x
  <2>2. KeptOK(x)
    BY DEF x
  <2> QED
    BY <2>1, <2>2 DEF KeptOK, Coherent
<1> QED
  BY <1>2, <1>3 DEF KeptOK

\* A step of the process that has the lock and keeps it.
LEMMA TidyHeld ==
    ASSUME IInv, TidyInv, NEW p \in Procs, holder = p, holder' = p,
           \A q \in Procs : q # p => proc'[q] = proc[q],
           proc'[p].pc \in {"previewed", "begun", "check"} => proc'[p].seen.secret = proc'[p].old,
           TidyOK(proc[p])'
    PROVE  TidyInv'
<1>1. \A q \in Procs : q # p => proc[q].pc \in Unlocked
  BY DEF IInv, LockOK
<1> QED
  BY <1>1, NobodyAssumption DEF TidyInv

\* The fields of a process that say which rotation it is.
SameRotation(p) ==
    /\ proc'[p].old = proc[p].old /\ proc'[p].seen = proc[p].seen
    /\ proc'[p].fresh = proc[p].fresh

\* A step that moves the process, and changes no file but its candidate.
LEMMA TidyMoves ==
    ASSUME IInv, TidyInv, NEW p \in Procs, holder = p, holder' = p,
           \A q \in Procs : q # p => proc'[q] = proc[q],
           SameRotation(p), proc'[p].swapped = proc[p].swapped,
           file'[Current] = file[Current],
           \A s \in Secrets : file'[Retained(s)] = file[Retained(s)],
           UNCHANGED <<service, records, interrupted>>,
           proc'[p].pc \notin Over => proc[p].pc \notin Over,
           proc'[p].pc \in Early => proc[p].pc \in {"begun", "check"},
           proc'[p].stage = "candidate" => proc[p].stage = "candidate",
           proc'[p].stage = "done" => proc[p].stage = "done" \/ Consistent,
           proc'[p].stage \notin {"candidate", "done"} => proc'[p].incomplete,
           proc'[p].pc = "restoring" => file[Retained(proc[p].old)] = proc[p].old,
           proc'[p].pc \notin Over /\ AtOld(proc'[p]) => file[Current] = proc[p].old,
           proc'[p].pc \notin Over => ReachedOK(proc[p])'
    PROVE  TidyInv'
<1> DEFINE x == proc[p]
<1>1. /\ TidyOK(x) /\ ownership \in Ownership /\ x.old \in Secrets
      /\ UNCHANGED <<db, app, published, ownership>>
  BY DEF TidyInv, IInv, TypeOK, Process, LockOK, service, records
<1>2. ownership.retained \subseteq Secrets
  BY <1>1 DEF Ownership
<1>3. Consistent => Consistent'
  BY <1>1, <1>2 DEF Consistent
<1>4. Coherent => Coherent'
  BY <1>1, <1>2 DEF Coherent
<1>5. Coherent
  <2>1. CASE x.pc \in Over
    BY <1>1, <2>1 DEF TidyOK
  <2>2. CASE x.pc \notin Over
    BY <2>2, TidyWorking, KeptIsCoherent
  <2> QED
    BY <2>1, <2>2
<1>6. ASSUME proc'[p].pc \notin Over PROVE KeptOK(proc[p])'
  <2>1. KeptOK(x) /\ x.seen.retained \subseteq Secrets
    BY <1>6, TidyWorking
  <2>2. NewRecord(proc'[p]) = NewRecord(x)
    BY DEF NewRecord, SameRotation
  <2> QED
    BY <1>1, <1>6, <2>1, <2>2 DEF KeptOK, SameRotation
<1>7. TidyOK(proc[p])'
  BY <1>1, <1>3, <1>4, <1>5, <1>6 DEF TidyOK
<1>8. proc'[p].pc \in {"previewed", "begun", "check"} => proc'[p].seen.secret = proc'[p].old
  BY DEF TidyInv, SameRotation, Early, Unlocked
<1> QED
  BY <1>7, <1>8, TidyHeld

\* A step beyond the check that only moves the process within its stage.
LEMMA TidyGoto ==
    ASSUME IInv, TidyInv, NEW p \in Procs, proc[p].pc \notin Over,
           NEW pc \in Pcs, Goto(p, pc), pc \notin Early, pc # "restoring",
           file'[Current] = file[Current],
           \A s \in Secrets : file'[Retained(s)] = file[Retained(s)],
           UNCHANGED <<service, records, outcome>>,
           pc \in {"intend", "link", "rename"} => AtOld(proc[p]),
           \/ pc \in {"unproven", "thrown", "catch"}
           \/ proc[p].stage \notin {"active-readiness", "publication"}
           \/ ReachedOK(proc[p])'
    PROVE  TidyInv'
<1>1. /\ TidyOK(proc[p]) /\ KeptOK(proc[p]) /\ holder = p
      /\ UNCHANGED <<holder, interrupted>>
  BY TidyWorking DEF outcome
<1>2. /\ \A q \in Procs : q # p => proc'[q] = proc[q]
      /\ proc'[p].pc = pc /\ proc'[p].stage = proc[p].stage
      /\ SameRotation(p) /\ proc'[p].swapped = proc[p].swapped
  BY GotoFacts DEF SameRotation
<1>3. proc'[p].incomplete = proc[p].incomplete
  BY DEF IInv, TypeOK, Goto, Process
<1>4. proc'[p].stage \notin {"candidate", "done"} => proc'[p].incomplete
  BY <1>1, <1>2, <1>3 DEF TidyOK
<1>5. AtOld(proc'[p]) => file[Current] = proc[p].old
  BY <1>1, <1>2 DEF AtOld, KeptOK
<1>6. pc \notin Over => ReachedOK(proc[p])'
  <2>1. pc # "catch" /\ pc \in {"unproven", "thrown"} => ReachedOK(proc[p])'
    BY <1>2 DEF ReachedOK
  <2>2. proc[p].stage \notin {"active-readiness", "publication"} => ReachedOK(proc[p])'
    BY <1>2 DEF ReachedOK
  <2> QED
    BY <2>1, <2>2 DEF Over
<1>7. proc'[p].pc # "restoring" /\ proc'[p].pc \notin Early
  BY <1>2
<1> QED
  BY <1>1, <1>2, <1>4, <1>5, <1>6, <1>7, TidyMoves

LEMMA MoveOnTidy ==
    ASSUME IInv, TidyInv, NEW p \in Procs,
           \/ IntendEffect(p) \/ AppendFails(p) \/ CandidateExists(p) \/ DropFails(p)
           \/ SecretUnsafe(p) \/ SyncDirectory(p) \/ SwapFails(p) \/ RollbackFails(p)
           \/ RecordRollback(p)
    PROVE  TidyInv'
<1> USE DEF Over, Early, Unlocked
<1>1. proc[p].pc \notin Over /\ UNCHANGED <<file, service, records, outcome>>
  BY DEF IntendEffect, AppendFails, CandidateExists, DropFails, SecretUnsafe, SyncDirectory,
         SwapFails, RollbackFails, RecordRollback
<1>2. /\ PlaceOK(proc[p]) /\ ReachedOK(proc[p]) /\ proc[p].stage \in Stages
      /\ UNCHANGED <<db, app, published, ownership>>
  BY <1>1, Working, TidyWorking DEF service, records
<1>3. ASSUME NEW pc \in {"unproven", "thrown", "catch", "unlink", "unswap"}, Goto(p, pc),
             pc \in {"unlink", "unswap"} => proc[p].stage = "swap"
      PROVE  TidyInv'
  BY <1>1, <1>3, TidyGoto DEF Pcs
<1>4. CASE IntendEffect(p) /\ ~proc[p].aborted
  <2>1. /\ proc[p].pc = "intend" /\ proc[p].stage \notin {"done", "rollback"}
        /\ Goto(p, FirstCall(proc[p].stage))
    BY <1>2, <1>4 DEF IntendEffect, PlaceOK
  <2>2. PICK pc \in {"create", "apply", "link", "write-set"} :
           /\ pc = FirstCall(proc[p].stage)
           /\ pc = "link" => proc[p].stage = "swap"
    BY DEF FirstCall
  <2>3. Goto(p, pc) /\ pc \in Pcs
    BY <2>1, <2>2 DEF Pcs
  <2>4. pc \in {"intend", "link", "rename"} => AtOld(proc[p])
    BY <2>1, <2>2 DEF AtOld
  <2>5. proc'[p].pc = pc /\ proc'[p].stage = proc[p].stage /\ proc'[p].fresh = proc[p].fresh
    BY <2>3, GotoFacts
  <2>6. ReachedOK(proc[p])'
    BY <1>2, <2>1, <2>5 DEF ReachedOK
  <2> QED
    BY <1>1, <2>3, <2>4, <2>6, TidyGoto
<1>5. CASE IntendEffect(p) /\ proc[p].aborted
  BY <1>3, <1>5 DEF IntendEffect
<1>6. CASE AppendFails(p)
  BY <1>2, <1>3, <1>6 DEF AppendFails, PlaceOK
<1>7. CASE CandidateExists(p) \/ SecretUnsafe(p) \/ DropFails(p) \/ RollbackFails(p)
           \/ RecordRollback(p)
  BY <1>3, <1>7 DEF CandidateExists, SecretUnsafe, DropFails, RollbackFails, RecordRollback, Throws
<1>8. CASE SwapFails(p)
  BY <1>2, <1>3, <1>8 DEF SwapFails, Throws, PlaceOK
<1>9. CASE SyncDirectory(p)
  <2>1. Goto(p, "record") /\ proc[p].stage = "swap"
    BY <1>2, <1>9 DEF SyncDirectory, PlaceOK
  <2> QED
    BY <1>1, <2>1, TidyGoto DEF Pcs
<1> QED
  BY <1>4, <1>5, <1>6, <1>7, <1>8, <1>9

\* A verified effect ends a stage; the last one has made everything consistent.
LEMMA RecordTidy ==
    ASSUME IInv, TidyInv, NEW p \in Procs,
           RecordEffect(p) \/ RecordUnproven(p) \/ RecordFails(p) \/ StartRollback(p)
    PROVE  TidyInv'
<1> USE DEF Over, Early, Unlocked
<1> DEFINE x == proc[p]
<1>1. /\ x.pc \notin Over /\ UNCHANGED <<file, service, records, outcome>>
  BY DEF RecordEffect, RecordUnproven, RecordFails, StartRollback
<1>2. /\ proc \in [Procs -> Process] /\ x \in Process /\ x.stage \in Stages
      /\ PlaceOK(x) /\ FilesOK(x) /\ ServiceOK(x) /\ x.seen \in Ownership
      /\ x.old \in Secrets /\ x.fresh \in Secrets
      /\ TidyOK(x) /\ KeptOK(x) /\ ReachedOK(x) /\ holder = p
      /\ UNCHANGED <<holder, interrupted, file, db, app, published, ownership>>
  BY <1>1, Working, TidyWorking DEF IInv, TypeOK, outcome, service, records
<1>3. /\ \A q \in Procs : q # p => proc'[q] = proc[q]
      /\ SameRotation(p) /\ proc'[p].swapped = x.swapped
      /\ x.incomplete => proc'[p].incomplete
  BY <1>2 DEF RecordEffect, RecordUnproven, RecordFails, StartRollback, Process, SameRotation
<1>4. CASE RecordEffect(p)
  <2>1. /\ x.pc = "record" /\ proc'[p].pc = "intend" /\ proc'[p].stage = After(x.stage)
        /\ proc'[p].incomplete
    BY <1>2, <1>4 DEF RecordEffect, Process
  <2>2. x.stage \in {"candidate", "candidate-readiness", "swap", "active-readiness", "publication"}
    BY <1>2, <2>1 DEF PlaceOK, Stages
  <2>3. AtOld(proc'[p]) => AtOld(x)
    BY <2>1, <2>2 DEF AtOld, After
  <2>4. After(x.stage) # "candidate" /\ After(x.stage) # "rollback"
        /\ (After(x.stage) = "publication" => x.stage = "active-readiness")
        /\ (After(x.stage) = "done" => x.stage = "publication")
    BY <2>2 DEF After
  <2>5. ReachedOK(proc[p])'
    BY <1>2, <1>3, <2>1, <2>4 DEF ReachedOK, SameRotation
  <2>6. x.stage = "publication" => Consistent
    <3> SUFFICES ASSUME x.stage = "publication" PROVE Consistent
      OBVIOUS
    <3>1. /\ db = x.fresh /\ app = Current /\ published = x.fresh /\ ownership = NewRecord(x)
          /\ file[Current] = x.fresh
      BY <1>2, <2>1 DEF ReachedOK, PlaceOK, FilesOK
    <3>2. ownership.secret = x.fresh /\ ownership.retained = x.seen.retained \cup {x.old}
      BY <1>2, <3>1 DEF NewRecord, Ownership
    <3>3. \A s \in ownership.retained : file[Retained(s)] = s
      BY <1>2, <3>1, <3>2 DEF KeptOK
    <3> QED
      BY <3>1, <3>2, <3>3 DEF Consistent
  <2>7. AtOld(proc'[p]) => file[Current] = x.old
    BY <1>2, <2>3 DEF KeptOK
  <2> QED
    BY <1>1, <1>2, <1>3, <2>1, <2>4, <2>5, <2>6, <2>7, TidyMoves
<1>5. CASE RecordUnproven(p) \/ RecordFails(p)
  <2>1. proc'[p].pc \in {"thrown", "unproven"} /\ proc'[p].stage = x.stage
    BY <1>2, <1>5 DEF RecordUnproven, RecordFails, Process
  <2>2. ReachedOK(proc[p])'
    BY <2>1, <1>2, <1>5 DEF ReachedOK
  <2>3. AtOld(proc'[p]) => file[Current] = x.old
    BY <1>2, <2>1 DEF AtOld, KeptOK
  <2>4. proc'[p].stage \notin {"candidate", "done"} => proc'[p].incomplete
    BY <1>2, <1>3, <2>1 DEF TidyOK
  <2> QED
    BY <1>1, <1>2, <1>3, <2>1, <2>2, <2>3, <2>4, TidyMoves
<1>6. CASE StartRollback(p)
  <2>1. /\ x.pc = "thrown" /\ x.stage # "candidate" /\ proc'[p].stage = "rollback"
        /\ proc'[p].pc \in {"restore", "apply"}
    BY <1>2, <1>6 DEF StartRollback, Process
  <2>2. x.incomplete
    BY <1>2, <2>1 DEF PlaceOK, TidyOK
  <2>3. ReachedOK(proc[p])' /\ ~AtOld(proc'[p])
    BY <2>1 DEF ReachedOK, AtOld
  <2> QED
    BY <1>1, <1>2, <1>3, <2>1, <2>2, <2>3, TidyMoves
<1> QED
  BY <1>4, <1>5, <1>6

\* After a step as well.
LEMMA KeptIsCoherentNext ==
    ASSUME NEW p \in Procs, proc'[p].seen \in Ownership, KeptOK(proc[p])'
    PROVE  Coherent'
<1>1. CASE ownership' = proc'[p].seen
  BY <1>1 DEF KeptOK, Coherent
<1>2. CASE ownership' = NewRecord(proc'[p])
  <2>1. ownership'.secret = proc'[p].fresh
        /\ ownership'.retained = proc'[p].seen.retained \cup {proc'[p].old}
    BY <1>2 DEF NewRecord, Ownership
  <2> QED
    BY <2>1 DEF KeptOK, Coherent
<1> QED
  BY <1>1, <1>2 DEF KeptOK

\* A step of an effect beyond the first one, or of the rollback.
LEMMA TidyEffect ==
    ASSUME IInv, TidyInv, NEW p \in Procs, proc[p].pc \notin Over,
           proc[p].stage \notin {"candidate", "done"}, holder' = holder,
           \A q \in Procs : q # p => proc'[q] = proc[q],
           SameRotation(p), proc'[p].stage = proc[p].stage,
           proc'[p].incomplete = proc[p].incomplete, proc'[p].pc \notin Early,
           KeptOK(proc[p])', proc'[p].pc # "catch" => ReachedOK(proc[p])'
    PROVE  TidyInv'
<1>1. holder = p /\ holder' = p /\ proc[p].seen \in Ownership /\ TidyOK(proc[p])
  BY Working, TidyWorking
<1>2. Coherent'
  BY <1>1, KeptIsCoherentNext DEF SameRotation
<1>3. TidyOK(proc[p])'
  BY <1>1, <1>2 DEF TidyOK, Over
<1>4. proc'[p].pc \notin {"previewed", "begun", "check"}
  BY DEF Early, Unlocked
<1> QED
  BY <1>1, <1>3, <1>4, TidyHeld

LEMMA ServiceTidy ==
    ASSUME IInv, TidyInv, NEW p \in Procs,
           AlterRole(p) \/ AlterFails(p) \/ Deploy(p) \/ DeployFails(p)
    PROVE  TidyInv'
<1> USE DEF Over, Early, Unlocked
<1>1. proc[p].pc \in {"apply", "deploy"}
      /\ UNCHANGED <<file, published, ownership, holder, interrupted, report>>
  BY DEF AlterRole, AlterFails, Deploy, DeployFails, records, outcome
<1>2. /\ PlaceOK(proc[p]) /\ FilesOK(proc[p]) /\ KeptOK(proc[p]) /\ ReachedOK(proc[p])
      /\ proc \in [Procs -> Process] /\ proc[p] \in Process
  BY <1>1, Working, TidyWorking DEF IInv, TypeOK
<1>3. proc[p].stage \in {"candidate-readiness", "active-readiness", "rollback"}
  BY <1>1, <1>2 DEF PlaceOK
<1>4. PICK pc \in {"deploy", "write-set", "record", "catch", "unproven"} :
         /\ Goto(p, pc)
         /\ pc = "deploy" => AlterRole(p)
         /\ pc = "record" => Deploy(p)
  BY DEF AlterRole, AlterFails, Deploy, DeployFails, Throws
<1>5. /\ \A q \in Procs : q # p => proc'[q] = proc[q]
      /\ proc'[p].pc = pc /\ proc'[p].stage = proc[p].stage
      /\ SameRotation(p) /\ proc'[p].swapped = proc[p].swapped
  BY <1>4, GotoFacts DEF Pcs, SameRotation
<1>6. proc'[p].incomplete = proc[p].incomplete
  BY <1>2, <1>4 DEF Goto, Process
<1>7. KeptOK(proc[p])'
  <2>1. AtOld(proc'[p]) => AtOld(proc[p])
    BY <1>3, <1>5 DEF AtOld
  <2>2. NewRecord(proc'[p]) = NewRecord(proc[p])
    BY <1>5 DEF NewRecord, SameRotation
  <2> QED
    BY <1>1, <1>2, <1>5, <2>1, <2>2 DEF KeptOK, SameRotation
<1>8. ReachedOK(proc[p])'
  <2>1. CASE proc[p].stage = "active-readiness"
    <3>1. file[Current] = proc[p].fresh /\ Applied(p) = Current
      BY <1>1, <1>2, <2>1 DEF PlaceOK, FilesOK, Applied
    <3>2. pc = "deploy" => db' = proc[p].fresh
      BY <1>4, <3>1 DEF AlterRole
    <3>3. pc = "record" => db' = db /\ app' = Current /\ db = proc[p].fresh
      BY <1>2, <1>4, <2>1, <3>1 DEF Deploy, ReachedOK
    <3> QED
      BY <1>5, <2>1, <3>2, <3>3 DEF ReachedOK, SameRotation
  <2>2. CASE proc[p].stage # "active-readiness"
    BY <1>3, <1>5, <2>2 DEF ReachedOK
  <2> QED
    BY <2>1, <2>2
<1> QED
  BY <1>1, <1>3, <1>4, <1>5, <1>6, <1>7, <1>8, TidyEffect

LEMMA RecordsTidy ==
    ASSUME IInv, TidyInv, NEW p \in Procs,
           WriteSecretSet(p) \/ WriteOwnership(p) \/ PublishFails(p)
    PROVE  TidyInv'
<1> USE DEF Over, Early, Unlocked
<1>1. proc[p].pc \in {"write-set", "write-ownership"}
      /\ UNCHANGED <<file, db, app, holder, interrupted, report>>
  BY DEF WriteSecretSet, WriteOwnership, PublishFails, service, outcome
<1>2. /\ PlaceOK(proc[p]) /\ FilesOK(proc[p]) /\ KeptOK(proc[p]) /\ ReachedOK(proc[p])
      /\ proc \in [Procs -> Process] /\ proc[p] \in Process
  BY <1>1, Working, TidyWorking DEF IInv, TypeOK
<1>3. proc[p].stage \in {"publication", "rollback"}
  BY <1>1, <1>2 DEF PlaceOK
<1>4. PICK pc \in {"write-ownership", "discard", "record", "catch", "unproven"} :
         /\ Goto(p, pc)
         /\ pc = "write-ownership" => WriteSecretSet(p)
         /\ pc = "record" => WriteOwnership(p)
  BY DEF WriteSecretSet, WriteOwnership, PublishFails, Throws
<1>5. /\ \A q \in Procs : q # p => proc'[q] = proc[q]
      /\ proc'[p].pc = pc /\ proc'[p].stage = proc[p].stage
      /\ SameRotation(p) /\ proc'[p].swapped = proc[p].swapped
  BY <1>4, GotoFacts DEF Pcs, SameRotation
<1>6. proc'[p].incomplete = proc[p].incomplete
  BY <1>2, <1>4 DEF Goto, Process
<1>7. NewRecord(proc'[p]) = NewRecord(proc[p])
  BY <1>5 DEF NewRecord, SameRotation
<1>8. KeptOK(proc[p])'
  <2>1. ~AtOld(proc'[p])
    BY <1>3, <1>5 DEF AtOld
  <2>2. ownership' \in {ownership, NewOwnership(p)}
    BY DEF WriteSecretSet, WriteOwnership, PublishFails
  <2>3. ownership' \in {proc[p].seen, NewRecord(proc[p])}
    BY <1>2, <2>2 DEF KeptOK, NewOwnership, NewRecord
  <2> QED
    BY <1>1, <1>2, <1>5, <1>7, <2>1, <2>3 DEF KeptOK, SameRotation
<1>9. ReachedOK(proc[p])'
  <2>1. CASE proc[p].stage = "publication"
    <3>1. db = proc[p].fresh /\ app = Current
      BY <1>1, <1>2, <2>1 DEF ReachedOK
    <3>2. pc = "write-ownership" => published' = proc[p].fresh
      BY <1>4, <2>1 DEF WriteSecretSet, NewSecret
    <3>3. pc = "record" => /\ proc[p].pc = "write-ownership" /\ published' = published
                           /\ ownership' = NewRecord(proc[p])
      BY <1>4, <2>1 DEF WriteOwnership, NewOwnership, NewRecord
    <3>4. pc = "record" => published = proc[p].fresh
      BY <1>2, <2>1, <3>3 DEF ReachedOK
    <3> QED
      BY <1>1, <1>5, <1>7, <2>1, <3>1, <3>2, <3>3, <3>4 DEF ReachedOK, SameRotation
  <2>2. CASE proc[p].stage # "publication"
    BY <1>3, <1>5, <2>2 DEF ReachedOK
  <2> QED
    BY <2>1, <2>2
<1> QED
  BY <1>1, <1>3, <1>4, <1>5, <1>6, <1>8, <1>9, TidyEffect

\* The candidate is the file of no secret that a record names.
LEMMA CandidateTidy ==
    ASSUME IInv, TidyInv, NEW p \in Procs,
           \/ CreateCandidate(p) \/ WriteCandidate(p) \/ WriteFails(p) \/ DropCandidate(p)
           \/ DiscardCandidate(p)
    PROVE  TidyInv'
<1> USE DEF Over, Early, Unlocked
<1> DEFINE x == proc[p]
           c == Candidate(x.old)
<1>1. x.pc \notin Over /\ UNCHANGED <<service, records, outcome>>
  BY DEF CreateCandidate, WriteCandidate, WriteFails, DropCandidate, DiscardCandidate
<1>2. /\ proc \in [Procs -> Process] /\ x \in Process /\ file \in [Paths -> Contents]
      /\ PlaceOK(x) /\ x.old \in Secrets /\ TidyOK(x) /\ KeptOK(x) /\ ReachedOK(x)
      /\ holder = p /\ UNCHANGED <<holder, interrupted>>
  BY <1>1, Working, TidyWorking DEF IInv, TypeOK, outcome
<1>3. PICK v : file' = [file EXCEPT ![c] = v]
  BY DEF CreateCandidate, WriteCandidate, WriteFails, DropCandidate, DiscardCandidate
<1>4. /\ file'[Current] = file[Current]
      /\ \A s \in Secrets : file'[Retained(s)] = file[Retained(s)]
  BY <1>2, <1>3, PathFacts, PathsDiffer
<1>5. ASSUME NEW pc \in {"catch", "compensate", "record"}, Goto(p, pc),
             x.stage \in {"candidate", "rollback"}
      PROVE  TidyInv'
  BY <1>1, <1>4, <1>5, TidyGoto DEF Pcs
<1>6. CASE WriteCandidate(p) \/ DropCandidate(p) \/ DiscardCandidate(p)
  <2>1. x.stage \in {"candidate", "rollback"}
    BY <1>2, <1>6 DEF WriteCandidate, DropCandidate, DiscardCandidate, PlaceOK
  <2> QED
    BY <1>5, <1>6, <2>1 DEF WriteCandidate, DropCandidate, DiscardCandidate
<1>7. CASE CreateCandidate(p) \/ WriteFails(p)
  <2>1. x.stage = "candidate"
    BY <1>2, <1>7 DEF CreateCandidate, WriteFails, PlaceOK
  <2>2. /\ \A q \in Procs : q # p => proc'[q] = proc[q]
        /\ proc'[p].pc \in {"write", "unproven"} /\ proc'[p].stage = x.stage
        /\ SameRotation(p) /\ proc'[p].swapped = x.swapped
    BY <1>2, <1>7 DEF CreateCandidate, WriteFails, Process, SameRotation
  <2>3. ReachedOK(proc[p])'
    BY <2>1, <2>2 DEF ReachedOK
  <2>4. file[Current] = x.old
    BY <1>2, <2>1 DEF KeptOK, AtOld
  <2> QED
    BY <1>1, <1>2, <1>4, <2>1, <2>2, <2>3, <2>4, TidyMoves
<1> QED
  BY <1>6, <1>7

\* The files of the swap and of its undoing.
LEMMA SwapTidy ==
    ASSUME IInv, TidyInv, NEW p \in Procs,
           \/ Link(p) \/ UnlinkRetained(p) \/ RenameCandidate(p) \/ Unswap(p)
           \/ RestoreCandidate(p) \/ RestoreCurrent(p) \/ RestoreNotSynced(p)
    PROVE  TidyInv'
<1> USE DEF Over, Early, Unlocked
<1> DEFINE x == proc[p]
           c == Candidate(x.old)
           r == Retained(x.old)
<1>1. /\ x.pc \in {"link", "unlink", "rename", "unswap", "restore", "restoring"}
      /\ UNCHANGED <<service, records, outcome>>
  BY DEF Link, UnlinkRetained, RenameCandidate, Unswap, RestoreCandidate, RestoreCurrent,
         RestoreNotSynced
<1>2. /\ proc \in [Procs -> Process] /\ x \in Process /\ file \in [Paths -> Contents]
      /\ PlaceOK(x) /\ FilesOK(x) /\ KeptOK(x) /\ ReachedOK(x)
      /\ x.old \in Secrets /\ x.fresh \in Secrets /\ x.seen.retained \subseteq Secrets
      /\ Absent \notin Secrets
      /\ UNCHANGED <<holder, db, app, published, ownership>>
  BY <1>1, Working, TidyWorking DEF IInv, TypeOK, outcome, service, records
<1>3. /\ Current \in Paths /\ c \in Paths /\ r \in Paths
      /\ c # Current /\ r # Current /\ c # r
  BY <1>2, PathFacts
<1>4. x.stage \in {"swap", "rollback"}
  BY <1>1, <1>2 DEF PlaceOK
<1>5. PICK pc \in {"rename", "unproven", "sync", "unlink", "restoring", "apply", "catch"},
           swapped \in BOOLEAN :
         /\ proc' = [proc EXCEPT ![p].pc = pc, ![p].swapped = swapped]
         /\ pc = "rename" => Link(p)
         /\ pc = "restoring" => RestoreCandidate(p)
         /\ Link(p) => ~swapped
         /\ RenameCandidate(p) \/ RestoreCandidate(p) => swapped
  <2>1. CASE RenameCandidate(p)
    BY <1>1, <2>1 DEF RenameCandidate, Link, RestoreCandidate
  <2>2. CASE Unswap(p) \/ RestoreCurrent(p) \/ RestoreNotSynced(p)
    BY <1>1, <2>2 DEF Unswap, RestoreCurrent, RestoreNotSynced, RenameCandidate, Link,
                      RestoreCandidate
  <2>3. CASE Link(p) \/ UnlinkRetained(p) \/ RestoreCandidate(p)
    <3>1. PICK pc \in {"rename", "unproven", "restoring", "catch"} :
             /\ Goto(p, pc)
             /\ pc = "rename" => Link(p)
             /\ pc = "restoring" => RestoreCandidate(p)
      BY <2>3 DEF Link, UnlinkRetained, RestoreCandidate, Throws
    <3>2. proc' = [proc EXCEPT ![p].pc = pc, ![p].swapped = x.swapped] /\ x.swapped \in BOOLEAN
      BY <1>2, <3>1 DEF Goto, Process
    <3>3. (Link(p) => ~x.swapped) /\ (RestoreCandidate(p) => x.swapped) /\ ~RenameCandidate(p)
      BY <1>2, <2>3 DEF PlaceOK, Link, RestoreCandidate, UnlinkRetained, RenameCandidate
    <3> QED
      BY <3>1, <3>2, <3>3
  <2> QED
    BY <2>1, <2>2, <2>3
<1>6. /\ \A q \in Procs : q # p => proc'[q] = proc[q]
      /\ proc'[p].pc = pc /\ proc'[p].stage = x.stage /\ proc'[p].swapped = swapped
      /\ SameRotation(p) /\ proc'[p].incomplete = x.incomplete
  BY <1>2, <1>5 DEF Process, SameRotation
<1>7. ReachedOK(proc[p])'
  BY <1>4, <1>6 DEF ReachedOK
<1>8. ASSUME \A q \in Paths : q \notin {Current, c, r} => file'[q] = file[q],
             ~swapped => file'[Current] # x.fresh,
             file'[Current] = x.fresh \/ pc = "restoring" => file'[r] = x.old,
             pc = "rename" => file'[Current] = x.old
      PROVE  TidyInv'
  <2>1. ASSUME NEW s \in x.seen.retained PROVE s # x.old /\ file'[Retained(s)] = s
    <3>1. s # x.old /\ file[Retained(s)] = s /\ s \in Secrets
      BY <1>2 DEF KeptOK
    <3>2. Retained(s) \in Paths /\ Retained(s) \notin {Current, c, r}
      BY <1>2, <3>1, PathsDiffer
    <3> QED
      BY <1>8, <3>1, <3>2
  <2>2. NewRecord(proc'[p]) = NewRecord(x)
    BY <1>6 DEF NewRecord, SameRotation
  <2>3. AtOld(proc'[p]) => pc = "rename"
    BY <1>4, <1>5, <1>6 DEF AtOld
  <2>4. KeptOK(proc[p])'
    BY <1>2, <1>6, <1>8, <2>1, <2>2, <2>3 DEF KeptOK, SameRotation
  <2> QED
    BY <1>1, <1>2, <1>4, <1>5, <1>6, <1>7, <2>4, TidyEffect
<1>9. CASE Link(p)
  <2>1. file' = [file EXCEPT ![r] = file[Current]] /\ file[Current] = x.old /\ ~x.swapped
    BY <1>2, <1>9 DEF Link, KeptOK, AtOld, PlaceOK
  <2>2. file'[Current] = x.old /\ file'[r] = x.old /\ x.old # x.fresh
    BY <1>2, <1>3, <2>1 DEF FilesOK
  <2> QED
    BY <1>2, <1>3, <1>8, <2>1, <2>2
<1>10. CASE UnlinkRetained(p)
  <2>1. /\ file' = [file EXCEPT ![r] = Absent] /\ x.pc = "unlink"
        /\ pc \notin {"restoring", "rename"}
    BY <1>1, <1>5, <1>10 DEF UnlinkRetained, Link, RestoreCandidate
  <2>2. file[Current] # x.fresh
    BY <1>2, <2>1 DEF KeptOK, PlaceOK
  <2> QED
    BY <1>2, <1>3, <1>8, <2>1, <2>2
<1>11. CASE RenameCandidate(p)
  <2>1. /\ Move(c, Current) /\ x.pc = "rename" /\ swapped
        /\ pc \notin {"restoring", "rename"}
    BY <1>1, <1>5, <1>11 DEF RenameCandidate, Link, RestoreCandidate
  <2>2. file[r] = x.old
    BY <1>2, <2>1 DEF KeptOK, AtOld, FilesOK
  <2>3. /\ \A q \in Paths : q \notin {Current, c} => file'[q] = file[q]
    BY <1>2, <1>3, <2>1, MoveFacts
  <2> QED
    BY <1>3, <1>8, <2>1, <2>2, <2>3
<1>12. CASE Unswap(p)
  <2>1. /\ Move(Current, c) /\ x.pc = "unswap" /\ pc \notin {"restoring", "rename"}
    BY <1>1, <1>5, <1>12 DEF Unswap, Link, RestoreCandidate
  <2>2. /\ file'[Current] = Absent
        /\ \A q \in Paths : q \notin {Current, c} => file'[q] = file[q]
    BY <1>2, <1>3, <2>1, MoveFacts
  <2> QED
    BY <1>2, <1>3, <1>8, <2>1, <2>2
<1>13. CASE RestoreCandidate(p)
  <2>1. /\ Move(Current, c) /\ x.pc = "restore" /\ swapped /\ pc # "rename"
    BY <1>1, <1>5, <1>13 DEF RestoreCandidate, Link
  <2>2. file[r] = x.old
    BY <1>2, <2>1 DEF KeptOK, FilesOK, PlaceOK
  <2>3. \A q \in Paths : q \notin {Current, c} => file'[q] = file[q]
    BY <1>2, <1>3, <2>1, MoveFacts
  <2> QED
    BY <1>3, <1>8, <2>1, <2>2, <2>3
<1>14. CASE RestoreCurrent(p) \/ RestoreNotSynced(p)
  <2>1. /\ Move(r, Current) /\ x.pc = "restoring" /\ pc \notin {"restoring", "rename"}
    BY <1>1, <1>5, <1>14 DEF RestoreCurrent, RestoreNotSynced, Link, RestoreCandidate
  <2>2. file[r] = x.old /\ x.old # x.fresh
    BY <1>2, <2>1 DEF KeptOK, FilesOK
  <2>3. /\ file'[Current] = file[r]
        /\ \A q \in Paths : q \notin {Current, r} => file'[q] = file[q]
    BY <1>2, <1>3, <2>1, MoveFacts
  <2> QED
    BY <1>3, <1>8, <2>1, <2>2, <2>3
<1> QED
  BY <1>9, <1>10, <1>11, <1>12, <1>13, <1>14

\* A step without the lock reads, or changes what no property is about.
LEMMA UnlockedTidy ==
    ASSUME IInv, TidyInv, NEW p \in Procs,
           ReadOwnership(p) \/ ReadSecretSet(p) \/ LockRefused(p)
    PROVE  TidyInv'
<1>1. UNCHANGED <<file, db, app, published, ownership, holder, interrupted, report>>
  BY DEF ReadOwnership, ReadSecretSet, LockRefused, service, records, outcome
<1>2. proc \in [Procs -> Process] /\ published \in Secrets
  BY DEF IInv, TypeOK
<1>3. /\ \A q \in Procs : q # p => proc'[q] = proc[q]
      /\ proc'[p].pc \in Unlocked
      /\ proc'[p].pc = "previewed" => proc'[p].seen.secret = proc'[p].old
  <2>1. CASE ReadOwnership(p)
    BY <1>2, <2>1 DEF ReadOwnership, Process, Unlocked
  <2>2. CASE ReadSecretSet(p) /\ proc[p].seen.secret = published
    BY <1>2, <2>2 DEF ReadSecretSet, Process, Unlocked
  <2>3. CASE ~ReadOwnership(p) /\ ~(ReadSecretSet(p) /\ proc[p].seen.secret = published)
    <3>1. Reset(p)
      BY <2>3 DEF ReadSecretSet, LockRefused
    <3> QED
      BY <1>2, <3>1 DEF Reset, Idle, Unlocked
  <2> QED
    BY <2>1, <2>2, <2>3
<1>4. holder' = None => Coherent' /\ SuccessIsComplete' /\ DisagreementIsRecorded'
  BY <1>1 DEF TidyInv, Coherent, SuccessIsComplete, DisagreementIsRecorded, Consistent
<1>5. ASSUME NEW q \in Procs, proc'[q].pc \notin Unlocked PROVE TidyOK(proc[q])'
  <2>1. q # p /\ proc'[q] = proc[q] /\ TidyOK(proc[q])
    BY <1>3, <1>5 DEF TidyInv
  <2>2. NewRecord(proc'[q]) = NewRecord(proc[q])
    BY <2>1
  <2>3. KeptOK(proc[q]) => KeptOK(proc[q])'
    BY <1>1, <2>1, <2>2 DEF KeptOK, AtOld
  <2>4. ReachedOK(proc[q]) => ReachedOK(proc[q])'
    BY <1>1, <2>1, <2>2 DEF ReachedOK
  <2>5. (Coherent => Coherent') /\ (Consistent => Consistent')
    BY <1>1 DEF Coherent, Consistent
  <2> QED
    BY <1>1, <2>1, <2>3, <2>4, <2>5 DEF TidyOK
<1> QED
  BY <1>3, <1>4, <1>5 DEF TidyInv, Unlocked

LEMMA OtherAssetTidy ==
    ASSUME IInv, TidyInv, NEW p \in Procs, ChangeOtherAsset(p)
    PROVE  TidyInv'
<1>1. /\ UNCHANGED <<file, db, app, published, holder, interrupted, report, proc>>
      /\ holder = None /\ ownership \in Ownership
      /\ ownership' = [ownership EXCEPT !.others = @ + 1]
  BY DEF ChangeOtherAsset, service, outcome, IInv, TypeOK
<1>2. ownership'.secret = ownership.secret /\ ownership'.retained = ownership.retained
  BY <1>1 DEF Ownership
<1>3. Coherent' /\ SuccessIsComplete' /\ DisagreementIsRecorded'
  BY <1>1, <1>2 DEF TidyInv, Coherent, SuccessIsComplete, DisagreementIsRecorded, Consistent
<1>4. \A q \in Procs : proc[q].pc \in Unlocked
  BY <1>1, NobodyAssumption DEF IInv, LockOK
<1> QED
  BY <1>1, <1>3, <1>4 DEF TidyInv

LEMMA AcquireTidy ==
    ASSUME IInv, TidyInv, NEW p \in Procs, AcquireOperation(p)
    PROVE  TidyInv'
<1>1. /\ proc[p].pc = "previewed" /\ Goto(p, "begun") /\ holder = None /\ holder' = p
      /\ UNCHANGED <<file, db, app, published, ownership, interrupted>>
  BY DEF AcquireOperation, service, records
<1>2. /\ \A q \in Procs : q # p => proc'[q] = proc[q]
      /\ proc'[p].pc = "begun" /\ proc'[p].stage = proc[p].stage
      /\ proc'[p].seen = proc[p].seen /\ proc'[p].old = proc[p].old
  BY <1>1, GotoFacts DEF Pcs
<1>3. /\ \A q \in Procs : proc[q].pc \in Unlocked
      /\ proc[p].stage = "candidate"
  BY <1>1, NobodyAssumption DEF IInv, LockOK, ProcsOK, ProcOK, PlaceOK, Early, Unlocked
<1>4. Coherent' /\ (~interrupted' => Consistent')
  BY <1>1 DEF TidyInv, Coherent, DisagreementIsRecorded, Consistent
<1>5. TidyOK(proc[p])'
  BY <1>2, <1>3, <1>4 DEF TidyOK, Over, Early
<1>6. proc'[p].seen.secret = proc'[p].old
  BY <1>1, <1>2 DEF TidyInv
<1> QED
  BY <1>1, <1>2, <1>3, <1>5, <1>6, NobodyAssumption DEF TidyInv

\* The check compares what was read before the lock with what is there.
LEMMA CheckTidy ==
    ASSUME IInv, TidyInv, NEW p \in Procs, CheckState(p)
    PROVE  TidyInv'
<1>1. /\ proc[p].pc = "check" /\ holder = p
      /\ UNCHANGED <<file, db, app, published, ownership, holder, interrupted>>
      /\ proc \in [Procs -> Process] /\ proc[p] \in Process /\ proc[p].stage = "candidate"
      /\ proc[p].old \in Secrets /\ ~proc[p].swapped
  BY DEF CheckState, service, records, outcome, IInv, TypeOK, LockOK, Unlocked, ProcsOK, ProcOK,
         PlaceOK, Early, Process
<1>2. TidyOK(proc[p]) /\ proc[p].seen.secret = proc[p].old
  BY <1>1 DEF TidyInv, Unlocked
<1>3. Coherent /\ (~interrupted => Consistent)
  BY <1>1, <1>2 DEF TidyOK, Over, Early
<1>4. Coherent' /\ (~interrupted' => Consistent')
  BY <1>1, <1>3 DEF Coherent, Consistent
<1>5. CASE Goto(p, "catch")
  <2>1. /\ \A q \in Procs : q # p => proc'[q] = proc[q]
        /\ proc'[p].pc = "catch" /\ proc'[p].stage = proc[p].stage
    BY <1>5, GotoFacts DEF Pcs
  <2>2. TidyOK(proc[p])'
    BY <1>1, <1>4, <2>1 DEF TidyOK, Over, Early
  <2> QED
    BY <1>1, <2>1, <2>2, TidyHeld
<1>6. CASE ~Goto(p, "catch")
  <2>1. PICK s \in Secrets \ used : proc' = [proc EXCEPT ![p].pc = "intend", ![p].fresh = s]
    BY <1>6 DEF CheckState
  <2>2. /\ ownership = proc[p].seen /\ published = proc[p].old
        /\ file[Current] = proc[p].old /\ file[Retained(proc[p].old)] = Absent
    BY <1>6 DEF CheckState, Unchanged
  <2>3. /\ \A q \in Procs : q # p => proc'[q] = proc[q]
        /\ proc'[p].pc = "intend" /\ proc'[p].stage = "candidate" /\ proc'[p].fresh = s
        /\ proc'[p].old = proc[p].old /\ proc'[p].seen = proc[p].seen
    BY <1>1, <2>1 DEF Process
  <2>4. \A i \in ownership.retained : i # proc[p].old /\ file[Retained(i)] = i
    <3>1. \A i \in ownership.retained : file[Retained(i)] = i
      BY <1>2, <1>3, <2>2 DEF Coherent
    <3>2. proc[p].old # Absent
      BY <1>1, ContentsAssumption
    <3> QED
      BY <2>2, <3>1, <3>2
  <2>5. file[Current] # s
    BY <1>1, <2>2 DEF IInv, UsedOK
  <2>6. KeptOK(proc[p])'
    BY <1>1, <1>2, <2>2, <2>3, <2>4, <2>5 DEF KeptOK
  <2>7. ReachedOK(proc[p])'
    BY <2>3 DEF ReachedOK
  <2>8. TidyOK(proc[p])'
    BY <1>4, <2>3, <2>6, <2>7 DEF TidyOK, Over, Early, Unlocked
  <2> QED
    BY <1>1, <2>3, <2>8, TidyHeld
<1> QED
  BY <1>5, <1>6

LEMMA BeginTidy ==
    ASSUME IInv, TidyInv, NEW p \in Procs, BeginRotation(p) \/ Abort(p)
    PROVE  TidyInv'
<1>1. /\ proc \in [Procs -> Process] /\ proc[p] \in Process /\ holder = p
      /\ proc[p].pc \notin Unlocked /\ TidyOK(proc[p]) /\ PlaceOK(proc[p])
      /\ UNCHANGED <<file, service, records, outcome>>
  BY DEF BeginRotation, Abort, IInv, TypeOK, LockOK, TidyInv, Unlocked, ProcsOK, ProcOK
<1>2. UNCHANGED <<holder, interrupted, db, app, published, ownership>>
  BY <1>1 DEF service, records, outcome
<1>3. /\ \A q \in Procs : q # p => proc'[q] = proc[q]
      /\ SameRotation(p) /\ proc'[p].stage = proc[p].stage
      /\ proc'[p].swapped = proc[p].swapped /\ proc'[p].incomplete = proc[p].incomplete
  BY <1>1 DEF BeginRotation, Abort, Goto, Process, SameRotation
<1>4. \/ proc[p].pc = "begun" /\ proc'[p].pc = "check"
      \/ proc'[p].pc = proc[p].pc
  BY <1>1 DEF BeginRotation, Abort, Goto, Process
<1>5. proc'[p].pc \notin Over => proc'[p].pc = proc[p].pc
  BY <1>4 DEF Over, Early
<1>6. proc'[p].pc \notin Over /\ AtOld(proc'[p]) => file[Current] = proc[p].old
  BY <1>1, <1>3, <1>5 DEF AtOld, TidyOK, KeptOK
<1>7. proc'[p].pc \notin Over => ReachedOK(proc[p])'
  <2>1. NewRecord(proc'[p]) = NewRecord(proc[p])
    BY <1>3 DEF NewRecord, SameRotation
  <2> QED
    BY <1>1, <1>2, <1>3, <1>5, <2>1 DEF ReachedOK, TidyOK, SameRotation
<1>8. proc'[p].pc = "restoring" => file[Retained(proc[p].old)] = proc[p].old
  BY <1>1, <1>4, <1>5 DEF TidyOK, KeptOK, Over, Early, Unlocked
<1>9. /\ proc'[p].pc \in Early => proc[p].pc \in {"begun", "check"}
      /\ proc'[p].stage \notin {"candidate", "done"} => proc'[p].incomplete
      /\ file'[Current] = file[Current]
      /\ \A s \in Secrets : file'[Retained(s)] = file[Retained(s)]
  BY <1>1, <1>3, <1>4 DEF TidyOK, Early, Unlocked
<1> QED
  BY <1>1, <1>2, <1>3, <1>5, <1>6, <1>7, <1>8, <1>9, TidyMoves

\* The end of a command, whatever it reports.
LEMMA EndTidy ==
    ASSUME IInv, TidyInv, NEW p \in Procs,
           CommitRotation(p) \/ Fail(p) \/ BeginFails(p) \/ Crash(p)
    PROVE  TidyInv'
<1>1. PICK r \in {"none", "success", "failed", "recovery-required"}, asks \in BOOLEAN :
         /\ End(p, r, asks)
         /\ r = "success" => proc[p].stage = "done"
         /\ asks \/ proc[p].pc = "begun" \/ proc[p].stage = "done" \/ ~proc[p].incomplete
  <2>1. CASE CommitRotation(p)
    BY <2>1 DEF CommitRotation
  <2>2. CASE Fail(p)
    <3>1. PICK asks \in BOOLEAN :
             /\ Asks(p) /\ proc[p].stage # "done" => asks
             /\ End(p, IF proc[p].incomplete THEN "recovery-required" ELSE "failed", asks)
      BY <2>2 DEF Fail
    <3>2. asks \/ proc[p].stage = "done" \/ ~proc[p].incomplete
      BY <3>1 DEF Asks
    <3> QED
      BY <3>1, <3>2
  <2>3. CASE BeginFails(p)
    BY <2>3 DEF BeginFails
  <2>4. CASE Crash(p)
    BY <2>4 DEF Crash
  <2> QED
    BY <2>1, <2>2, <2>3, <2>4
<1>2. /\ proc \in [Procs -> Process] /\ holder = p /\ proc[p].pc \notin Unlocked
      /\ PlaceOK(proc[p]) /\ TidyOK(proc[p])
      /\ UNCHANGED <<file, db, app, published, ownership>>
  BY DEF CommitRotation, Fail, BeginFails, Crash, service, records, IInv, TypeOK, LockOK, Unlocked,
         ProcsOK, ProcOK, TidyInv
<1>3. Coherent
  BY <1>2, KeptIsCoherent DEF TidyOK
<1>4. /\ \A q \in Procs : q # p => proc'[q] = proc[q]
      /\ proc'[p].pc = "idle" /\ holder' = None /\ report' = r
      /\ interrupted' = (interrupted \/ asks)
  BY <1>1, <1>2 DEF End, Reset, Idle
<1>5. proc[p].stage = "done" => Consistent
  BY <1>2 DEF TidyOK
<1>6. ~interrupted /\ ~asks => Consistent
  BY <1>1, <1>2, <1>5 DEF TidyOK, PlaceOK, Early
<1>7. Coherent' /\ SuccessIsComplete' /\ DisagreementIsRecorded'
  BY <1>1, <1>2, <1>3, <1>4, <1>5, <1>6
     DEF Coherent, SuccessIsComplete, DisagreementIsRecorded, Consistent
<1>8. \A q \in Procs : proc'[q].pc \in Unlocked /\ (q = p \/ proc'[q] = proc[q])
  BY <1>2, <1>4 DEF IInv, LockOK, Unlocked
<1>9. ASSUME NEW q \in Procs, proc'[q].pc \in {"previewed", "begun", "check"}
      PROVE  proc'[q].seen.secret = proc'[q].old
  BY <1>4, <1>9 DEF TidyInv
<1> QED
  BY <1>7, <1>8, <1>9 DEF TidyInv

LEMMA TidyInit == Init => TidyInv
<1> SUFFICES ASSUME NEW s \in Secrets,
                    /\ file = [q \in Paths |-> IF q = Current THEN s ELSE Absent]
                    /\ db = s /\ app = Current /\ published = s
                    /\ ownership = [secret |-> s, retained |-> {}, others |-> 0]
                    /\ holder = None /\ interrupted = FALSE
                    /\ proc = [p \in Procs |-> Idle(s)]
             PROVE  TidyInv
  BY DEF Init
<1>1. Consistent /\ Coherent
  BY PathFacts DEF Consistent, Coherent
<1> QED
  BY <1>1 DEF TidyInv, SuccessIsComplete, DisagreementIsRecorded, Idle, Unlocked

LEMMA TidyNext == IInv /\ TidyInv /\ [Next]_vars => TidyInv'
<1> SUFFICES ASSUME IInv, TidyInv, [Next]_vars PROVE TidyInv'
  OBVIOUS
<1>1. CASE UNCHANGED vars
  <2>1. UNCHANGED <<file, db, app, published, ownership, holder, interrupted, report, proc>>
    BY <1>1 DEF vars, service, records, outcome
  <2>2. Coherent' = Coherent /\ Consistent' = Consistent
    BY <2>1 DEF Coherent, Consistent
  <2>3. SuccessIsComplete' = SuccessIsComplete /\ DisagreementIsRecorded' = DisagreementIsRecorded
    BY <2>1, <2>2 DEF SuccessIsComplete, DisagreementIsRecorded
  <2>4. ASSUME NEW p \in Procs, proc[p].pc \notin Unlocked
        PROVE  TidyOK(proc[p])'
    <3> DEFINE x == proc[p]
    <3>1. TidyOK(x)
      BY <2>4 DEF TidyInv
    <3>2. KeptOK(proc[p])' = KeptOK(x)
      BY <2>1 DEF KeptOK, AtOld
    <3>3. ReachedOK(proc[p])' = ReachedOK(x)
      BY <2>1 DEF ReachedOK, NewRecord, AtOld
    <3> QED
      BY <2>1, <2>2, <3>1, <3>2, <3>3 DEF TidyOK
  <2> QED
    BY <2>1, <2>2, <2>3, <2>4 DEF TidyInv
<1>2. CASE Next
  <2>1. PICK p \in Procs : Command(p) \/ Effect(p) \/ Rollback(p) \/ Breaks(p)
    BY <1>2 DEF Next
  <2>2. CASE Command(p)
    BY <2>2, UnlockedTidy, OtherAssetTidy, AcquireTidy, BeginTidy, CheckTidy, EndTidy DEF Command
  <2>3. CASE Effect(p)
    BY <2>3, MoveOnTidy, RecordTidy, ServiceTidy, RecordsTidy, CandidateTidy, SwapTidy DEF Effect
  <2>4. CASE Rollback(p)
    BY <2>4, MoveOnTidy, RecordTidy, CandidateTidy, SwapTidy DEF Rollback
  <2>5. CASE Breaks(p)
    BY <2>5, MoveOnTidy, RecordTidy, ServiceTidy, RecordsTidy, CandidateTidy, SwapTidy, EndTidy,
       BeginTidy DEF Breaks
  <2> QED
    BY <2>1, <2>2, <2>3, <2>4, <2>5
<1> QED
  BY <1>1, <1>2

LEMMA TidyInvariance == Spec => [](IInv /\ TidyInv)
<1>1. Init => IInv /\ TidyInv
  BY InitInv, TidyInit
<1>2. IInv /\ TidyInv /\ [Next]_vars => IInv' /\ TidyInv'
  BY NextInv, TidyNext
<1> QED
  BY <1>1, <1>2, PTL DEF Spec

\* Whenever no command runs and no journal asks for recovery, the files, the
\* database, the application and both records agree, and every retained secret
\* that the installation owns has its file: no call that fails, no signal, no
\* death of the process and no second rotation leaves a half-done rotation
\* that nothing tells of.
THEOREM DisagreementIsAlwaysRecorded == Spec => []DisagreementIsRecorded
<1>1. IInv /\ TidyInv => DisagreementIsRecorded
  BY DEF TidyInv, DisagreementIsRecorded
<1> QED
  BY <1>1, TidyInvariance, PTL

\* A rotation that reports success has left everything consistent, whatever had
\* gone wrong in it or in the rotations before it.
THEOREM SuccessIsAlwaysComplete == Spec => []SuccessIsComplete
<1>1. IInv /\ TidyInv => SuccessIsComplete
  BY DEF TidyInv, SuccessIsComplete
<1> QED
  BY <1>1, TidyInvariance, PTL
=============================================================================
