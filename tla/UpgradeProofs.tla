--------------------------- MODULE UpgradeProofs ---------------------------
(***************************************************************************)
(* Proofs about Upgrade, for any sets of processes, releases and backups,  *)
(* any schemas and any numbers of writes and faults.                       *)
(***************************************************************************)
EXTENDS Upgrade, TLAPS

(***************************************************************************)
(* The inductive invariant: what each stage of an upgrade knows of the     *)
(* schema, of the application and of its backup.                           *)
(***************************************************************************)
Free == {"idle", "previewed"}

\* Before the state has been compared with the preview, and when all is over.
Aside == {"idle", "previewed", "begun", "check", "catch"}

Publishing == {"intend", "write-deployment", "write-ownership", "write-installation", "record"}

\* One release everywhere, and a backup of its own.
Complete ==
    /\ active = deployment /\ deployment = installed /\ installed \in ownership.releases
    /\ app = installed /\ public /\ schema = Schema[installed]
    /\ \E b \in ownership.backups : backup[b].stage = "validated"

\* A command begins at its first effect.
FreshOK(x) ==
    x.pc \in {"previewed", "begun", "check"} =>
        ~x.migrating /\ x.stage = (IF x.command = "upgrade" THEN "verify" ELSE "backup")

\* Each call belongs to an effect, and the rollback to an upgrade that has its backup.
PlaceOK(x) ==
    /\ x.command = "backup" => x.stage \in {"backup", "metadata", "own", "done"}
    /\ x.command = "upgrade" => x.stage \notin {"metadata", "own"}
    /\ x.stage = "done" => x.pc = "intend"
    /\ x.pc = "observe" => x.stage \in {"verify", "readback", "clients"}
    /\ x.pc \in {"mkdir", "dump", "restore", "cleanup"} => x.stage = "backup"
    /\ x.pc = "write-metadata" => x.stage \in {"backup", "metadata"}
    /\ x.pc \in {"stop", "quiet"} => x.stage = "drain"
    /\ x.pc \in {"unpack", "link"} => x.stage = "install"
    /\ x.pc = "migrate" => x.stage = "migrate" /\ x.migrating
    /\ x.pc \in {"start-private", "compare"} => x.stage = "readiness"
    /\ x.pc = "select" => x.stage = "commit"
    /\ x.pc = "start-public" => x.stage = "activate"
    /\ x.pc \in {"write-deployment", "write-installation"} => x.stage = "publish"
    /\ x.pc = "write-ownership" => x.stage \in {"publish", "own"}
    /\ x.pc \in {"halt", "relink", "restart", "settle", "retain"} =>
          x.command = "upgrade" /\ x.stage \notin {"verify", "backup"}
    /\ x.pc \in {"relink", "restart"} => ~x.committed /\ ~x.migrating
    /\ x.command = "upgrade" /\ x.stage \in {"activate", "publish", "done"} => x.committed

\* The directory that an effect works on; an upgrade that has passed its first effects
\* has a backup that was restored and compared.
BackupOK(x) ==
    /\ \/ x.pc \in {"dump", "restore", "cleanup", "write-metadata"}
       \/ x.stage \notin {"verify", "backup"}
       \/ x.stage = "backup" /\ x.pc = "record"
       => x.backup \in Backups
    /\ \/ x.command = "upgrade" /\ x.stage \notin {"verify", "backup"}
       \/ x.command = "upgrade" /\ x.stage = "backup" /\ x.pc = "record"
       => backup[x.backup].stage = "validated"

\* The database has the schema that the preview has seen until a migration is begun, and
\* that of the target once it has been read back.
SchemaOK(x) ==
    /\ x.seen.schema = Schema[x.seen.deployment] /\ x.seen.schema <= schema
    /\ ~x.migrating => schema = x.seen.schema
    /\ x.stage = "verify" => ~x.migrating
    /\ x.stage # "verify" => schema <= Schema[x.target]
    /\ x.stage = "migrate" => x.seen.schema < Schema[x.target]
    /\ x.stage \in {"readiness", "clients", "commit", "activate", "publish"} =>
          schema = Schema[x.target]
    /\ x.stage \notin {"publish", "done"} => deployment = x.seen.deployment

\* Where a migration may be begun nothing runs.
StoppedOK(x) ==
    \/ x.stage = "drain" /\ x.pc \in {"quiet", "record"}
    \/ /\ x.stage \in {"install", "migrate"} /\ x.seen.schema < Schema[x.target]
       /\ x.pc \notin {"settle", "retain"}
    => app = 0

\* From its start on a private socket the target runs, until something fails; before it
\* serves the clients it is selected.
TargetOK(x) ==
    /\ \/ x.stage = "readiness" /\ x.pc \in {"compare", "record"}
       \/ x.stage \in {"clients", "commit"} /\ x.pc \in {"intend", "observe", "select", "record"}
       \/ x.stage = "activate" /\ x.pc = "record"
       \/ x.stage = "publish" /\ x.pc \in Publishing
       => app = x.target
    /\ \/ x.stage = "commit" /\ x.pc = "record"
       \/ x.stage \in {"activate", "publish"}
       => active = x.target

\* Each record of the publication is written after the other.
PublishedOK(x) ==
    /\ \/ x.stage = "activate" /\ x.pc = "record"
       \/ x.stage = "publish" /\ x.pc \in Publishing
       => public
    /\ x.stage = "publish" /\ x.pc \in {"write-ownership", "write-installation", "record"} =>
          deployment = x.target
    /\ x.stage = "publish" /\ x.pc \in {"write-installation", "record"} =>
          x.target \in ownership.releases /\ x.backup \in ownership.backups
    /\ x.stage = "publish" /\ x.pc = "record" => installed = x.target
    /\ x.stage = "done" /\ x.pc = "intend" => Complete /\ installed = x.target

WorkOK(x) ==
    /\ FreshOK(x)
    /\ x.pc \notin Aside =>
          /\ PlaceOK(x) /\ BackupOK(x)
          /\ x.command = "upgrade" => SchemaOK(x) /\ StoppedOK(x) /\ TargetOK(x)
                                       /\ PublishedOK(x)

AllWork == \A p \in Procs : WorkOK(proc[p])

LockOK == \A p \in Procs : proc[p].pc \notin Free => holder = p

\* Migrations are not undone: the database has at least the schema of the release that
\* is deployed, and of every backup.
FloorOK == Schema[deployment] <= schema /\ \A b \in Backups : backup[b].schema <= schema

IInv == TypeOK /\ LockOK /\ FloorOK /\ SchemaIsKnown /\ SuccessIsComplete /\ AllWork

-----------------------------------------------------------------------------
(***************************************************************************)
(* Records of processes.                                                   *)
(***************************************************************************)
LEMMA GoneTo ==
    ASSUME NEW x \in Process, NEW pc \in Pcs
    PROVE  [x EXCEPT !.pc = pc] \in Process
BY ZenonT(60) DEF Process

LEMMA GoneOnRecord ==
    ASSUME NEW x \in Process, NEW pc \in Pcs, NEW incomplete \in BOOLEAN
    PROVE  [x EXCEPT !.pc = pc, !.incomplete = incomplete] \in Process
BY ZenonT(60) DEF Process

LEMMA GoneChecked ==
    ASSUME NEW x \in Process, NEW pc \in Pcs, NEW n \in Nat
    PROVE  [x EXCEPT !.pc = pc, !.evidence = n] \in Process
BY ZenonT(60) DEF Process

LEMMA GoneMigrating ==
    ASSUME NEW x \in Process, NEW pc \in Pcs, NEW migrating \in BOOLEAN
    PROVE  [x EXCEPT !.pc = pc, !.migrating = migrating] \in Process
BY ZenonT(60) DEF Process

LEMMA GoneBackingUp ==
    ASSUME NEW x \in Process, NEW pc \in Pcs, NEW b \in Backups
    PROVE  [x EXCEPT !.pc = pc, !.backup = b] \in Process
BY ZenonT(60) DEF Process

LEMMA GoneWithVerdict ==
    ASSUME NEW x \in Process, NEW pc \in Pcs, NEW verdict \in Verdicts
    PROVE  [x EXCEPT !.pc = pc, !.verdict = verdict] \in Process
BY ZenonT(60) DEF Process

LEMMA GoneFurther ==
    ASSUME NEW x \in Process, NEW pc \in Pcs, NEW stage \in Stages, NEW drained \in BOOLEAN,
           NEW released \in BOOLEAN, NEW committed \in BOOLEAN
    PROVE  [x EXCEPT !.pc = pc, !.stage = stage, !.incomplete = TRUE, !.drained = drained,
                     !.unpacked = released, !.committed = committed] \in Process
BY ZenonT(60) DEF Process

LEMMA IdleType == Idle \in Process /\ Idle.pc = "idle"
<1>1. [releases |-> {}, backups |-> {}] \in Ownership
  BY DEF Ownership
<1>2. 1 \in Releases /\ "idle" \in Pcs /\ "verify" \in Stages /\ "none" \in Verdicts
  BY ReleasesAssumption DEF Pcs, Stages, Verdicts
<1> QED
  BY <1>1, <1>2 DEF Idle, Process

\* A step of one process, and the records of the others.
LEMMA OneMoves ==
    ASSUME TypeOK, NEW p \in Procs, NEW x \in Process, proc' = [proc EXCEPT ![p] = x]
    PROVE  /\ proc' \in [Procs -> Process] /\ proc'[p] = x
           /\ \A q \in Procs : q # p => proc'[q] = proc[q]
BY DEF TypeOK

LEMMA PcMoves ==
    ASSUME TypeOK, NEW p \in Procs, NEW pc, Goto(p, pc)
    PROVE  proc' = [proc EXCEPT ![p] = [proc[p] EXCEPT !.pc = pc]]
BY DEF TypeOK, Goto

-----------------------------------------------------------------------------
(***************************************************************************)
(* The steps: of a process that has no lock or gives it up, of the holder, *)
(* and of the surroundings.                                                *)
(***************************************************************************)
\* All but the processes.
ShellOK ==
    /\ schema \in Nat /\ writes \in Nat
    /\ app \in Releases \cup {0} /\ public \in BOOLEAN
    /\ launcher \in Releases \cup {0} /\ unpacked \subseteq Releases
    /\ active \in Releases /\ deployment \in Releases /\ installed \in Releases
    /\ ownership \in Ownership
    /\ backup \in [Backups -> Backup]
    /\ holder \in Procs \cup {None}
    /\ interrupted \in BOOLEAN
    /\ report \in {"none", "failed", "recovery-required", "upgraded", "backed-up"} \cup Verdicts
    /\ faults \in Nat

LEMMA Parts == TypeOK <=> ShellOK /\ proc \in [Procs -> Process]
BY DEF TypeOK, ShellOK

\* What the invariant speaks of.
World == <<schema, service, records, backup>>

LEMMA WorkSame ==
    ASSUME NEW x, WorkOK(x), UNCHANGED World
    PROVE  WorkOK(x)'
BY DEF WorkOK, FreshOK, PlaceOK, BackupOK, SchemaOK, StoppedOK, TargetOK, PublishedOK, Complete,
       World, service, records

LEMMA AsideWorks ==
    ASSUME NEW x, x.pc \in Aside, FreshOK(x)
    PROVE  WorkOK(x) /\ WorkOK(x)'
BY DEF WorkOK, FreshOK

\* The holder of the lock keeps it.
LEMMA HeldStep ==
    ASSUME IInv, NEW p \in Procs, holder = p, holder' = p,
           NEW x \in Process, proc' = [proc EXCEPT ![p] = x],
           ShellOK', FloorOK', SchemaIsKnown', WorkOK(x)'
    PROVE  IInv'
<1>1. TypeOK' /\ proc'[p] = x /\ \A q \in Procs : q # p => proc'[q] = proc[q]
  BY OneMoves DEF IInv, TypeOK, ShellOK
<1>2. LockOK'
  BY <1>1 DEF IInv, LockOK
<1>3. SuccessIsComplete'
  BY NobodyAssumption DEF SuccessIsComplete
<1>4. ASSUME NEW q \in Procs PROVE WorkOK(proc[q])'
  <2>1. CASE q = p
    BY <1>1, <2>1 DEF WorkOK, FreshOK, PlaceOK, BackupOK, SchemaOK, StoppedOK, TargetOK,
                      PublishedOK
  <2>2. CASE q # p
    <3>1. proc'[q] = proc[q] /\ proc[q].pc \in Free /\ FreshOK(proc[q])
      BY <1>1, <2>2 DEF IInv, LockOK, AllWork, WorkOK
    <3> QED
      BY <3>1 DEF WorkOK, FreshOK, Free, Aside
  <2> QED
    BY <2>1, <2>2
<1> QED
  BY <1>1, <1>2, <1>3, <1>4 DEF IInv, AllWork

\* A process that is at no effect, or leaves it, while the rest stays as it is.
LEMMA AsideStep ==
    ASSUME IInv, NEW p \in Procs, NEW x \in Process, proc' = [proc EXCEPT ![p] = x],
           x.pc \in Aside, FreshOK(x), ShellOK', UNCHANGED World,
           x.pc \notin Free => holder' = p,
           \A q \in Procs : q # p /\ proc[q].pc \notin Free => holder' = q,
           SuccessIsComplete'
    PROVE  IInv'
<1>1. TypeOK' /\ proc'[p] = x /\ \A q \in Procs : q # p => proc'[q] = proc[q]
  BY OneMoves DEF IInv, TypeOK, ShellOK
<1>2. LockOK'
  BY <1>1 DEF LockOK
<1>3. FloorOK' /\ SchemaIsKnown'
  BY DEF IInv, FloorOK, SchemaIsKnown, World, service, records
<1>4. ASSUME NEW q \in Procs PROVE WorkOK(proc[q])'
  <2>1. CASE q = p
    BY <1>1, <2>1 DEF WorkOK, FreshOK
  <2>2. CASE q # p
    <3>1. proc'[q] = proc[q] /\ WorkOK(proc[q])
      BY <1>1, <2>2 DEF IInv, AllWork
    <3> QED
      BY <3>1 DEF WorkOK, FreshOK, PlaceOK, BackupOK, SchemaOK, StoppedOK, TargetOK,
                  PublishedOK, Complete, World, service, records
  <2> QED
    BY <2>1, <2>2
<1> QED
  BY <1>1, <1>2, <1>3, <1>4 DEF IInv, AllWork

\* The holder goes on and changes nothing that the invariant speaks of.
LEMMA GoStep ==
    ASSUME IInv, NEW p \in Procs, proc[p].pc \notin Free, UNCHANGED <<World, outcome>>,
           NEW x \in Process, proc' = [proc EXCEPT ![p] = x], WorkOK(x),
           writes' \in Nat, launcher' \in Releases \cup {0}, unpacked' \subseteq Releases,
           faults' \in Nat
    PROVE  IInv'
<1>1. holder = p /\ holder' = p
  BY DEF IInv, LockOK, outcome
<1>2. ShellOK'
  BY Parts DEF IInv, ShellOK, World, service, records, outcome
<1>3. FloorOK' /\ SchemaIsKnown'
  BY DEF IInv, FloorOK, SchemaIsKnown, World, service, records
<1>4. WorkOK(x)'
  BY WorkSame
<1> QED
  BY <1>1, <1>2, <1>3, <1>4, HeldStep

\* The lock is given up.
LEMMA EndStep ==
    ASSUME IInv, NEW p \in Procs, holder = p, holder' = None, proc' = [proc EXCEPT ![p] = Idle],
           UNCHANGED World, ShellOK', report' = "upgraded" => Complete
    PROVE  IInv'
<1>1. Idle \in Process /\ Idle.pc \in Aside /\ Idle.pc \in Free /\ FreshOK(Idle)
  BY IdleType DEF Aside, Free, FreshOK
<1>2. \A q \in Procs : q # p /\ proc[q].pc \notin Free => holder' = q
  BY DEF IInv, LockOK
<1>3. SuccessIsComplete'
  BY DEF SuccessIsComplete, Complete, World, service, records
<1> QED
  BY <1>1, <1>2, <1>3, AsideStep

-----------------------------------------------------------------------------
(***************************************************************************)
(* The initial states, and the steps before the first effect and after the *)
(* last.                                                                   *)
(***************************************************************************)
LEMMA InitInv == Init => IInv
<1> SUFFICES ASSUME Init PROVE IInv
  OBVIOUS
<1>1. Schema[1] \in Nat /\ 1 \in Releases /\ MaxFaults \in Nat
  BY ReleasesAssumption, BoundsAssumption
<1>2. \A p \in Procs : proc[p] = Idle
  BY DEF Init
<1>3. [releases |-> {1}, backups |-> {}] \in Ownership
  BY <1>1 DEF Ownership
<1>4. backup \in [Backups -> Backup] /\ \A b \in Backups : backup[b].schema = 0
  <2>1. [stage |-> "absent", schema |-> 0, writes |-> 0] \in Backup
    BY DEF Backup
  <2> QED
    BY <2>1 DEF Init
<1>5. ShellOK
  BY <1>1, <1>3, <1>4 DEF Init, ShellOK
<1>6. TypeOK
  BY <1>2, <1>5, IdleType, Parts DEF Init
<1>7. LockOK
  BY <1>2, IdleType DEF LockOK, Free
<1>8. AllWork
  BY <1>2, IdleType DEF AllWork, WorkOK, FreshOK, Aside
<1>9. FloorOK /\ SchemaIsKnown /\ SuccessIsComplete
  BY <1>1, <1>4 DEF Init, FloorOK, SchemaIsKnown, SuccessIsComplete
<1> QED
  BY <1>6, <1>7, <1>8, <1>9 DEF IInv

LEMMA PreviewType ==
    ASSUME NEW command \in {"upgrade", "backup"}, NEW r \in Releases,
           NEW stage \in Stages,
           NEW seen \in [schema : Nat, deployment : Releases, installed : Releases,
                         ownership : Ownership]
    PROVE  [Idle EXCEPT !.pc = "previewed", !.command = command, !.target = r, !.stage = stage,
                        !.seen = seen] \in Process
<1>1. Idle \in Process /\ "previewed" \in Pcs
  BY IdleType DEF Pcs
<1> HIDE DEF Idle
<1> QED
  BY <1>1, ZenonT(60) DEF Process

LEMMA PreviewStep ==
    ASSUME IInv, NEW p \in Procs, Preview(p) PROVE IInv'
<1>1. PICK command \in {"upgrade", "backup"}, r \in Releases :
         proc' = [proc EXCEPT ![p] =
              [Idle EXCEPT !.pc = "previewed", !.command = command, !.target = r,
                           !.stage = IF command = "upgrade" THEN "verify" ELSE "backup",
                           !.seen = [schema |-> schema, deployment |-> deployment,
                                     installed |-> installed, ownership |-> ownership]]]
  BY DEF Preview
<1> DEFINE stage == IF command = "upgrade" THEN "verify" ELSE "backup"
           x == [Idle EXCEPT !.pc = "previewed", !.command = command, !.target = r,
                             !.stage = stage,
                             !.seen = [schema |-> schema, deployment |-> deployment,
                                       installed |-> installed, ownership |-> ownership]]
<1>2. x \in Process
  <2>1. stage \in Stages
    BY DEF Stages
  <2>2. [schema |-> schema, deployment |-> deployment, installed |-> installed,
         ownership |-> ownership] \in
           [schema : Nat, deployment : Releases, installed : Releases, ownership : Ownership]
    BY DEF IInv, TypeOK
  <2> HIDE DEF stage
  <2> QED
    BY <2>1, <2>2, PreviewType
<1>3. x.pc = "previewed" /\ x.command = command /\ x.stage = stage /\ x.migrating = FALSE
  BY DEF Idle
<1>4. proc' = [proc EXCEPT ![p] = x]
  BY <1>1
<1> HIDE DEF x
<1>5. x.pc \in Aside /\ x.pc \in Free /\ FreshOK(x)
  BY <1>3 DEF Aside, Free, FreshOK
<1>6. UNCHANGED <<World, outcome, writes, files, faults>>
  BY DEF Preview, World, database
<1>7. ShellOK' /\ SuccessIsComplete'
  BY <1>6, Parts DEF IInv, ShellOK, SuccessIsComplete, World, service, files, records, outcome
<1>8. \A q \in Procs : q # p /\ proc[q].pc \notin Free => holder' = q
  BY <1>6 DEF IInv, LockOK, outcome
<1> QED
  BY <1>2, <1>4, <1>5, <1>6, <1>7, <1>8, AsideStep DEF World

LEMMA AcquireStep ==
    ASSUME IInv, NEW p \in Procs, AcquireOperation(p) PROVE IInv'
<1> DEFINE x == [proc[p] EXCEPT !.pc = "begun"]
<1>1. TypeOK /\ proc[p] \in Process /\ "begun" \in Pcs
  BY DEF IInv, TypeOK, Pcs
<1>2. x \in Process /\ proc' = [proc EXCEPT ![p] = x]
  BY <1>1, GoneTo, PcMoves DEF AcquireOperation
<1>3. x.pc = "begun" /\ FreshOK(x) /\ x.pc \in Aside
  BY <1>1 DEF IInv, AllWork, WorkOK, FreshOK, AcquireOperation, Process, Aside
<1> HIDE DEF x
<1>4. UNCHANGED World /\ ShellOK' /\ SuccessIsComplete'
  BY NobodyAssumption, Parts DEF IInv, AcquireOperation, World, ShellOK, SuccessIsComplete,
     database, service, files, records
<1>5. \A q \in Procs : q # p /\ proc[q].pc \notin Free => holder' = q
  BY NobodyAssumption DEF IInv, LockOK, AcquireOperation
<1> QED
  BY <1>2, <1>3, <1>4, <1>5, AsideStep DEF AcquireOperation

LEMMA LockRefusedStep ==
    ASSUME IInv, NEW p \in Procs, LockRefused(p) PROVE IInv'
<1>1. Idle \in Process /\ Idle.pc \in Aside /\ Idle.pc \in Free /\ FreshOK(Idle)
  BY IdleType DEF Aside, Free, FreshOK
<1>2. UNCHANGED World /\ ShellOK' /\ SuccessIsComplete'
  BY Parts DEF IInv, LockRefused, World, ShellOK, SuccessIsComplete, database, service, files,
     records, outcome
<1>3. \A q \in Procs : q # p /\ proc[q].pc \notin Free => holder' = q
  BY DEF IInv, LockOK, LockRefused, outcome
<1> QED
  BY <1>1, <1>2, <1>3, AsideStep DEF LockRefused

LEMMA BeginStep ==
    ASSUME IInv, NEW p \in Procs, BeginOperation(p) PROVE IInv'
<1> DEFINE x == [proc[p] EXCEPT !.pc = "check"]
<1>1. TypeOK /\ proc[p] \in Process /\ "check" \in Pcs
  BY DEF IInv, TypeOK, Pcs
<1>2. x \in Process /\ proc' = [proc EXCEPT ![p] = x]
  BY <1>1, GoneTo, PcMoves DEF BeginOperation
<1>3. WorkOK(x)
  BY <1>1 DEF IInv, AllWork, WorkOK, FreshOK, BeginOperation, Process, Aside
<1> HIDE DEF x
<1> QED
  BY <1>1, <1>2, <1>3, GoStep DEF BeginOperation, World, database, files, Free, TypeOK

\* What the check has compared is what the effects start from.
LEMMA CheckStep ==
    ASSUME IInv, NEW p \in Procs, CheckState(p) PROVE IInv'
<1>1. TypeOK /\ proc[p] \in Process /\ proc[p].pc = "check" /\ FreshOK(proc[p])
  BY DEF IInv, TypeOK, AllWork, WorkOK, CheckState
<1>2. UNCHANGED <<World, outcome, writes, files, faults>>
  BY DEF CheckState, World, database
<1>3. CASE Unchanged(p) /\ schema <= Schema[proc[p].seen.deployment] /\ ~proc[p].aborted
  <2> DEFINE x == [proc[p] EXCEPT !.pc = "intend", !.evidence = writes]
  <2>1. x \in Process
    BY <1>1, GoneChecked DEF TypeOK, Pcs
  <2>2. proc' = [proc EXCEPT ![p] = x]
    BY <1>1, <1>3 DEF CheckState, TypeOK
  <2>3. /\ x.pc = "intend" /\ x.stage = proc[p].stage /\ x.command = proc[p].command
        /\ x.seen = proc[p].seen /\ x.migrating = proc[p].migrating
    BY <1>1 DEF Process
  <2> HIDE DEF x
  <2>4. x.command \in {"upgrade", "backup"} /\ x.seen.deployment \in Releases
    BY <2>1 DEF Process
  <2>5. x.command = "upgrade" =>
            /\ x.stage = "verify" /\ ~x.migrating
            /\ deployment = x.seen.deployment /\ schema = x.seen.schema
            /\ schema = Schema[x.seen.deployment]
    <3>1. Schema[deployment] <= schema /\ schema \in Nat /\ Schema[deployment] \in Nat
      BY <1>1, ReleasesAssumption DEF IInv, FloorOK, TypeOK
    <3> QED
      BY <1>1, <1>3, <2>3, <3>1 DEF FreshOK, Unchanged
  <2>6. x.command = "backup" => x.stage = "backup"
    BY <1>1, <2>3 DEF FreshOK
  <2>7. schema \in Nat
    BY <1>1 DEF TypeOK
  <2>8. WorkOK(x)
    <3>1. FreshOK(x) /\ PlaceOK(x)
      BY <2>3, <2>4, <2>5, <2>6 DEF FreshOK, PlaceOK
    <3>2. BackupOK(x)
      BY <2>3, <2>4, <2>5, <2>6 DEF BackupOK
    <3>3. x.command = "upgrade" => SchemaOK(x)
      BY <2>5, <2>7 DEF SchemaOK
    <3>4. x.command = "upgrade" => StoppedOK(x) /\ TargetOK(x) /\ PublishedOK(x)
      BY <2>3, <2>5 DEF StoppedOK, TargetOK, PublishedOK
    <3> QED
      BY <3>1, <3>2, <3>3, <3>4 DEF WorkOK
  <2> QED
    BY <1>1, <1>2, <2>1, <2>2, <2>8, GoStep DEF Free, TypeOK, files
<1>4. CASE ~(Unchanged(p) /\ schema <= Schema[proc[p].seen.deployment] /\ ~proc[p].aborted)
  <2> DEFINE x == [proc[p] EXCEPT !.pc = "catch"]
  <2>1. x \in Process /\ proc' = [proc EXCEPT ![p] = x]
    BY <1>1, <1>4, GoneTo, PcMoves DEF CheckState, Pcs
  <2>2. WorkOK(x)
    BY <1>1 DEF WorkOK, FreshOK, Process, Aside
  <2> HIDE DEF x
  <2> QED
    BY <1>1, <1>2, <2>1, <2>2, GoStep DEF Free, TypeOK, files
<1> QED
  BY <1>3, <1>4

\* The holder ends, whatever it reports.
LEMMA EndSteps ==
    ASSUME IInv, NEW p \in Procs, Commit(p) \/ Fail(p) \/ BeginFails(p) PROVE IInv'
<1>1. proc[p] \in Process /\ holder = p /\ ShellOK /\ WorkOK(proc[p])
  BY Parts DEF IInv, LockOK, TypeOK, AllWork, Commit, Fail, BeginFails, Free
<1>2. CASE Commit(p)
  <2>1. proc[p].command \in {"upgrade", "backup"}
    BY <1>1 DEF Process
  <2>2. report' = "upgraded" => Complete
    BY <1>1, <1>2, <2>1 DEF Commit, End, WorkOK, PublishedOK, Aside
  <2>3. UNCHANGED <<World, writes, files, faults>>
    BY <1>2 DEF Commit, World, database
  <2>4. ShellOK'
    BY <1>1, <1>2, <2>3 DEF ShellOK, Commit, End, World, service, files, records
  <2> QED
    BY <1>1, <1>2, <2>2, <2>3, <2>4, EndStep DEF Commit, End
<1>3. CASE Fail(p)
  <2>1. proc[p].verdict \in Verdicts
    BY <1>1 DEF Process
  <2>2. report' \in Verdicts \cup {"failed", "recovery-required"} /\ interrupted' \in BOOLEAN
    BY <1>1, <1>3, <2>1 DEF Fail, End, ShellOK
  <2>3. UNCHANGED <<World, writes, files, faults>>
    BY <1>3 DEF Fail, World, database
  <2>4. ShellOK' /\ report' # "upgraded"
    BY <1>1, <1>3, <2>2, <2>3 DEF ShellOK, Fail, End, Verdicts, World, service, files, records
  <2> QED
    BY <1>1, <1>3, <2>3, <2>4, EndStep DEF Fail, End
<1>4. CASE BeginFails(p)
  <2>1. UNCHANGED <<World, writes, files>> /\ faults' \in Nat
    BY <1>1, <1>4 DEF BeginFails, World, database, Fault, ShellOK
  <2>2. ShellOK' /\ report' # "upgraded"
    BY <1>1, <1>4, <2>1 DEF ShellOK, BeginFails, End, World, service, files, records
  <2> QED
    BY <1>1, <1>4, <2>1, <2>2, EndStep DEF BeginFails, End
<1> QED
  BY <1>2, <1>3, <1>4

\* The application writes, and the operator removes the launcher.
LEMMA AloneSteps ==
    ASSUME IInv, Write \/ RemoveLauncher PROVE IInv'
<1>1. UNCHANGED <<World, outcome, proc>>
  BY DEF Write, RemoveLauncher, World, database
<1>2. TypeOK'
  BY <1>1 DEF IInv, TypeOK, Write, RemoveLauncher, World, database, files, service, records,
              outcome
<1>3. LockOK' /\ FloorOK' /\ SchemaIsKnown' /\ SuccessIsComplete'
  BY <1>1 DEF IInv, LockOK, FloorOK, SchemaIsKnown, SuccessIsComplete, World, service, records,
              outcome
<1>4. AllWork'
  BY <1>1 DEF IInv, AllWork, WorkOK, FreshOK, PlaceOK, BackupOK, SchemaOK, StoppedOK, TargetOK,
              PublishedOK, Complete, World, service, records
<1> QED
  BY <1>2, <1>3, <1>4 DEF IInv

-----------------------------------------------------------------------------
(***************************************************************************)
(* The steps of the holder that change nothing but its place.  First those *)
(* with which an effect, or the command, fails.                            *)
(***************************************************************************)
\* All that the invariant knows of a process, but its place.
Same(x, y) ==
    /\ y.command = x.command /\ y.stage = x.stage /\ y.target = x.target /\ y.seen = x.seen
    /\ y.backup = x.backup /\ y.migrating = x.migrating /\ y.committed = x.committed

LEMMA SameButPc ==
    ASSUME NEW x \in Process, NEW pc \in Pcs
    PROVE  /\ [x EXCEPT !.pc = pc] \in Process /\ [x EXCEPT !.pc = pc].pc = pc
           /\ Same(x, [x EXCEPT !.pc = pc])
<1>1. [x EXCEPT !.pc = pc] \in Process
  BY GoneTo
<1>2. [x EXCEPT !.pc = pc].pc = pc /\ Same(x, [x EXCEPT !.pc = pc])
  BY DEF Process, Same
<1> QED
  BY <1>1, <1>2

LEMMA FailingStep ==
    ASSUME IInv, NEW p \in Procs, proc[p].pc \notin Aside,
           NEW y \in Process, proc' = [proc EXCEPT ![p] = y], Same(proc[p], y),
           \/ y.pc = "catch"
           \/ /\ y.pc \in {"unproven", "thrown"} /\ proc[p].pc \notin {"settle", "retain"}
              /\ proc[p].pc = "intend" => proc[p].stage # "done",
           UNCHANGED <<World, outcome>>,
           writes' \in Nat, launcher' \in Releases \cup {0}, unpacked' \subseteq Releases,
           faults' \in Nat
    PROVE  IInv'
<1>1. proc[p] \in Process /\ WorkOK(proc[p]) /\ proc[p].pc \notin Free
  BY DEF IInv, TypeOK, AllWork, Aside, Free
<1>2. CASE y.pc = "catch"
  <2>1. WorkOK(y)
    BY <1>2 DEF WorkOK, FreshOK, Aside
  <2> QED
    BY <1>1, <2>1, GoStep
<1>3. CASE /\ y.pc \in {"unproven", "thrown"} /\ proc[p].pc \notin {"settle", "retain"}
           /\ proc[p].pc = "intend" => proc[p].stage # "done"
  <2>a. y.pc \in {"unproven", "thrown"} /\ proc[p].pc \notin {"settle", "retain"}
    BY <1>3
  <2>b. proc[p].stage # "done"
    BY <1>1, <1>3 DEF WorkOK, PlaceOK
  <2>1. FreshOK(y) /\ PlaceOK(y)
    BY <1>1, <2>a, <2>b DEF WorkOK, FreshOK, PlaceOK, Same
  <2>2. BackupOK(y)
    BY <1>1, <2>a DEF WorkOK, BackupOK, Same
  <2>3. y.command = "upgrade" => SchemaOK(y)
    BY <1>1 DEF WorkOK, SchemaOK, Same
  <2>4. y.command = "upgrade" => StoppedOK(y)
    BY <1>1, <2>a DEF WorkOK, StoppedOK, Same
  <2>5. y.command = "upgrade" => TargetOK(y) /\ PublishedOK(y)
    BY <1>1, <2>a DEF WorkOK, TargetOK, PublishedOK, Publishing, Same
  <2>6. WorkOK(y)
    BY <2>1, <2>2, <2>3, <2>4, <2>5 DEF WorkOK
  <2> QED
    BY <1>1, <2>6, GoStep
<1> QED
  BY <1>2, <1>3

\* To the same by the place alone.
LEMMA FailingGoto ==
    ASSUME IInv, NEW p \in Procs, proc[p].pc \notin Aside,
           NEW pc, Goto(p, pc),
           \/ pc = "catch"
           \/ /\ pc \in {"unproven", "thrown"} /\ proc[p].pc \notin {"settle", "retain"}
              /\ proc[p].pc = "intend" => proc[p].stage # "done",
           UNCHANGED <<World, outcome, writes, files>>, faults' \in Nat
    PROVE  IInv'
<1> DEFINE y == [proc[p] EXCEPT !.pc = pc]
<1>1. TypeOK /\ proc[p] \in Process /\ pc \in Pcs
  BY DEF IInv, TypeOK, Pcs
<1>2. y \in Process /\ y.pc = pc /\ Same(proc[p], y) /\ proc' = [proc EXCEPT ![p] = y]
  BY <1>1, SameButPc, PcMoves
<1> HIDE DEF y
<1> QED
  BY <1>1, <1>2, FailingStep DEF TypeOK, files

LEMMA AppendFailsStep ==
    ASSUME IInv, NEW p \in Procs, AppendFails(p) PROVE IInv'
<1>1. faults' \in Nat /\ UNCHANGED <<World, outcome, writes, files>>
  BY DEF IInv, TypeOK, AppendFails, Fault, World, database
<1>2. proc[p].pc \in {"intend", "unproven"}
  BY DEF AppendFails
<1>3. \/ Goto(p, "catch")
      \/ Goto(p, "thrown") /\ (proc[p].pc = "intend" => proc[p].stage # "done")
  BY DEF AppendFails
<1> QED
  BY <1>1, <1>2, <1>3, FailingGoto DEF Aside

LEMMA RecordFailsStep ==
    ASSUME IInv, NEW p \in Procs, RecordFails(p) \/ RecordUnproven(p) PROVE IInv'
<1>1. TypeOK /\ proc[p] \in Process
  BY DEF IInv, TypeOK
<1>2. PICK pc \in {"unproven", "thrown"}, effect \in BOOLEAN :
         proc' = [proc EXCEPT ![p] = [proc[p] EXCEPT !.pc = pc, !.incomplete = effect]]
  <2>1. CASE RecordFails(p)
    <3>1. PICK effect \in BOOLEAN :
             proc' = [proc EXCEPT ![p].pc = "unproven", ![p].incomplete = @ \/ effect]
      BY <2>1 DEF RecordFails
    <3>2. proc' = [proc EXCEPT ![p] = [proc[p] EXCEPT
                      !.pc = "unproven", !.incomplete = proc[p].incomplete \/ effect]]
      BY <1>1, <3>1 DEF TypeOK
    <3>3. (proc[p].incomplete \/ effect) \in BOOLEAN
      BY ZenonT(30)
    <3> QED
      BY <3>2, <3>3
  <2>2. CASE RecordUnproven(p)
    BY <1>1, <2>2 DEF RecordUnproven, TypeOK
  <2> QED
    BY <2>1, <2>2
<1> DEFINE y == [proc[p] EXCEPT !.pc = pc, !.incomplete = effect]
<1>3. y \in Process
  BY <1>1, <1>2, GoneOnRecord DEF Pcs
<1>4. y.pc = pc /\ Same(proc[p], y) /\ proc' = [proc EXCEPT ![p] = y]
  BY <1>1, <1>2 DEF Process, Same
<1>5. proc[p].pc \in {"record", "unproven"}
  BY DEF RecordFails, RecordUnproven
<1>6. faults' \in Nat /\ UNCHANGED <<World, outcome, writes, files>>
  BY <1>1 DEF TypeOK, RecordFails, RecordUnproven, Fault, World, database
<1> HIDE DEF y
<1> QED
  BY <1>1, <1>2, <1>3, <1>4, <1>5, <1>6, FailingStep DEF TypeOK, Aside, files

LEMMA CallFailsSteps ==
    ASSUME IInv, NEW p \in Procs,
           CallFails(p) \/ NoDirectory(p) \/ DirectoryStays(p) \/ RetainFails(p)
    PROVE  IInv'
<1>1. UNCHANGED <<World, outcome, writes, files>> /\ faults' \in Nat
  BY DEF IInv, TypeOK, CallFails, CallFault, NoDirectory, DirectoryStays, RetainFails, Fault,
         World, database
<1>2. CASE CallFails(p) \/ NoDirectory(p) \/ DirectoryStays(p)
  <2>1. Goto(p, "unproven") /\ proc[p].pc \notin Aside \cup {"settle", "retain", "intend"}
    BY <1>2 DEF CallFails, NoDirectory, DirectoryStays, Aside
  <2> QED
    BY <1>1, <2>1, FailingGoto
<1>3. CASE RetainFails(p)
  <2>1. Goto(p, "catch") /\ proc[p].pc \notin Aside
    BY <1>3 DEF RetainFails, Aside
  <2> QED
    BY <1>1, <2>1, FailingGoto
<1> QED
  BY <1>2, <1>3

-----------------------------------------------------------------------------
(***************************************************************************)
(* The steps with which the holder goes on.                                *)
(***************************************************************************)
LEMMA PcStep ==
    ASSUME IInv, NEW p \in Procs, proc[p].pc \notin Free, NEW pc \in Pcs, Goto(p, pc),
           UNCHANGED <<World, outcome, writes>>,
           launcher' \in Releases \cup {0}, unpacked' \subseteq Releases, faults' \in Nat,
           \A y \in Process : y.pc = pc /\ Same(proc[p], y) => WorkOK(y)
    PROVE  IInv'
<1> DEFINE y == [proc[p] EXCEPT !.pc = pc]
<1>1. TypeOK /\ proc[p] \in Process
  BY DEF IInv, TypeOK
<1>2. y \in Process /\ y.pc = pc /\ Same(proc[p], y) /\ proc' = [proc EXCEPT ![p] = y]
  BY <1>1, SameButPc, PcMoves
<1> HIDE DEF y
<1>3. WorkOK(y)
  BY <1>2
<1> QED
  BY <1>1, <1>2, <1>3, GoStep DEF TypeOK

LEMMA FirstCallOf ==
    ASSUME NEW stage \in Stages \ {"done"}
    PROVE  /\ FirstCall(stage) \in Pcs
           /\ FirstCall(stage) \in {"mkdir", "stop", "unpack", "migrate", "start-private", "select",
                  "start-public", "write-deployment", "write-metadata", "write-ownership", "observe"}
           /\ FirstCall(stage) = "mkdir" <=> stage = "backup"
           /\ FirstCall(stage) = "stop" <=> stage = "drain"
           /\ FirstCall(stage) = "unpack" <=> stage = "install"
           /\ FirstCall(stage) = "migrate" <=> stage = "migrate"
           /\ FirstCall(stage) = "start-private" <=> stage = "readiness"
           /\ FirstCall(stage) = "select" <=> stage = "commit"
           /\ FirstCall(stage) = "start-public" <=> stage = "activate"
           /\ FirstCall(stage) = "write-deployment" <=> stage = "publish"
           /\ FirstCall(stage) = "write-metadata" <=> stage = "metadata"
           /\ FirstCall(stage) = "write-ownership" <=> stage = "own"
           /\ FirstCall(stage) = "observe" <=> stage \in {"verify", "readback", "clients"}
BY DEF FirstCall, Stages, Pcs

LEMMA IntendStep ==
    ASSUME IInv, NEW p \in Procs, IntendEffect(p) PROVE IInv'
<1>1. /\ TypeOK /\ proc[p] \in Process /\ WorkOK(proc[p])
      /\ proc[p].pc = "intend" /\ proc[p].stage \in Stages \ {"done"}
      /\ UNCHANGED <<World, outcome, writes, files, faults>>
  BY DEF IInv, TypeOK, AllWork, IntendEffect, Process, World, database
<1>2. CASE proc[p].aborted
  <2> DEFINE y == [proc[p] EXCEPT !.pc = "thrown", !.migrating = proc[p].migrating]
  <2>1. y \in Process
    <3>1. proc[p].migrating \in BOOLEAN /\ "thrown" \in Pcs
      BY <1>1 DEF Process, Pcs
    <3> QED
      BY <1>1, <3>1, GoneMigrating
  <2>2. y.pc = "thrown" /\ Same(proc[p], y)
    BY <1>1 DEF Process, Same
  <2>3. proc' = [proc EXCEPT ![p] = y]
    <3>1. (proc[p].migrating \/ (proc[p].stage = "migrate" /\ ~proc[p].aborted)) = proc[p].migrating
      <4>1. proc[p].migrating \in BOOLEAN
        BY <1>1 DEF Process
      <4> QED
        BY <1>2, <4>1
    <3> QED
      BY <1>1, <1>2, <3>1 DEF IntendEffect, TypeOK
  <2> HIDE DEF y
  <2> QED
    BY <1>1, <2>1, <2>2, <2>3, FailingStep DEF TypeOK, Aside, files
<1>3. CASE ~proc[p].aborted
  <2> DEFINE migrating == proc[p].migrating \/ proc[p].stage = "migrate"
             pc == FirstCall(proc[p].stage)
             y == [proc[p] EXCEPT !.pc = pc, !.migrating = migrating]
  <2>1. migrating \in BOOLEAN /\ pc \in Pcs
    BY <1>1, FirstCallOf, Zenon
  <2>2. y \in Process
    <3> HIDE DEF migrating, pc
    <3> QED
      BY <1>1, <2>1, GoneMigrating
  <2>3. /\ y.pc = pc /\ y.migrating = migrating
        /\ y.command = proc[p].command /\ y.stage = proc[p].stage /\ y.target = proc[p].target
        /\ y.seen = proc[p].seen /\ y.backup = proc[p].backup /\ y.committed = proc[p].committed
    <3> HIDE DEF migrating, pc
    <3> QED
      BY <1>1 DEF Process
  <2>4. proc' = [proc EXCEPT ![p] = y]
    <3>1. (proc[p].migrating \/ (proc[p].stage = "migrate" /\ ~proc[p].aborted)) = migrating
      BY <1>3
    <3> QED
      BY <1>1, <1>3, <3>1 DEF IntendEffect, TypeOK
  <2> HIDE DEF y
  <2>5. PlaceOK(proc[p]) /\ BackupOK(proc[p])
    BY <1>1 DEF WorkOK, Aside
  <2>6. y.command = "upgrade" =>
            SchemaOK(proc[p]) /\ StoppedOK(proc[p]) /\ TargetOK(proc[p]) /\ PublishedOK(proc[p])
    BY <1>1, <2>3 DEF WorkOK, Aside
  <2>7. FreshOK(y) /\ PlaceOK(y)
    <3>1. y.migrating <=> (proc[p].migrating \/ y.stage = "migrate")
      BY <2>3
    <3> HIDE DEF migrating
    <3> QED
      BY <1>1, <2>3, <2>5, <3>1, FirstCallOf DEF FreshOK, PlaceOK
  <2>8. BackupOK(y)
    BY <1>1, <2>3, <2>5, FirstCallOf DEF BackupOK
  <2>9. y.command = "upgrade" => SchemaOK(y)
    BY <1>1, <2>3, <2>6, Zenon DEF SchemaOK
  <2>10. y.command = "upgrade" => StoppedOK(y)
    <3> HIDE DEF migrating
    <3> QED
      BY <1>1, <2>3, <2>6, FirstCallOf DEF StoppedOK
  <2>11. y.command = "upgrade" => TargetOK(y) /\ PublishedOK(y)
    <3> HIDE DEF migrating
    <3> QED
      BY <1>1, <2>3, <2>6, FirstCallOf DEF TargetOK, PublishedOK, Publishing
  <2>12. WorkOK(y)
    BY <2>7, <2>8, <2>9, <2>10, <2>11 DEF WorkOK
  <2> QED
    BY <1>1, <2>2, <2>4, <2>12, GoStep DEF TypeOK, Free, files
<1> QED
  BY <1>2, <1>3

\* Where an upgrade goes next.
LEMMA FollowingOf ==
    ASSUME NEW p, proc[p].command \in {"upgrade", "backup"}, proc[p].stage \in Stages,
           proc[p].command = "upgrade" => proc[p].stage \notin {"metadata", "own", "done"},
           proc[p].command = "backup" => proc[p].stage \in {"backup", "metadata", "own"}
    PROVE  /\ After(p) \in Stages
           /\ proc[p].command = "backup" =>
                 /\ proc[p].stage = "backup" => After(p) = "metadata"
                 /\ proc[p].stage = "metadata" => After(p) = "own"
                 /\ proc[p].stage = "own" => After(p) = "done"
           /\ proc[p].command = "upgrade" =>
                 /\ After(p) \notin {"verify", "metadata", "own"}
                 /\ After(p) = "backup" <=> proc[p].stage = "verify"
                 /\ After(p) = "drain" <=> proc[p].stage = "backup" /\ Forward(p)
                 /\ After(p) = "install" <=>
                       proc[p].stage = "drain" \/ (proc[p].stage = "backup" /\ ~Forward(p))
                 /\ After(p) = "migrate" <=> proc[p].stage = "install" /\ Forward(p)
                 /\ After(p) = "readback" <=>
                       proc[p].stage = "migrate" \/ (proc[p].stage = "install" /\ ~Forward(p))
                 /\ After(p) = "readiness" <=> proc[p].stage = "readback"
                 /\ After(p) = "clients" <=> proc[p].stage = "readiness"
                 /\ After(p) = "commit" <=> proc[p].stage = "clients"
                 /\ After(p) = "activate" <=> proc[p].stage = "commit"
                 /\ After(p) = "publish" <=> proc[p].stage = "activate"
                 /\ After(p) = "done" <=> proc[p].stage = "publish"
<1>1. Forward(p) \in BOOLEAN
  BY DEF Forward
<1>2. After(p) = Successor(proc[p].command, proc[p].stage, Forward(p))
  BY DEF After, Following
<1> HIDE DEF Forward, After
<1>3. CASE proc[p].command = "backup"
  BY <1>2, <1>3 DEF Successor, Stages
<1>4. CASE proc[p].command = "upgrade"
  BY <1>1, <1>2, <1>4 DEF Successor, Stages
<1> QED
  BY <1>3, <1>4

LEMMA RecordStep ==
    ASSUME IInv, NEW p \in Procs, RecordEffect(p) PROVE IInv'
<1>1. /\ TypeOK /\ proc[p] \in Process /\ WorkOK(proc[p]) /\ proc[p].pc = "record"
      /\ UNCHANGED <<World, outcome, writes, files, faults>>
  BY DEF IInv, TypeOK, AllWork, RecordEffect, World, database
<1>2. PlaceOK(proc[p]) /\ BackupOK(proc[p])
  BY <1>1 DEF WorkOK, Aside
<1>3. proc[p].stage \in Stages /\ proc[p].command \in {"upgrade", "backup"}
      /\ proc[p].drained \in BOOLEAN /\ proc[p].unpacked \in BOOLEAN
      /\ proc[p].committed \in BOOLEAN /\ proc[p].stage # "done"
  BY <1>1, <1>2 DEF Process, PlaceOK
<1> DEFINE drained == proc[p].drained \/ proc[p].stage = "drain"
           released == proc[p].unpacked \/ proc[p].stage = "install"
           committed == proc[p].committed \/ proc[p].stage = "commit"
<1>4. drained \in BOOLEAN /\ released \in BOOLEAN /\ committed \in BOOLEAN
  BY <1>3, Zenon
<1>p. "thrown" \in Pcs /\ "intend" \in Pcs
  BY DEF Pcs
<1>5. CASE ~MayGoOn(p)
  <2> DEFINE y == [proc[p] EXCEPT !.pc = "thrown", !.stage = proc[p].stage, !.incomplete = TRUE,
                      !.drained = drained, !.unpacked = released, !.committed = committed]
  <2>1. proc' = [proc EXCEPT ![p] = y]
    BY <1>1, <1>5 DEF RecordEffect, TypeOK
  <2>2. proc[p].stage \in {"verify", "readback"}
    BY <1>5 DEF MayGoOn
  <2>3. committed = proc[p].committed
    BY <1>3, <2>2
  <2> HIDE DEF drained, released, committed
  <2>4. y \in Process
    BY <1>1, <1>3, <1>4, <1>p, GoneFurther
  <2>5. y.pc = "thrown" /\ Same(proc[p], y)
    BY <1>1, <2>3 DEF Process, Same
  <2> HIDE DEF y
  <2> QED
    BY <1>1, <2>1, <2>4, <2>5, FailingStep DEF TypeOK, Aside, files
<1>6. CASE MayGoOn(p)
  <2> DEFINE y == [proc[p] EXCEPT !.pc = "intend", !.stage = After(p), !.incomplete = TRUE,
                      !.drained = drained, !.unpacked = released, !.committed = committed]
  <2>1. proc' = [proc EXCEPT ![p] = y]
    BY <1>1, <1>6 DEF RecordEffect, TypeOK
  <2>2. /\ proc[p].command = "upgrade" => proc[p].stage \notin {"metadata", "own", "done"}
        /\ proc[p].command = "backup" => proc[p].stage \in {"backup", "metadata", "own"}
    BY <1>2, <1>3 DEF PlaceOK
  <2>3. After(p) \in Stages
    BY <1>3, <2>2, FollowingOf
  <2>4. y \in Process
    <3> HIDE DEF drained, released, committed
    <3> QED
      BY <1>1, <1>4, <1>p, <2>3, GoneFurther
  <2>5. /\ y.pc = "intend" /\ y.stage = After(p) /\ y.committed = committed
        /\ y.command = proc[p].command /\ y.target = proc[p].target /\ y.seen = proc[p].seen
        /\ y.backup = proc[p].backup /\ y.migrating = proc[p].migrating
    <3> HIDE DEF drained, released, committed
    <3> QED
      BY <1>1 DEF Process
  <2>6. committed <=> proc[p].committed \/ proc[p].stage = "commit"
    OBVIOUS
  <2> HIDE DEF y, drained, released, committed
  <2>7. FreshOK(y) /\ PlaceOK(y)
    <3>1. CASE proc[p].command = "backup"
      BY <1>2, <1>3, <2>2, <2>5, <3>1, FollowingOf DEF FreshOK, PlaceOK
    <3>2. CASE proc[p].command = "upgrade"
      BY <1>2, <1>3, <2>2, <2>5, <2>6, <3>2, FollowingOf DEF FreshOK, PlaceOK
    <3> QED
      BY <1>3, <3>1, <3>2
  <2>8. BackupOK(y)
    <3>1. CASE proc[p].command = "backup"
      BY <1>1, <1>2, <1>3, <2>2, <2>5, <3>1 DEF BackupOK
    <3>2. CASE proc[p].command = "upgrade"
      BY <1>1, <1>2, <1>3, <2>2, <2>5, <3>2, FollowingOf DEF BackupOK
    <3> QED
      BY <1>3, <3>1, <3>2
  <2>9. ASSUME y.command = "upgrade"
        PROVE  SchemaOK(y) /\ StoppedOK(y) /\ TargetOK(y) /\ PublishedOK(y)
    <3>1. /\ proc[p].command = "upgrade"
          /\ SchemaOK(proc[p]) /\ StoppedOK(proc[p]) /\ TargetOK(proc[p]) /\ PublishedOK(proc[p])
      BY <1>1, <2>5, <2>9 DEF WorkOK, Aside
    <3>2. Forward(p) <=> proc[p].seen.schema < Schema[proc[p].target]
      <4>1. proc[p].seen.schema \in Nat /\ Schema[proc[p].target] \in Nat
        BY <1>1, ReleasesAssumption DEF Process
      <4> QED
        BY <4>1 DEF Forward, Target
    <3> HIDE DEF Forward, After
    <3>3. SchemaOK(y)
      <4>1. proc[p].stage = "verify" => schema <= Schema[proc[p].target]
        BY <1>6, <3>1 DEF MayGoOn, Classified, SchemaOK, Target
      <4>2. proc[p].stage = "readback" => schema = Schema[proc[p].target]
        BY <1>6 DEF MayGoOn, Target
      <4> QED
        BY <1>3, <2>2, <2>5, <3>1, <3>2, <4>1, <4>2, FollowingOf DEF SchemaOK
    <3>4. StoppedOK(y)
      BY <1>1, <1>3, <2>2, <2>5, <3>1, <3>2, FollowingOf DEF StoppedOK
    <3>5. TargetOK(y)
      BY <1>1, <1>3, <2>2, <2>5, <3>1, FollowingOf DEF TargetOK, Publishing
    <3>6. PublishedOK(y)
      <4>1. CASE proc[p].stage = "publish"
        <5>1. /\ active = y.target /\ deployment = y.target /\ installed = y.target
              /\ y.target \in ownership.releases /\ y.backup \in ownership.backups
              /\ app = y.target /\ public /\ schema = Schema[y.target]
          BY <1>1, <2>5, <3>1, <4>1 DEF TargetOK, PublishedOK, SchemaOK, Publishing
        <5>2. backup[y.backup].stage = "validated"
          BY <1>2, <2>5, <3>1, <4>1 DEF BackupOK
        <5>3. Complete
          BY <5>1, <5>2 DEF Complete
        <5>4. After(p) = "done"
          BY <1>3, <2>2, <3>1, <4>1, FollowingOf
        <5> QED
          BY <2>5, <5>1, <5>3, <5>4 DEF PublishedOK
      <4>2. CASE proc[p].stage = "activate"
        <5>1. After(p) = "publish"
          BY <1>3, <2>2, <3>1, <4>2, FollowingOf
        <5> QED
          BY <1>1, <2>5, <3>1, <4>2, <5>1 DEF PublishedOK
      <4>3. CASE proc[p].stage \notin {"activate", "publish"}
        <5>1. After(p) \notin {"publish", "done"}
          BY <1>3, <2>2, <3>1, <4>3, FollowingOf
        <5> QED
          BY <2>5, <5>1 DEF PublishedOK
      <4> QED
        BY <4>1, <4>2, <4>3
    <3> QED
      BY <3>3, <3>4, <3>5, <3>6
  <2>10. WorkOK(y)
    BY <2>7, <2>8, <2>9 DEF WorkOK
  <2> QED
    BY <1>1, <2>1, <2>4, <2>10, GoStep DEF TypeOK, Free, files
<1> QED
  BY <1>5, <1>6

\* Calls that go well and change nothing that the invariant speaks of.
LEMMA CallSteps ==
    ASSUME IInv, NEW p \in Procs,
           Observe(p) \/ Unpack(p) \/ WriteLauncher(p) \/ CompareEvidence(p)
    PROVE  IInv'
<1>1. TypeOK /\ proc[p] \in Process /\ WorkOK(proc[p]) /\ Target(p) \in Releases
  BY DEF IInv, TypeOK, AllWork, Process, Target
<1>2. UNCHANGED <<World, outcome, writes, faults>> /\ launcher' \in Releases \cup {0}
      /\ unpacked' \subseteq Releases
  BY <1>1 DEF TypeOK, Observe, Unpack, WriteLauncher, CompareEvidence, World, database, files
<1>3. CASE Observe(p)
  <2>1. Goto(p, "record") /\ proc[p].pc \in {"observe", "quiet"} /\ "record" \in Pcs
    BY <1>3 DEF Observe, Pcs
  <2>2. ASSUME NEW y \in Process, y.pc = "record", Same(proc[p], y) PROVE WorkOK(y)
    BY <1>1, <2>1, <2>2 DEF WorkOK, FreshOK, PlaceOK, BackupOK, SchemaOK, StoppedOK, TargetOK,
       PublishedOK, Publishing, Same, Aside
  <2> QED
    BY <1>1, <1>2, <2>1, <2>2, PcStep DEF Free, TypeOK
<1>4. CASE Unpack(p)
  <2>1. Goto(p, "link") /\ proc[p].pc = "unpack" /\ "link" \in Pcs
    BY <1>4 DEF Unpack, Pcs
  <2>2. ASSUME NEW y \in Process, y.pc = "link", Same(proc[p], y) PROVE WorkOK(y)
    BY <1>1, <2>1, <2>2 DEF WorkOK, FreshOK, PlaceOK, BackupOK, SchemaOK, StoppedOK, TargetOK,
       PublishedOK, Publishing, Same, Aside
  <2> QED
    BY <1>1, <1>2, <2>1, <2>2, PcStep DEF Free, TypeOK
<1>5. CASE WriteLauncher(p)
  <2>1. proc[p].pc = "link" /\ "record" \in Pcs /\ "unproven" \in Pcs
    BY <1>5 DEF WriteLauncher, Pcs
  <2>2. PICK pc \in {"record", "unproven"} : Goto(p, pc)
    BY <1>5 DEF WriteLauncher
  <2>3. ASSUME NEW y \in Process, y.pc = pc, Same(proc[p], y) PROVE WorkOK(y)
    <3>1. proc[p].stage = "install"
      BY <1>1, <1>5 DEF WriteLauncher, WorkOK, PlaceOK, Aside
    <3>2. y.stage = "install" /\ FreshOK(y) /\ PlaceOK(y) /\ BackupOK(y)
      BY <1>1, <2>1, <2>2, <2>3, <3>1 DEF WorkOK, FreshOK, PlaceOK, BackupOK, Same, Aside
    <3>3. y.command = "upgrade" => SchemaOK(y) /\ StoppedOK(y)
      BY <1>1, <2>1, <2>3, <3>2 DEF WorkOK, SchemaOK, StoppedOK, Same, Aside
    <3>4. TargetOK(y) /\ PublishedOK(y)
      BY <3>2 DEF TargetOK, PublishedOK
    <3> QED
      BY <3>2, <3>3, <3>4 DEF WorkOK
  <2> QED
    BY <1>1, <1>2, <2>1, <2>2, <2>3, PcStep DEF Free, TypeOK
<1>6. CASE CompareEvidence(p)
  <2>1. proc[p].pc = "compare" /\ "record" \in Pcs /\ "unproven" \in Pcs
    BY <1>6 DEF CompareEvidence, Pcs
  <2>2. PICK pc \in {"record", "unproven"} : Goto(p, pc)
    BY <1>6 DEF CompareEvidence
  <2>3. ASSUME NEW y \in Process, y.pc = pc, Same(proc[p], y) PROVE WorkOK(y)
    <3>1. y.stage = "readiness" /\ FreshOK(y) /\ PlaceOK(y) /\ BackupOK(y)
      BY <1>1, <2>1, <2>2, <2>3 DEF WorkOK, FreshOK, PlaceOK, BackupOK, Same, Aside
    <3>2. y.command = "upgrade" => SchemaOK(y) /\ StoppedOK(y) /\ TargetOK(y)
      BY <1>1, <2>1, <2>3, <3>1 DEF WorkOK, SchemaOK, StoppedOK, TargetOK, Same, Aside
    <3>3. PublishedOK(y)
      BY <3>1 DEF PublishedOK
    <3> QED
      BY <3>1, <3>2, <3>3 DEF WorkOK
  <2> QED
    BY <1>1, <1>2, <2>1, <2>2, <2>3, PcStep DEF Free, TypeOK
<1> QED
  BY <1>3, <1>4, <1>5, <1>6

\* A backup is restored, and accepted or discarded.
LEMMA RestoreSteps ==
    ASSUME IInv, NEW p \in Procs, RestoreArchive(p) \/ DumpFails(p) PROVE IInv'
<1>1. TypeOK /\ proc[p] \in Process /\ WorkOK(proc[p])
      /\ proc[p].command \in {"upgrade", "backup"}
  BY DEF IInv, TypeOK, AllWork, Process
<1>2. UNCHANGED <<World, outcome, writes, files>> /\ faults' \in Nat
      /\ proc[p].pc \in {"dump", "restore"}
  BY <1>1 DEF TypeOK, RestoreArchive, DumpFails, CallFault, Fault, World, database
<1>3. PICK pc \in {"cleanup", "write-metadata", "record"} :
         Goto(p, pc) /\ (pc = "record" => proc[p].command = "backup")
  BY <1>1 DEF RestoreArchive, DumpFails
<1>4. pc \in Pcs
  BY DEF Pcs
<1>5. ASSUME NEW y \in Process, y.pc = pc, Same(proc[p], y) PROVE WorkOK(y)
  <2>1. PlaceOK(proc[p]) /\ BackupOK(proc[p])
    BY <1>1, <1>2 DEF WorkOK, Aside
  <2>2. FreshOK(y) /\ PlaceOK(y)
    BY <1>2, <1>3, <1>5, <2>1 DEF FreshOK, PlaceOK, Same
  <2>3. BackupOK(y)
    BY <1>2, <1>3, <1>5, <2>1 DEF PlaceOK, BackupOK, Same
  <2>4. y.command = "upgrade" => SchemaOK(y) /\ StoppedOK(y) /\ TargetOK(y) /\ PublishedOK(y)
    BY <1>1, <1>2, <1>5, <2>1 DEF PlaceOK, WorkOK, SchemaOK, StoppedOK, TargetOK, PublishedOK,
       Same, Aside
  <2> QED
    BY <2>2, <2>3, <2>4 DEF WorkOK
<1> QED
  BY <1>1, <1>2, <1>3, <1>4, <1>5, PcStep DEF Free, TypeOK, files

(***************************************************************************)
(* The answer to an error.                                                 *)
(***************************************************************************)
LEMMA HandleErrorStep ==
    ASSUME IInv, NEW p \in Procs, HandleError(p) PROVE IInv'
<1>1. /\ TypeOK /\ proc[p] \in Process /\ WorkOK(proc[p]) /\ proc[p].pc = "thrown"
      /\ UNCHANGED <<World, outcome, writes, files, faults>>
  BY DEF IInv, TypeOK, AllWork, HandleError, World, database
<1> DEFINE verdict == IF Answer(p) # "halt" THEN "failed"
                      ELSE IF proc[p].committed THEN "activate" ELSE "restore"
           y == [proc[p] EXCEPT !.pc = Answer(p), !.verdict = verdict]
<1>2. Answer(p) \in {"catch", "halt", "relink", "settle"} /\ verdict \in Verdicts
  BY DEF Answer, Verdicts
<1>3. y \in Process /\ proc' = [proc EXCEPT ![p] = y]
  <2>1. Answer(p) \in Pcs
    BY <1>2 DEF Pcs
  <2>2. proc' = [proc EXCEPT ![p] = y]
    BY <1>1 DEF HandleError, TypeOK
  <2> HIDE DEF verdict
  <2> QED
    BY <1>1, <1>2, <2>1, <2>2, GoneWithVerdict
<1>4. y.pc = Answer(p) /\ Same(proc[p], y)
  <2> HIDE DEF verdict
  <2> QED
    BY <1>1 DEF Process, Same
<1> HIDE DEF y
<1>5. WorkOK(y)
  <2>1. PlaceOK(proc[p]) /\ BackupOK(proc[p]) /\ proc[p].command \in {"upgrade", "backup"}
    BY <1>1 DEF WorkOK, Aside, Process
  <2>2. CASE Answer(p) = "catch"
    BY <1>4, <2>2 DEF WorkOK, FreshOK, Aside
  <2>3. CASE Answer(p) # "catch"
    <3>1. proc[p].command = "upgrade" /\ proc[p].stage \notin {"verify", "backup", "publish"}
          /\ (Answer(p) = "relink" => ~proc[p].committed /\ ~proc[p].migrating)
      BY <2>1, <2>3 DEF Answer
    <3>2. FreshOK(y) /\ PlaceOK(y)
      BY <1>1, <1>2, <1>4, <2>1, <2>3, <3>1 DEF FreshOK, PlaceOK, Same
    <3>3. BackupOK(y)
      BY <1>1, <1>2, <1>4, <2>1, <3>1 DEF BackupOK, Same
    <3>4. SchemaOK(y) /\ StoppedOK(y)
      BY <1>1, <1>2, <1>4, <3>1 DEF WorkOK, SchemaOK, StoppedOK, Same, Aside
    <3>5. TargetOK(y) /\ PublishedOK(y)
      BY <1>1, <1>2, <1>4, <3>1 DEF WorkOK, TargetOK, PublishedOK, Publishing, Same, Aside
    <3> QED
      BY <3>2, <3>3, <3>4, <3>5 DEF WorkOK
  <2> QED
    BY <2>2, <2>3
<1> QED
  BY <1>1, <1>3, <1>5, GoStep DEF Free, TypeOK, files

LEMMA RetainingSteps ==
    ASSUME IInv, NEW p \in Procs, HaltFails(p) \/ RestoreLauncher(p) \/ Settle(p) PROVE IInv'
<1>1. TypeOK /\ proc[p] \in Process /\ WorkOK(proc[p])
  BY DEF IInv, TypeOK, AllWork
<1>2. /\ UNCHANGED <<World, outcome, writes, unpacked>>
      /\ launcher' \in Releases \cup {0} /\ faults' \in Nat
  BY <1>1 DEF TypeOK, HaltFails, RestoreLauncher, Settle, Fault, World, database, files, Process
<1>3. CASE HaltFails(p)
  <2>1. Goto(p, "retain") /\ proc[p].pc = "halt" /\ "retain" \in Pcs
    BY <1>3 DEF HaltFails, Pcs
  <2>2. ASSUME NEW y \in Process, y.pc = "retain", Same(proc[p], y) PROVE WorkOK(y)
    BY <1>1, <2>1, <2>2 DEF WorkOK, FreshOK, PlaceOK, BackupOK, SchemaOK, StoppedOK, TargetOK,
       PublishedOK, Publishing, Same, Aside
  <2> QED
    BY <1>1, <1>2, <2>1, <2>2, PcStep DEF Free, TypeOK
<1>4. CASE RestoreLauncher(p)
  <2>1. proc[p].pc = "relink" /\ "restart" \in Pcs /\ "catch" \in Pcs
    BY <1>4 DEF RestoreLauncher, Pcs
  <2>2. PICK pc \in {"restart", "catch"} : Goto(p, pc)
    BY <1>4 DEF RestoreLauncher
  <2>3. ASSUME NEW y \in Process, y.pc = pc, Same(proc[p], y) PROVE WorkOK(y)
    BY <1>1, <2>1, <2>2, <2>3 DEF WorkOK, FreshOK, PlaceOK, BackupOK, SchemaOK, StoppedOK,
       TargetOK, PublishedOK, Publishing, Same, Aside
  <2> QED
    BY <1>1, <1>2, <2>1, <2>2, <2>3, PcStep DEF Free, TypeOK
<1>5. CASE Settle(p)
  <2> DEFINE y == [proc[p] EXCEPT !.pc = "retain", !.verdict = "rolled-back"]
  <2>1. "retain" \in Pcs /\ "rolled-back" \in Verdicts /\ proc[p].pc = "settle"
    BY <1>5 DEF Pcs, Verdicts, Settle
  <2>2. y \in Process /\ proc' = [proc EXCEPT ![p] = y]
    BY <1>1, <1>5, <2>1, GoneWithVerdict DEF Settle, TypeOK
  <2>3. y.pc = "retain" /\ Same(proc[p], y)
    BY <1>1 DEF Process, Same
  <2> HIDE DEF y
  <2>4. WorkOK(y)
    BY <1>1, <2>1, <2>3 DEF WorkOK, FreshOK, PlaceOK, BackupOK, SchemaOK, StoppedOK, TargetOK,
       PublishedOK, Publishing, Same, Aside
  <2> QED
    BY <1>1, <1>2, <2>1, <2>2, <2>4, GoStep DEF Free, TypeOK
<1> QED
  BY <1>3, <1>4, <1>5

\* The release and the backup of the failed upgrade go into the record.
LEMMA RetainStep ==
    ASSUME IInv, NEW p \in Procs, RetainAssets(p) PROVE IInv'
<1>1. /\ TypeOK /\ proc[p] \in Process /\ WorkOK(proc[p]) /\ proc[p].pc = "retain" /\ holder = p
      /\ UNCHANGED <<schema, writes, service, files, active, deployment, installed, backup,
                     outcome, faults>>
  BY DEF IInv, TypeOK, AllWork, LockOK, RetainAssets, Free, database
<1>2. PICK y \in Process : y.pc = "catch" /\ proc' = [proc EXCEPT ![p] = y]
  <2>1. Goto(p, "catch") /\ "catch" \in Pcs
    BY DEF RetainAssets, Pcs
  <2> QED
    BY <1>1, <2>1, SameButPc, PcMoves
<1>3. proc[p].backup \in Backups /\ proc[p].seen.ownership \in Ownership
  BY <1>1 DEF WorkOK, PlaceOK, BackupOK, Process, Aside
<1>4. ownership' \in Ownership
  BY <1>1, <1>3 DEF RetainAssets, Ownership, TypeOK
<1>5. ShellOK'
  BY <1>1, <1>4 DEF ShellOK, TypeOK, service, files, outcome
<1>6. FloorOK' /\ SchemaIsKnown'
  BY <1>1 DEF IInv, FloorOK, SchemaIsKnown, service
<1>7. WorkOK(y)'
  BY <1>2 DEF WorkOK, FreshOK, Aside
<1> QED
  BY <1>1, <1>2, <1>5, <1>6, <1>7, HeldStep DEF outcome

-----------------------------------------------------------------------------
(***************************************************************************)
(* The steps that write a backup.                                          *)
(***************************************************************************)
LEMMA BackupStep ==
    ASSUME IInv, NEW p \in Procs, proc[p].pc \notin Aside,
           proc[p].stage \in {"backup", "metadata"},
           NEW y \in Process, proc' = [proc EXCEPT ![p] = y],
           y.command = proc[p].command, y.stage = proc[p].stage, y.target = proc[p].target,
           y.seen = proc[p].seen, y.migrating = proc[p].migrating,
           backup' \in [Backups -> Backup], \A b \in Backups : backup'[b].schema <= schema,
           y.pc \notin Aside, PlaceOK(y), BackupOK(y)',
           UNCHANGED <<database, service, files, records, outcome, faults>>
    PROVE  IInv'
<1>1. TypeOK /\ proc[p] \in Process /\ WorkOK(proc[p]) /\ holder = p
  BY DEF IInv, TypeOK, AllWork, LockOK, Aside, Free
<1>2. ShellOK'
  BY <1>1 DEF TypeOK, ShellOK, database, service, files, records, outcome
<1>3. FloorOK' /\ SchemaIsKnown'
  BY DEF IInv, FloorOK, SchemaIsKnown, database, service, records
<1>4. y.command = "upgrade" => SchemaOK(y)'
  BY <1>1 DEF WorkOK, SchemaOK, database, records
<1>5. StoppedOK(y)' /\ TargetOK(y)' /\ PublishedOK(y)' /\ FreshOK(y) /\ PlaceOK(y)'
  BY DEF StoppedOK, TargetOK, PublishedOK, FreshOK, Aside, PlaceOK
<1>6. WorkOK(y)'
  BY <1>4, <1>5 DEF WorkOK, FreshOK
<1> QED
  BY <1>1, <1>2, <1>3, <1>6, HeldStep DEF outcome

LEMMA MakeDirectoryStep ==
    ASSUME IInv, NEW p \in Procs, MakeDirectory(p) PROVE IInv'
<1>1. TypeOK /\ proc[p] \in Process /\ PlaceOK(proc[p]) /\ proc[p].pc = "mkdir"
      /\ proc[p].stage = "backup"
  BY DEF IInv, TypeOK, AllWork, WorkOK, PlaceOK, MakeDirectory, Aside
<1>2. PICK b \in Backups :
         /\ backup' = [backup EXCEPT ![b].stage = "empty"]
         /\ proc' = [proc EXCEPT ![p].pc = "dump", ![p].backup = b]
  BY DEF MakeDirectory
<1>3. PICK y \in Process :
         /\ y.pc = "dump" /\ y.backup = b /\ y.command = proc[p].command
         /\ y.stage = proc[p].stage /\ y.target = proc[p].target /\ y.seen = proc[p].seen
         /\ y.migrating = proc[p].migrating /\ y.committed = proc[p].committed
         /\ proc' = [proc EXCEPT ![p] = y]
  <2> DEFINE y == [proc[p] EXCEPT !.pc = "dump", !.backup = b]
  <2>1. "dump" \in Pcs
    BY DEF Pcs
  <2>2. y \in Process
    BY <1>1, <2>1, GoneBackingUp
  <2>3. /\ y.pc = "dump" /\ y.backup = b /\ y.command = proc[p].command
        /\ y.stage = proc[p].stage /\ y.target = proc[p].target /\ y.seen = proc[p].seen
        /\ y.migrating = proc[p].migrating /\ y.committed = proc[p].committed
    BY <1>1 DEF Process
  <2>4. proc' = [proc EXCEPT ![p] = y]
    BY <1>1, <1>2 DEF TypeOK
  <2> HIDE DEF y
  <2> QED
    BY <2>2, <2>3, <2>4
<1>4. backup' \in [Backups -> Backup] /\ \A c \in Backups : backup'[c].schema <= schema
  BY <1>1, <1>2 DEF IInv, FloorOK, TypeOK, Backup
<1>5. PlaceOK(y)
  BY <1>1, <1>3 DEF PlaceOK
<1>6. BackupOK(y)'
  BY <1>1, <1>3 DEF BackupOK
<1> QED
  BY <1>1, <1>3, <1>4, <1>5, <1>6, BackupStep DEF MakeDirectory, Aside

LEMMA ArchiveSteps ==
    ASSUME IInv, NEW p \in Procs, Dump(p) \/ RemoveDirectory(p) \/ WriteMetadata(p)
    PROVE  IInv'
<1>1. /\ TypeOK /\ proc[p] \in Process /\ PlaceOK(proc[p]) /\ BackupOK(proc[p])
      /\ proc[p].pc \in {"dump", "cleanup", "write-metadata"}
      /\ proc[p].stage \in {"backup", "metadata"} /\ proc[p].backup \in Backups
  BY DEF IInv, TypeOK, AllWork, WorkOK, PlaceOK, BackupOK, Dump, RemoveDirectory, WriteMetadata,
         Aside
<1>2. PICK pc \in {"restore", "unproven", "record"} :
         /\ Goto(p, pc)
         /\ pc = "restore" => Dump(p)
         /\ pc = "record" => WriteMetadata(p)
  BY DEF Dump, RemoveDirectory, WriteMetadata
<1>3. PICK y \in Process : y.pc = pc /\ Same(proc[p], y) /\ proc' = [proc EXCEPT ![p] = y]
  <2>1. pc \in Pcs
    BY DEF Pcs
  <2> QED
    BY <1>1, <1>2, <2>1, SameButPc, PcMoves
<1>4. backup' \in [Backups -> Backup] /\ \A b \in Backups : backup'[b].schema <= schema
  <2>1. schema \in Nat /\ writes \in Nat /\ backup \in [Backups -> Backup]
        /\ \A b \in Backups : backup[b].schema <= schema
    BY <1>1 DEF IInv, FloorOK, TypeOK
  <2>2. CASE Dump(p)
    <3> DEFINE z == [stage |-> "archive", schema |-> schema, writes |-> writes]
    <3>1. z \in Backup /\ z.schema = schema
      BY <2>1 DEF Backup
    <3>2. backup' = [backup EXCEPT ![proc[p].backup] = z]
      BY <2>2 DEF Dump
    <3> HIDE DEF z
    <3>3. \A b \in Backups : backup'[b] = z \/ backup'[b] = backup[b]
      BY <2>1, <3>2
    <3>4. backup' \in [Backups -> Backup]
      BY <2>1, <3>1, <3>2
    <3> QED
      BY <2>1, <3>1, <3>3, <3>4
  <2>3. CASE RemoveDirectory(p) \/ WriteMetadata(p)
    <3>1. PICK s \in {"absent", "validated"} :
             backup' = [backup EXCEPT ![proc[p].backup].stage = s]
      BY <2>3 DEF RemoveDirectory, WriteMetadata
    <3> QED
      BY <2>1, <3>1 DEF Backup
  <2> QED
    BY <2>2, <2>3
<1>5. PlaceOK(y)
  BY <1>1, <1>2, <1>3 DEF PlaceOK, Same, Dump
<1>6. BackupOK(y)'
  <2>1. y.backup \in Backups /\ (y.command = "upgrade" => y.stage = "backup")
    BY <1>1, <1>3 DEF PlaceOK, Same
  <2>2. y.pc = "record" => backup'[y.backup].stage = "validated"
    BY <1>1, <1>2, <1>3 DEF WriteMetadata, Same, TypeOK, Backup
  <2> QED
    BY <2>1, <2>2 DEF BackupOK
<1>7. UNCHANGED <<database, service, files, records, outcome, faults>>
  BY DEF Dump, RemoveDirectory, WriteMetadata
<1> QED
  BY <1>1, <1>2, <1>3, <1>4, <1>5, <1>6, <1>7, BackupStep DEF Same, Aside

-----------------------------------------------------------------------------
(***************************************************************************)
(* The steps that stop or start the application.                           *)
(***************************************************************************)
\* A step of an upgrade that leaves the schema and the records.
LEMMA ServiceStep ==
    ASSUME IInv, NEW p \in Procs, proc[p].pc \notin Aside, proc[p].command = "upgrade",
           NEW y \in Process, proc' = [proc EXCEPT ![p] = y], Same(proc[p], y),
           app' \in Releases \cup {0}, public' \in BOOLEAN, SchemaIsKnown', faults' \in Nat,
           y.pc \notin Aside => PlaceOK(y) /\ BackupOK(y) /\ StoppedOK(y)' /\ TargetOK(y)'
                                /\ PublishedOK(y)',
           y.pc \notin {"idle", "previewed", "begun", "check"},
           UNCHANGED <<database, files, records, backup, outcome>>
    PROVE  IInv'
<1>1. TypeOK /\ proc[p] \in Process /\ WorkOK(proc[p]) /\ holder = p
  BY DEF IInv, TypeOK, AllWork, LockOK, Aside, Free
<1>2. ShellOK'
  BY <1>1 DEF TypeOK, ShellOK, database, files, records, outcome
<1>3. FloorOK'
  BY DEF IInv, FloorOK, database, records
<1>4. SchemaOK(y)'
  BY <1>1 DEF WorkOK, SchemaOK, Same, database, records
<1>5. FreshOK(y)' /\ (y.pc \notin Aside => PlaceOK(y)' /\ BackupOK(y)')
  BY DEF FreshOK, PlaceOK, BackupOK
<1>6. WorkOK(y)'
  BY <1>4, <1>5 DEF WorkOK, FreshOK
<1> QED
  BY <1>1, <1>2, <1>3, <1>6, HeldStep DEF outcome

\* What the calls of an upgrade know of it.
LEMMA UpgradeCall ==
    ASSUME IInv, NEW p \in Procs,
           proc[p].pc \in {"stop", "halt", "start-private", "start-public", "relink", "restart",
                           "settle", "migrate"}
    PROVE  /\ TypeOK /\ proc[p] \in Process /\ proc[p].command = "upgrade" /\ holder = p
           /\ PlaceOK(proc[p]) /\ BackupOK(proc[p]) /\ SchemaOK(proc[p])
           /\ StoppedOK(proc[p]) /\ TargetOK(proc[p]) /\ PublishedOK(proc[p])
           /\ proc[p].pc \notin Aside /\ Target(p) \in Releases
           /\ Target(p) = proc[p].target
<1>1. TypeOK /\ proc[p] \in Process /\ WorkOK(proc[p]) /\ proc[p].pc \notin Aside /\ holder = p
  BY DEF IInv, TypeOK, AllWork, LockOK, Aside, Free
<1>2. proc[p].command = "upgrade"
  <2>1. PlaceOK(proc[p]) /\ proc[p].command \in {"upgrade", "backup"}
    BY <1>1 DEF WorkOK, Process
  <2> QED
    BY <2>1 DEF PlaceOK
<1> QED
  BY <1>1, <1>2 DEF WorkOK, Process, Target

LEMMA GotoSame ==
    ASSUME TypeOK, NEW p \in Procs, NEW pc \in Pcs, Goto(p, pc)
    PROVE  \E y \in Process : y.pc = pc /\ Same(proc[p], y) /\ proc' = [proc EXCEPT ![p] = y]
<1>1. proc[p] \in Process
  BY DEF TypeOK
<1> QED
  BY <1>1, SameButPc, PcMoves

LEMMA StopSteps ==
    ASSUME IInv, NEW p \in Procs, StopApplication(p) \/ StopFails(p) \/ Halt(p) PROVE IInv'
<1>1. proc[p].pc \in {"stop", "halt"}
  BY DEF StopApplication, StopFails, Halt
<1>2. PICK pc \in {"quiet", "unproven", "retain"} :
         /\ Goto(p, pc)
         /\ pc = "quiet" => app' = 0 /\ proc[p].pc = "stop"
         /\ pc = "unproven" => proc[p].pc = "stop"
         /\ pc = "retain" => proc[p].pc = "halt"
  BY DEF StopApplication, StopFails, Halt
<1>3. app' \in {app, 0} /\ UNCHANGED <<database, public, files, records, backup, outcome>>
  BY DEF StopApplication, StopFails, Halt
<1>4. pc \in Pcs
  BY DEF Pcs
<1>5. PICK y \in Process : y.pc = pc /\ Same(proc[p], y) /\ proc' = [proc EXCEPT ![p] = y]
  BY <1>1, <1>2, <1>4, UpgradeCall, GotoSame
<1>6. SchemaIsKnown'
  BY <1>3 DEF IInv, SchemaIsKnown, database, records
<1>7. faults' \in Nat /\ app' \in Releases \cup {0} /\ public' \in BOOLEAN
  BY <1>3 DEF IInv, TypeOK, StopApplication, StopFails, Halt, CallFault, Fault
<1>8. PlaceOK(y) /\ BackupOK(y)
  BY <1>1, <1>2, <1>5, UpgradeCall DEF PlaceOK, BackupOK, Same
<1>9. StoppedOK(y)'
  BY <1>1, <1>2, <1>5, UpgradeCall DEF PlaceOK, StoppedOK, Same
<1>10. TargetOK(y)'
  BY <1>1, <1>2, <1>3, <1>5, UpgradeCall DEF PlaceOK, TargetOK, Publishing, Same, records
<1>11. PublishedOK(y)'
  BY <1>1, <1>2, <1>5, UpgradeCall DEF PlaceOK, PublishedOK, Publishing, Same
<1> QED
  BY <1>1, <1>2, <1>3, <1>5, <1>6, <1>7, <1>8, <1>9, <1>10, <1>11, UpgradeCall, ServiceStep

LEMMA StartPrivatelyStep ==
    ASSUME IInv, NEW p \in Procs, StartPrivately(p) PROVE IInv'
<1>1. proc[p].pc = "start-private" /\ Goto(p, "compare") /\ "compare" \in Pcs
  BY DEF StartPrivately, Pcs
<1>2. proc[p].stage = "readiness" /\ schema = Schema[Target(p)]
  BY <1>1, UpgradeCall DEF PlaceOK, SchemaOK
<1>3. PICK y \in Process :
         y.pc = "compare" /\ Same(proc[p], y) /\ proc' = [proc EXCEPT ![p] = y]
  BY <1>1, UpgradeCall, GotoSame
<1>4. UNCHANGED <<database, files, records, backup, outcome, faults>>
      /\ app' = Target(p) /\ public' = FALSE
  BY <1>2 DEF StartPrivately, database
<1>5. SchemaIsKnown'
  <2>1. schema <= Schema[Target(p)]
    BY <1>2 DEF IInv, TypeOK
  <2> QED
    BY <1>4, <2>1 DEF SchemaIsKnown, database
<1>6. PlaceOK(y) /\ BackupOK(y)
  BY <1>1, <1>2, <1>3, UpgradeCall DEF PlaceOK, BackupOK, Same
<1>7. StoppedOK(y)' /\ TargetOK(y)' /\ PublishedOK(y)'
  BY <1>1, <1>2, <1>3, <1>4, UpgradeCall DEF StoppedOK, TargetOK, PublishedOK, Same
<1>8. faults' \in Nat /\ app' \in Releases \cup {0} /\ public' \in BOOLEAN
  BY <1>1, <1>4, UpgradeCall DEF TypeOK
<1> QED
  BY <1>1, <1>3, <1>4, <1>5, <1>6, <1>7, <1>8, UpgradeCall, ServiceStep

LEMMA StartInPublicStep ==
    ASSUME IInv, NEW p \in Procs, StartInPublic(p) PROVE IInv'
<1>1. proc[p].pc = "start-public" /\ Goto(p, "record") /\ "record" \in Pcs
  BY DEF StartInPublic, Pcs
<1>2. proc[p].stage = "activate" /\ schema = Schema[Target(p)] /\ active = Target(p)
  BY <1>1, UpgradeCall DEF PlaceOK, SchemaOK, TargetOK
<1>3. PICK y \in Process :
         y.pc = "record" /\ Same(proc[p], y) /\ proc' = [proc EXCEPT ![p] = y]
  BY <1>1, UpgradeCall, GotoSame
<1>4. UNCHANGED <<database, files, records, backup, outcome, faults>>
      /\ app' = Target(p) /\ public' = TRUE
  BY <1>2 DEF StartInPublic, database
<1>5. SchemaIsKnown'
  <2>1. schema <= Schema[Target(p)]
    BY <1>2 DEF IInv, TypeOK
  <2> QED
    BY <1>2, <1>4, <2>1 DEF SchemaIsKnown, database, records
<1>6. PlaceOK(y) /\ BackupOK(y)
  BY <1>1, <1>2, <1>3, UpgradeCall DEF PlaceOK, BackupOK, Same
<1>7. StoppedOK(y)' /\ TargetOK(y)' /\ PublishedOK(y)'
  BY <1>1, <1>2, <1>3, <1>4, UpgradeCall DEF StoppedOK, TargetOK, PublishedOK, Same, records
<1>8. faults' \in Nat /\ app' \in Releases \cup {0} /\ public' \in BOOLEAN
  BY <1>1, <1>4, UpgradeCall DEF TypeOK
<1> QED
  BY <1>1, <1>3, <1>4, <1>5, <1>6, <1>7, <1>8, UpgradeCall, ServiceStep

LEMMA StartFailsStep ==
    ASSUME IInv, NEW p \in Procs, StartFails(p) PROVE IInv'
<1>1. proc[p].pc \in {"start-private", "start-public"} /\ Goto(p, "unproven")
      /\ "unproven" \in Pcs
  BY DEF StartFails, Pcs
<1>2. /\ proc[p].stage \in {"readiness", "activate"} /\ schema = Schema[Target(p)]
      /\ proc[p].pc = "start-public" => active = Target(p)
      /\ schema \in Nat
  BY <1>1, UpgradeCall DEF PlaceOK, SchemaOK, TargetOK, TypeOK
<1>3. PICK y \in Process :
         y.pc = "unproven" /\ Same(proc[p], y) /\ proc' = [proc EXCEPT ![p] = y]
  BY <1>1, UpgradeCall, GotoSame
<1>4. UNCHANGED <<database, files, records, backup, outcome>>
  BY DEF StartFails
<1>5. \/ UNCHANGED service
      \/ app' \in {0, Target(p)} /\ public' = (proc[p].pc = "start-public")
  BY DEF StartFails
<1>6. SchemaIsKnown'
  <2>1. CASE UNCHANGED service
    BY <1>4, <2>1 DEF IInv, SchemaIsKnown, database, service, records
  <2>2. CASE app' \in {0, Target(p)} /\ public' = (proc[p].pc = "start-public")
    <3>1. public' => active = Target(p)
      BY <1>2, <2>2, Zenon
    <3>2. app' # 0 => app' = Target(p)
      BY <2>2
    <3>3. schema <= Schema[Target(p)]
      BY <1>2
    <3>4. app' # 0 => schema <= Schema[app']
      BY <3>2, <3>3
    <3>5. app' # 0 => (public' => app' \in {active, deployment})
      BY <3>1, <3>2, Zenon
    <3> QED
      BY <1>4, <3>4, <3>5 DEF SchemaIsKnown, database, records
  <2> QED
    BY <1>5, <2>1, <2>2
<1>7. PlaceOK(y) /\ BackupOK(y)
  BY <1>1, <1>2, <1>3, UpgradeCall DEF PlaceOK, BackupOK, Same
<1>8. StoppedOK(y)' /\ TargetOK(y)' /\ PublishedOK(y)'
  BY <1>1, <1>2, <1>3, <1>4, UpgradeCall DEF StoppedOK, TargetOK, PublishedOK, Same, records
<1>9. faults' \in Nat /\ app' \in Releases \cup {0} /\ public' \in BOOLEAN
  <2>1. faults' \in Nat
    BY <1>1, UpgradeCall DEF TypeOK, StartFails, CallFault, Fault
  <2>2. app' \in Releases \cup {0} /\ public' \in BOOLEAN
    BY <1>1, <1>5, UpgradeCall DEF TypeOK, service
  <2> QED
    BY <2>1, <2>2
<1> QED
  BY <1>1, <1>3, <1>4, <1>6, <1>7, <1>8, <1>9, UpgradeCall, ServiceStep

\* The release that goes back is the one that is deployed, and the schema is its own.
LEMMA BeforeRestart ==
    ASSUME IInv, NEW p \in Procs, proc[p].pc = "restart"
    PROVE  /\ proc[p].seen.deployment = deployment /\ schema = Schema[deployment]
           /\ proc[p].stage \notin {"verify", "backup", "activate", "publish", "done"}
<1>1. /\ ~proc[p].committed /\ ~proc[p].migrating
      /\ proc[p].stage \notin {"verify", "backup", "activate", "publish", "done"}
  BY UpgradeCall DEF PlaceOK
<1> QED
  BY <1>1, UpgradeCall DEF SchemaOK

LEMMA RestartPriorStep ==
    ASSUME IInv, NEW p \in Procs, RestartPrior(p) PROVE IInv'
<1>1. proc[p].pc = "restart" /\ Goto(p, "settle") /\ "settle" \in Pcs
  BY DEF RestartPrior, Pcs
<1>2. PICK y \in Process :
         y.pc = "settle" /\ Same(proc[p], y) /\ proc' = [proc EXCEPT ![p] = y]
  BY <1>1, UpgradeCall, GotoSame
<1>3. UNCHANGED <<database, files, records, backup, outcome, faults>>
      /\ app' = deployment /\ public' = TRUE
  BY <1>1, BeforeRestart DEF RestartPrior, database
<1>4. SchemaIsKnown'
  <2>1. schema <= Schema[deployment]
    BY <1>1, BeforeRestart DEF IInv, TypeOK
  <2> QED
    BY <1>3, <2>1 DEF SchemaIsKnown, database, records
<1>5. PlaceOK(y) /\ BackupOK(y)
  BY <1>1, <1>2, UpgradeCall DEF PlaceOK, BackupOK, Same
<1>6. StoppedOK(y)' /\ TargetOK(y)' /\ PublishedOK(y)'
  BY <1>1, <1>2, <1>3, BeforeRestart DEF StoppedOK, TargetOK, PublishedOK, Publishing, Same
<1>7. faults' \in Nat /\ app' \in Releases \cup {0} /\ public' \in BOOLEAN
  BY <1>1, <1>3, UpgradeCall DEF TypeOK
<1> QED
  BY <1>1, <1>2, <1>3, <1>4, <1>5, <1>6, <1>7, UpgradeCall, ServiceStep

LEMMA RollbackFailsStep ==
    ASSUME IInv, NEW p \in Procs, RollbackFails(p) PROVE IInv'
<1>1. proc[p].pc \in {"relink", "restart", "settle"} /\ Goto(p, "catch") /\ "catch" \in Pcs
  BY DEF RollbackFails, Pcs
<1>2. PICK y \in Process :
         y.pc = "catch" /\ Same(proc[p], y) /\ proc' = [proc EXCEPT ![p] = y]
  BY <1>1, UpgradeCall, GotoSame
<1>3. UNCHANGED <<database, files, records, backup, outcome>>
  BY DEF RollbackFails
<1>4. \/ UNCHANGED service
      \/ proc[p].pc = "restart" /\ app' \in {0, deployment} /\ public' = TRUE
  BY <1>1, BeforeRestart DEF RollbackFails
<1>5. SchemaIsKnown'
  <2>1. CASE UNCHANGED service
    BY <1>3, <2>1 DEF IInv, SchemaIsKnown, database, service, records
  <2>2. CASE proc[p].pc = "restart" /\ app' \in {0, deployment} /\ public' = TRUE
    <3>1. schema <= Schema[deployment]
      BY <2>2, BeforeRestart DEF IInv, TypeOK
    <3> QED
      BY <1>3, <2>2, <3>1 DEF SchemaIsKnown, database, records
  <2> QED
    BY <1>4, <2>1, <2>2
<1>6. faults' \in Nat /\ app' \in Releases \cup {0} /\ public' \in BOOLEAN
  <2>1. faults' \in Nat
    BY <1>1, UpgradeCall DEF TypeOK, RollbackFails, Fault
  <2>2. app' \in Releases \cup {0} /\ public' \in BOOLEAN
    BY <1>1, <1>4, UpgradeCall DEF TypeOK, service
  <2> QED
    BY <2>1, <2>2
<1>7. y.pc \in Aside /\ y.pc \notin {"idle", "previewed", "begun", "check"}
  BY <1>2 DEF Aside
<1> QED
  BY <1>1, <1>2, <1>3, <1>5, <1>6, <1>7, UpgradeCall, ServiceStep

-----------------------------------------------------------------------------
(***************************************************************************)
(* The steps that migrate, and the crash.                                  *)
(***************************************************************************)
LEMMA SchemaStep ==
    ASSUME IInv, NEW p \in Procs, proc[p].pc = "migrate",
           NEW y \in Process, proc' = [proc EXCEPT ![p] = y], Same(proc[p], y),
           y.pc \in {"migrate", "record", "unproven"},
           schema' \in schema .. Schema[Target(p)], faults' \in Nat,
           UNCHANGED <<writes, service, files, records, backup, outcome>>
    PROVE  IInv'
<1>1. /\ TypeOK /\ PlaceOK(proc[p]) /\ BackupOK(proc[p]) /\ SchemaOK(proc[p])
      /\ StoppedOK(proc[p]) /\ TargetOK(proc[p]) /\ PublishedOK(proc[p])
      /\ holder = p /\ proc[p].command = "upgrade" /\ Target(p) \in Releases
      /\ Target(p) = proc[p].target
  BY UpgradeCall
<1>2. proc[p].stage = "migrate" /\ proc[p].migrating
  BY <1>1 DEF PlaceOK
<1>3. app = 0 /\ app' = 0
  BY <1>1, <1>2 DEF StoppedOK, SchemaOK, service
<1>4. /\ schema \in Nat /\ schema' \in Nat /\ schema <= schema'
      /\ schema' <= Schema[proc[p].target]
  BY <1>1, ReleasesAssumption DEF TypeOK
<1>5. ShellOK'
  BY <1>1, <1>4 DEF TypeOK, ShellOK, service, files, records, outcome
<1>6. FloorOK'
  <2>1. Schema[deployment] \in Nat /\ \A b \in Backups : backup[b].schema \in Nat
    BY <1>1, ReleasesAssumption DEF TypeOK, Backup
  <2> QED
    BY <1>4, <2>1 DEF IInv, FloorOK, records
<1>7. SchemaIsKnown'
  BY <1>3 DEF SchemaIsKnown
<1>8. FreshOK(y)' /\ PlaceOK(y)' /\ BackupOK(y)'
  BY <1>1, <1>2 DEF FreshOK, PlaceOK, BackupOK, Same
<1>9. SchemaOK(y)'
  <2>1. proc[p].seen.schema \in Nat
    BY <1>1 DEF TypeOK, Process
  <2> QED
    BY <1>1, <1>2, <1>4, <2>1 DEF SchemaOK, Same, records
<1>10. StoppedOK(y)' /\ TargetOK(y)' /\ PublishedOK(y)'
  BY <1>1, <1>2, <1>3 DEF StoppedOK, TargetOK, PublishedOK, Same
<1>11. WorkOK(y)'
  BY <1>8, <1>9, <1>10 DEF WorkOK
<1> QED
  BY <1>1, <1>5, <1>6, <1>7, <1>11, HeldStep DEF outcome

LEMMA MigrateSteps ==
    ASSUME IInv, NEW p \in Procs, Migrate(p) \/ MigrateFails(p) PROVE IInv'
<1>1. /\ proc[p].pc = "migrate" /\ TypeOK /\ proc[p] \in Process
      /\ UNCHANGED <<writes, service, files, records, backup, outcome>>
  BY DEF IInv, TypeOK, Migrate, MigrateFails
<1>2. faults' \in Nat
  BY <1>1 DEF TypeOK, Migrate, MigrateFails, CallFault, Fault
<1>3. schema \in Nat /\ Schema[Target(p)] \in Nat
  BY <1>1, UpgradeCall, ReleasesAssumption DEF TypeOK
<1>4. schema' \in schema .. Schema[Target(p)]
  BY <1>3 DEF Migrate, MigrateFails, AcceptsSchema
<1>5. \/ UNCHANGED proc
      \/ \E pc \in {"record", "unproven"} : Goto(p, pc)
  BY DEF Migrate, MigrateFails
<1>6. PICK y \in Process : /\ y.pc \in {"migrate", "record", "unproven"} /\ Same(proc[p], y)
                           /\ proc' = [proc EXCEPT ![p] = y]
  <2>1. CASE UNCHANGED proc
    BY <1>1, <2>1 DEF Same, TypeOK
  <2>2. CASE \E pc \in {"record", "unproven"} : Goto(p, pc)
    BY <1>1, <2>2, GotoSame DEF Pcs
  <2> QED
    BY <1>5, <2>1, <2>2
<1> QED
  BY <1>1, <1>2, <1>4, <1>6, SchemaStep

\* The others wait for the lock, and know nothing yet.
LEMMA CrashStep ==
    ASSUME IInv, NEW p \in Procs, Crash(p) PROVE IInv'
<1>1. /\ TypeOK /\ holder = p /\ holder' = None /\ report' = "none" /\ interrupted' \in BOOLEAN
      /\ proc' = [proc EXCEPT ![p] = Idle] /\ faults' \in Nat
      /\ UNCHANGED <<writes, service, files, records, backup>>
  BY DEF IInv, TypeOK, Crash, End, Fault
<1>2. /\ schema \in Nat /\ schema' \in Nat /\ schema <= schema'
      /\ schema' # schema => proc[p].pc = "migrate"
  <2>1. CASE proc[p].pc = "migrate"
    <3>1. schema \in Nat /\ Schema[Target(p)] \in Nat
      BY <1>1, <2>1, UpgradeCall, ReleasesAssumption DEF TypeOK
    <3> QED
      BY <2>1, <3>1 DEF Crash
  <2>2. CASE proc[p].pc # "migrate"
    BY <1>1, <2>2 DEF Crash, TypeOK
  <2> QED
    BY <2>1, <2>2
<1>3. TypeOK'
  <2>1. proc' \in [Procs -> Process]
    BY <1>1, IdleType DEF TypeOK
  <2> QED
    BY <1>1, <1>2, <2>1 DEF TypeOK, service, files, records
<1>4. \A q \in Procs : proc'[q].pc \in Free
  BY <1>1, IdleType, NobodyAssumption DEF IInv, LockOK, TypeOK, Free
<1>5. AllWork'
  <2>1. \A q \in Procs : FreshOK(proc'[q])
    <3>1. \A q \in Procs : q # p => proc'[q] = proc[q]
      BY <1>1 DEF TypeOK
    <3>2. proc'[p].pc = "idle"
      BY <1>1, IdleType DEF TypeOK
    <3> QED
      BY <3>1, <3>2 DEF IInv, AllWork, WorkOK, FreshOK
  <2> QED
    BY <1>4, <2>1 DEF AllWork, WorkOK, FreshOK, Free, Aside
<1>6. FloorOK'
  <2>1. Schema[deployment] \in Nat /\ \A b \in Backups : backup[b].schema \in Nat
    BY <1>1, ReleasesAssumption DEF TypeOK, Backup
  <2> QED
    BY <1>1, <1>2, <2>1 DEF IInv, FloorOK, records
<1>7. SchemaIsKnown'
  <2>1. CASE proc[p].pc = "migrate"
    <3>1. app = 0
      BY <2>1, UpgradeCall DEF PlaceOK, StoppedOK, SchemaOK
    <3> QED
      BY <1>1, <3>1 DEF SchemaIsKnown, service
  <2>2. CASE schema' = schema
    BY <1>1, <2>2 DEF IInv, SchemaIsKnown, service, records
  <2> QED
    BY <1>2, <2>1, <2>2
<1> QED
  BY <1>1, <1>3, <1>4, <1>5, <1>6, <1>7 DEF IInv, LockOK, SuccessIsComplete

-----------------------------------------------------------------------------
(***************************************************************************)
(* The steps that write the records.                                       *)
(***************************************************************************)
RecordPcs == {"select", "write-deployment", "write-ownership", "write-installation"}

LEMMA RecordCall ==
    ASSUME IInv, NEW p \in Procs, proc[p].pc \in RecordPcs
    PROVE  /\ TypeOK /\ proc[p] \in Process /\ holder = p /\ Target(p) = proc[p].target
           /\ proc[p].target \in Releases /\ proc[p].command \in {"upgrade", "backup"}
           /\ PlaceOK(proc[p]) /\ BackupOK(proc[p]) /\ proc[p].backup \in Backups
           /\ proc[p].seen.ownership \in Ownership
           /\ proc[p].command = "upgrade" => SchemaOK(proc[p]) /\ StoppedOK(proc[p])
                                              /\ TargetOK(proc[p]) /\ PublishedOK(proc[p])
<1>1. TypeOK /\ proc[p] \in Process /\ WorkOK(proc[p]) /\ proc[p].pc \notin Aside /\ holder = p
  BY DEF IInv, TypeOK, AllWork, LockOK, Aside, Free, RecordPcs
<1>2. PlaceOK(proc[p]) /\ BackupOK(proc[p])
  BY <1>1 DEF WorkOK
<1>3. proc[p].backup \in Backups
  BY <1>2 DEF PlaceOK, BackupOK, RecordPcs
<1> QED
  BY <1>1, <1>2, <1>3 DEF WorkOK, Process, Target

\* The commit point, and the record of the deployment.
LEMMA SelectedStep ==
    ASSUME IInv, NEW p \in Procs, proc[p].pc \in {"select", "write-deployment"}, WriteRecord(p),
           NEW y \in Process, proc' = [proc EXCEPT ![p] = y], Same(proc[p], y), faults' \in Nat,
           \/ y.pc = "unproven"
           \/ y.pc = "record" /\ proc[p].pc = "select"
           \/ y.pc = "write-ownership" /\ proc[p].pc = "write-deployment"
    PROVE  IInv'
<1>1. /\ TypeOK /\ holder = p /\ Target(p) = proc[p].target /\ proc[p].target \in Releases
      /\ PlaceOK(proc[p]) /\ BackupOK(proc[p]) /\ proc[p].command \in {"upgrade", "backup"}
  BY RecordCall DEF RecordPcs
<1>2. proc[p].command = "upgrade" /\ proc[p].stage \in {"commit", "publish"}
      /\ (proc[p].pc = "select" <=> proc[p].stage = "commit")
  BY <1>1 DEF PlaceOK
<1>3. SchemaOK(proc[p]) /\ StoppedOK(proc[p]) /\ TargetOK(proc[p]) /\ PublishedOK(proc[p])
  BY <1>2, RecordCall DEF RecordPcs
<1>4. schema = Schema[proc[p].target] /\ app = proc[p].target
      /\ (proc[p].pc = "write-deployment" => active = proc[p].target /\ public)
  BY <1>2, <1>3 DEF SchemaOK, TargetOK, PublishedOK, Publishing
<1>5. /\ active' = proc[p].target
      /\ deployment' = IF proc[p].pc = "select" THEN deployment ELSE proc[p].target
      /\ UNCHANGED <<schema, writes, app, public, launcher, unpacked, installed, ownership,
                     backup, holder, interrupted, report>>
  BY <1>1, <1>4 DEF WriteRecord, database, service, files, outcome
<1>6. ShellOK'
  BY <1>1, <1>5 DEF TypeOK, ShellOK
<1>7. FloorOK'
  <2>1. schema \in Nat
    BY <1>1 DEF TypeOK
  <2> QED
    BY <1>4, <1>5, <2>1 DEF IInv, FloorOK
<1>8. SchemaIsKnown'
  <2>1. schema \in Nat
    BY <1>1 DEF TypeOK
  <2> QED
    BY <1>4, <1>5, <2>1 DEF SchemaIsKnown
<1>9. FreshOK(y)' /\ PlaceOK(y)'
  BY <1>1, <1>2 DEF FreshOK, PlaceOK, Same
<1>10. BackupOK(y)'
  BY <1>1, <1>2, <1>5 DEF BackupOK, Same
<1>11. SchemaOK(y)'
  BY <1>2, <1>3, <1>5 DEF SchemaOK, Same
<1>12. StoppedOK(y)' /\ TargetOK(y)'
  BY <1>2, <1>4, <1>5 DEF StoppedOK, TargetOK, Same
<1>13. PublishedOK(y)'
  BY <1>2, <1>4, <1>5 DEF PublishedOK, Publishing, Same
<1>14. WorkOK(y)'
  BY <1>9, <1>10, <1>11, <1>12, <1>13 DEF WorkOK
<1> QED
  BY <1>1, <1>5, <1>6, <1>7, <1>8, <1>14, HeldStep

\* The two records that the application does not depend on.
LEMMA InstalledStep ==
    ASSUME IInv, NEW p \in Procs, proc[p].pc \in {"write-ownership", "write-installation"},
           WriteRecord(p),
           NEW y \in Process, proc' = [proc EXCEPT ![p] = y], Same(proc[p], y), faults' \in Nat,
           \/ y.pc = "unproven"
           \/ y.pc = "write-installation" /\ proc[p].pc = "write-ownership"
              /\ proc[p].command = "upgrade"
           \/ y.pc = "record" /\ (proc[p].pc = "write-installation" \/ proc[p].command = "backup")
    PROVE  IInv'
<1>1. /\ TypeOK /\ holder = p /\ Target(p) = proc[p].target /\ proc[p].target \in Releases
      /\ PlaceOK(proc[p]) /\ BackupOK(proc[p]) /\ proc[p].command \in {"upgrade", "backup"}
      /\ proc[p].backup \in Backups /\ proc[p].seen.ownership \in Ownership
      /\ proc[p].command = "upgrade" => SchemaOK(proc[p]) /\ StoppedOK(proc[p])
                                         /\ TargetOK(proc[p]) /\ PublishedOK(proc[p])
  BY RecordCall DEF RecordPcs
<1>2. /\ proc[p].command = "upgrade" => proc[p].stage = "publish"
      /\ proc[p].command = "backup" => proc[p].stage = "own" /\ proc[p].pc = "write-ownership"
  BY <1>1 DEF PlaceOK
<1>3. /\ UNCHANGED <<schema, writes, app, public, launcher, unpacked, active, deployment,
                     backup, holder, interrupted, report>>
      /\ proc[p].pc = "write-ownership" => UNCHANGED installed
      /\ proc[p].pc = "write-installation" => UNCHANGED ownership /\ installed' = proc[p].target
  BY <1>1 DEF WriteRecord, database, service, files, outcome
<1>4. ownership' \in Ownership
      /\ (proc[p].pc = "write-ownership" /\ proc[p].command = "upgrade" =>
             proc[p].target \in ownership'.releases /\ proc[p].backup \in ownership'.backups)
  <2>1. CASE proc[p].pc = "write-installation"
    BY <1>1, <1>3, <2>1 DEF TypeOK
  <2>2. CASE proc[p].pc = "write-ownership"
    <3>1. ownership' = IF proc[p].command = "backup" THEN NewBackups(p) ELSE NewOwnership(p)
      BY <2>2 DEF WriteRecord
    <3>2. NewBackups(p) \in Ownership
      BY <1>1 DEF NewBackups, Ownership
    <3>3. /\ NewOwnership(p) \in Ownership
          /\ proc[p].target \in NewOwnership(p).releases
          /\ proc[p].backup \in NewOwnership(p).backups
      BY <1>1 DEF NewOwnership, Ownership
    <3> QED
      BY <2>2, <3>1, <3>2, <3>3
  <2> QED
    BY <2>1, <2>2
<1>5. ShellOK'
  <2>1. installed' \in Releases
    BY <1>1, <1>3 DEF TypeOK
  <2> QED
    BY <1>1, <1>3, <1>4, <2>1 DEF TypeOK, ShellOK
<1>6. FloorOK' /\ SchemaIsKnown'
  BY <1>3 DEF IInv, FloorOK, SchemaIsKnown
<1>7. FreshOK(y)' /\ PlaceOK(y)'
  BY <1>1, <1>2 DEF FreshOK, PlaceOK, Same
<1>8. BackupOK(y)'
  BY <1>1, <1>2, <1>3 DEF BackupOK, Same
<1>9. y.command = "upgrade" => SchemaOK(y)'
  BY <1>1, <1>2, <1>3 DEF SchemaOK, Same
<1>10. y.command = "upgrade" => StoppedOK(y)' /\ TargetOK(y)'
  BY <1>1, <1>2, <1>3 DEF StoppedOK, TargetOK, Publishing, Same
<1>11. y.command = "upgrade" => PublishedOK(y)'
  BY <1>1, <1>2, <1>3, <1>4 DEF PublishedOK, Publishing, Same
<1>12. WorkOK(y)'
  BY <1>7, <1>8, <1>9, <1>10, <1>11 DEF WorkOK
<1> QED
  BY <1>1, <1>3, <1>5, <1>6, <1>12, HeldStep

LEMMA RecordWrittenStep ==
    ASSUME IInv, NEW p \in Procs, RecordWritten(p) PROVE IInv'
<1>1. proc[p].pc \in RecordPcs /\ WriteRecord(p)
  BY DEF RecordWritten, WriteRecord, RecordPcs
<1>2. TypeOK /\ faults' \in Nat /\ proc[p].command \in {"upgrade", "backup"}
      /\ PlaceOK(proc[p])
  BY <1>1, RecordCall DEF TypeOK, RecordWritten
<1>3. PICK pc \in {"write-ownership", "write-installation", "record"} :
         /\ Goto(p, pc)
         /\ \/ pc = "record" /\ proc[p].pc = "select"
            \/ pc = "write-ownership" /\ proc[p].pc = "write-deployment"
            \/ pc = "write-installation" /\ proc[p].pc = "write-ownership"
               /\ proc[p].command = "upgrade"
            \/ pc = "record" /\ proc[p].pc = "write-installation"
            \/ pc = "record" /\ proc[p].pc = "write-ownership" /\ proc[p].command = "backup"
  BY <1>1, <1>2 DEF RecordWritten, RecordPcs
<1>4. PICK y \in Process : y.pc = pc /\ Same(proc[p], y) /\ proc' = [proc EXCEPT ![p] = y]
  BY <1>2, <1>3, GotoSame DEF Pcs
<1>5. CASE proc[p].pc \in {"select", "write-deployment"}
  BY <1>1, <1>2, <1>3, <1>4, <1>5, SelectedStep
<1>6. CASE proc[p].pc \in {"write-ownership", "write-installation"}
  BY <1>1, <1>2, <1>3, <1>4, <1>6, InstalledStep
<1> QED
  BY <1>1, <1>5, <1>6 DEF RecordPcs

LEMMA RecordNotWrittenStep ==
    ASSUME IInv, NEW p \in Procs, RecordNotWritten(p) PROVE IInv'
<1>1. proc[p].pc \in RecordPcs /\ Goto(p, "unproven")
  BY DEF RecordNotWritten, RecordPcs
<1>2. TypeOK /\ faults' \in Nat
  BY <1>1, RecordCall DEF TypeOK, RecordNotWritten, Fault
<1>3. CASE WriteRecord(p)
  <2>1. PICK y \in Process :
           y.pc = "unproven" /\ Same(proc[p], y) /\ proc' = [proc EXCEPT ![p] = y]
    BY <1>1, <1>2, GotoSame DEF Pcs
  <2>2. CASE proc[p].pc \in {"select", "write-deployment"}
    BY <1>2, <1>3, <2>1, <2>2, SelectedStep
  <2>3. CASE proc[p].pc \in {"write-ownership", "write-installation"}
    BY <1>2, <1>3, <2>1, <2>3, InstalledStep
  <2> QED
    BY <1>1, <2>2, <2>3 DEF RecordPcs
<1>4. CASE UNCHANGED <<records, database, service, files, backup, outcome>>
  <2>1. UNCHANGED <<World, outcome, writes, files>>
    BY <1>4 DEF World, database
  <2>2. proc[p].pc \notin Aside \cup {"settle", "retain", "intend"}
    BY <1>1 DEF RecordPcs, Aside
  <2> QED
    BY <1>1, <1>2, <2>1, <2>2, FailingGoto
<1> QED
  BY <1>3, <1>4 DEF RecordNotWritten

-----------------------------------------------------------------------------
(***************************************************************************)
(* The invariant.                                                          *)
(***************************************************************************)
\* The flag is read, and the invariant does not speak of it.
LEMMA AbortStep ==
    ASSUME IInv, NEW p \in Procs, Abort(p) PROVE IInv'
<1> DEFINE y == [proc[p] EXCEPT !.aborted = TRUE]
<1>1. TypeOK /\ proc[p] \in Process /\ WorkOK(proc[p]) /\ holder = p
  BY DEF IInv, TypeOK, AllWork, Abort
<1>2. y \in Process
  BY <1>1, ZenonT(60) DEF Process
<1>3. y.pc = proc[p].pc /\ Same(proc[p], y) /\ proc' = [proc EXCEPT ![p] = y]
  BY <1>1 DEF Process, Same, Abort, TypeOK
<1>4. UNCHANGED <<World, outcome, writes, files>> /\ faults' \in Nat
  BY <1>1 DEF TypeOK, Abort, Fault, World, database
<1> HIDE DEF y
<1>5. FreshOK(y)
  BY <1>1, <1>3 DEF WorkOK, FreshOK, Same
<1>6. CASE proc[p].pc \in Aside
  <2>1. ShellOK' /\ SuccessIsComplete'
    BY <1>1, <1>4, Parts, NobodyAssumption DEF ShellOK, SuccessIsComplete, World, service,
       files, records, outcome
  <2>2. holder' = p /\ \A q \in Procs : q # p /\ proc[q].pc \notin Free => holder' = q
    BY <1>1, <1>4 DEF IInv, LockOK, outcome
  <2> QED
    BY <1>2, <1>3, <1>4, <1>5, <1>6, <2>1, <2>2, AsideStep
<1>7. CASE proc[p].pc \notin Aside
  <2>1. PlaceOK(y) /\ BackupOK(y)
    BY <1>1, <1>3, <1>7 DEF WorkOK, PlaceOK, BackupOK, Same
  <2>2. y.command = "upgrade" => SchemaOK(y) /\ StoppedOK(y)
    BY <1>1, <1>3, <1>7 DEF WorkOK, SchemaOK, StoppedOK, Same
  <2>3. y.command = "upgrade" => TargetOK(y) /\ PublishedOK(y)
    BY <1>1, <1>3, <1>7 DEF WorkOK, TargetOK, PublishedOK, Same
  <2>4. WorkOK(y)
    BY <1>5, <2>1, <2>2, <2>3 DEF WorkOK
  <2> QED
    BY <1>1, <1>2, <1>3, <1>4, <1>7, <2>4, GoStep DEF Aside, Free, TypeOK, files
<1> QED
  BY <1>6, <1>7

LEMMA NextInv == IInv /\ [Next]_vars => IInv'
<1> SUFFICES ASSUME IInv, [Next]_vars PROVE IInv'
  OBVIOUS
<1>1. ASSUME NEW p \in Procs, Command(p) PROVE IInv'
  BY <1>1, PreviewStep, AcquireStep, LockRefusedStep, BeginStep, CheckStep, EndSteps DEF Command
<1>2. ASSUME NEW p \in Procs, Effect(p) PROVE IInv'
  BY <1>2, IntendStep, RecordStep, RecordFailsStep, CallSteps, MakeDirectoryStep, CallFailsSteps,
     ArchiveSteps, RestoreSteps, StopSteps, MigrateSteps, StartPrivatelyStep, StartInPublicStep,
     RecordWrittenStep DEF Effect
<1>3. ASSUME NEW p \in Procs, Rollback(p) PROVE IInv'
  BY <1>3, HandleErrorStep, StopSteps, RetainingSteps, RestartPriorStep, RetainStep DEF Rollback
<1>4. ASSUME NEW p \in Procs, Breaks(p) PROVE IInv'
  BY <1>4, AppendFailsStep, RecordFailsStep, CallFailsSteps, RestoreSteps, StopSteps,
     MigrateSteps, StartFailsStep, RecordNotWrittenStep, RetainingSteps, RollbackFailsStep,
     EndSteps, AbortStep, CrashStep DEF Breaks
<1>5. CASE Write \/ RemoveLauncher
  BY <1>5, AloneSteps
<1>6. CASE UNCHANGED vars
  <2>1. UNCHANGED <<World, outcome, proc, writes, files, faults>>
    BY <1>6 DEF vars, World, database, service, files, records, outcome
  <2>2. TypeOK' /\ LockOK' /\ FloorOK' /\ SchemaIsKnown' /\ SuccessIsComplete'
    BY <2>1 DEF IInv, TypeOK, LockOK, FloorOK, SchemaIsKnown, SuccessIsComplete, World, files,
                service, records, outcome
  <2>3. AllWork'
    BY <2>1 DEF IInv, AllWork, WorkOK, FreshOK, PlaceOK, BackupOK, SchemaOK, StoppedOK, TargetOK,
                PublishedOK, Complete, World, service, records
  <2> QED
    BY <2>2, <2>3 DEF IInv
<1> QED
  BY <1>1, <1>2, <1>3, <1>4, <1>5, <1>6 DEF Next

LEMMA Invariance == Spec => []IInv
<1>1. Init => IInv
  BY InitInv
<1>2. IInv /\ [Next]_vars => IInv'
  BY NextInv
<1> QED
  BY <1>1, <1>2, PTL DEF Spec

\* Every file, record and process stays well formed: the type invariant, in every
\* behaviour of the upgrades and backups of any processes.
THEOREM TypeCorrect == Spec => []TypeOK
<1>1. IInv => TypeOK
  BY DEF IInv
<1> QED
  BY Invariance, <1>1, PTL

\* No application ever runs against a schema that is newer than it knows, and none serves
\* the clients whose release is neither selected nor deployed: for any number of releases,
\* of upgrades that follow each other, and of failures in between.
THEOREM SchemaIsAlwaysKnown == Spec => []SchemaIsKnown
<1>1. IInv => SchemaIsKnown
  BY DEF IInv
<1> QED
  BY Invariance, <1>1, PTL

\* An upgrade that reports success has left one release in every record and in the running
\* application, with the schema of it, and owns a validated backup.
THEOREM SuccessIsAlwaysComplete == Spec => []SuccessIsComplete
<1>1. IInv => SuccessIsComplete
  BY DEF IInv
<1> QED
  BY Invariance, <1>1, PTL

\* The migrations of compose up find nothing to do: only those of the effect migrate, of a
\* process that dies or goes on, change the schema.
LEMMA OnlyMigrationsMigrate ==
    ASSUME IInv, [Next]_vars, schema' # schema
    PROVE  \E p \in Procs : proc[p].pc = "migrate"
<1>1. ASSUME NEW p \in Procs, Command(p) PROVE UNCHANGED schema
  BY <1>1 DEF Command, Preview, AcquireOperation, LockRefused, BeginOperation, CheckState, Commit,
              Fail, database
<1>2. ASSUME NEW p \in Procs, Effect(p), proc[p].pc # "migrate" PROVE UNCHANGED schema
  <2>1. CASE StartPrivately(p)
    BY <2>1, UpgradeCall DEF StartPrivately, PlaceOK, SchemaOK
  <2>2. CASE StartInPublic(p)
    BY <2>2, UpgradeCall DEF StartInPublic, PlaceOK, SchemaOK
  <2>3. CASE ~StartPrivately(p) /\ ~StartInPublic(p)
    BY <1>2, <2>3 DEF Effect, IntendEffect, RecordEffect, RecordUnproven, Observe, MakeDirectory,
       NoDirectory, Dump, RestoreArchive, RemoveDirectory, WriteMetadata, StopApplication, Unpack,
       WriteLauncher, Migrate, CompareEvidence, RecordWritten, WriteRecord, database
  <2> QED
    BY <2>1, <2>2, <2>3
<1>3. ASSUME NEW p \in Procs, Rollback(p) PROVE UNCHANGED schema
  <2>1. CASE RestartPrior(p)
    BY <2>1, BeforeRestart DEF RestartPrior
  <2>2. CASE ~RestartPrior(p)
    BY <1>3, <2>2 DEF Rollback, HandleError, Halt, RestoreLauncher, Settle, RetainAssets, database
  <2> QED
    BY <2>1, <2>2
<1>4. ASSUME NEW p \in Procs, Breaks(p), proc[p].pc # "migrate" PROVE UNCHANGED schema
  BY <1>4 DEF Breaks, AppendFails, RecordFails, CallFails, DumpFails, DirectoryStays, StopFails,
     MigrateFails, StartFails, RecordNotWritten, WriteRecord, HaltFails, RollbackFails,
     RetainFails, BeginFails, Abort, Crash, database
<1>5. Write \/ RemoveLauncher \/ UNCHANGED vars => UNCHANGED schema
  BY DEF Write, RemoveLauncher, vars, database
<1> QED
  BY <1>1, <1>2, <1>3, <1>4, <1>5 DEF Next

\* A migration only ever begins, and goes on, with the application stopped, and a
\* validated backup of a schema that is no newer than the one it leaves exists.
THEOREM AlwaysMigratesDrainedAndBackedUp == Spec => MigratesDrainedAndBackedUp
<1> DEFINE Drained == app = 0 /\ \E b \in Backups :
                          backup[b].stage = "validated" /\ backup[b].schema <= schema
<1>1. IInv /\ [Next]_vars => [schema' # schema => Drained]_vars
  <2> SUFFICES ASSUME IInv, [Next]_vars, schema' # schema PROVE Drained
    OBVIOUS
  <2>1. PICK p \in Procs : proc[p].pc = "migrate"
    BY OnlyMigrationsMigrate
  <2>2. /\ PlaceOK(proc[p]) /\ BackupOK(proc[p]) /\ SchemaOK(proc[p]) /\ StoppedOK(proc[p])
        /\ proc[p].command = "upgrade"
    BY <2>1, UpgradeCall
  <2>3. app = 0
    BY <2>1, <2>2 DEF PlaceOK, SchemaOK, StoppedOK
  <2>4. proc[p].backup \in Backups /\ backup[proc[p].backup].stage = "validated"
    BY <2>1, <2>2 DEF PlaceOK, BackupOK
  <2> QED
    BY <2>3, <2>4 DEF IInv, FloorOK
<1> QED
  BY Invariance, <1>1, PTL DEF Spec, MigratesDrainedAndBackedUp

(***************************************************************************)
(* Nothing is left behind that is not on record: DisagreementIsRecorded.   *)
(***************************************************************************)

(***************************************************************************)
(* While no journal asks for recovery: what a command has changed so far.  *)
(***************************************************************************)
\* The places at which no error has occurred.
Going == {"intend", "record", "observe", "mkdir", "dump", "restore", "cleanup", "write-metadata",
          "stop", "quiet", "unpack", "link", "migrate", "start-private", "compare", "select",
          "start-public", "write-deployment", "write-ownership", "write-installation"}

First(x) == IF x.command = "upgrade" THEN "verify" ELSE "backup"

\* All of Consistent but the backups.
OneRelease ==
    /\ active = deployment /\ deployment = installed
    /\ launcher \in {0, installed} /\ installed \in unpacked
    /\ app = installed /\ public /\ schema = Schema[installed]

Finished(S) == \A b \in Backups : backup[b].stage = "validated" <=> b \in S

\* The backup of the command is not finished, and nobody's.
Unfinished(x) ==
    \/ x.stage = "verify"
    \/ x.stage = "backup" /\ (x.pc # "record" \/ x.command = "backup")
    \/ x.stage = "metadata" /\ x.pc # "record"

Owned(x) == x.seen.ownership.backups \cup {x.backup}

FinishedOK(x) ==
    /\ Unfinished(x) => Finished(x.seen.ownership.backups)
    /\ ~Unfinished(x) => Finished(Owned(x))
    /\ \/ x.pc \in {"dump", "restore", "cleanup", "write-metadata"}
       \/ x.stage = "backup" /\ x.pc = "record"
       \/ x.stage = "metadata"
       => x.backup \notin x.seen.ownership.backups
    /\ x.pc = "write-metadata" /\ x.command = "backup" => x.stage = "metadata"

\* Its backup is in the ownership record.
Written(x) ==
    \/ x.pc = "write-installation"
    \/ x.stage \in {"publish", "own"} /\ x.pc = "record"
    \/ x.stage = "done"

OwnedOK(x) ==
    /\ ~Written(x) => ownership = x.seen.ownership
    /\ Written(x) => ownership.backups = Owned(x)

\* The release is unpacked, and then linked.
LinkedOK(x) ==
    /\ \/ x.stage \in {"migrate", "readback", "readiness", "clients", "commit", "activate",
                       "publish"}
       \/ x.stage = "install" /\ x.pc = "record"
       \/ x.stage = "done" /\ x.command = "upgrade"
       => launcher = x.target /\ x.target \in unpacked
    /\ x.pc = "link" => x.target \in unpacked

TidyOK(x) ==
    /\ x.pc \in {"previewed", "begun", "check"} => ~x.incomplete
    /\ x.pc \notin Free /\ ~x.incomplete => Consistent
    /\ x.pc = "catch" /\ x.stage = "done" => Consistent
    /\ x.pc \notin Aside =>
          /\ ~x.incomplete => x.stage = First(x)
          /\ x.command = "backup" => OneRelease
    /\ x.pc \in Going => FinishedOK(x) /\ OwnedOK(x) /\ LinkedOK(x)

TidyInv ==
    /\ \A p \in Procs : holder = p => proc[p].pc \notin Free
    /\ ~interrupted => /\ holder = None => Consistent
                       /\ \A p \in Procs : TidyOK(proc[p])

\* What TidyOK speaks of.
Things == <<schema, app, public, launcher, unpacked, active, deployment, installed, ownership,
            backup>>

LEMMA ConsistentParts == Consistent <=> OneRelease /\ Finished(ownership.backups)
BY DEF Consistent, OneRelease, Finished

LEMMA TidyStands ==
    ASSUME NEW x, TidyOK(x), UNCHANGED Things
    PROVE  TidyOK(x)'
<1>1. Consistent' = Consistent /\ OneRelease' = OneRelease
  BY DEF Consistent, OneRelease, Things
<1>2. FinishedOK(x)' = FinishedOK(x) /\ OwnedOK(x)' = OwnedOK(x) /\ LinkedOK(x)' = LinkedOK(x)
  BY DEF FinishedOK, Finished, Unfinished, Owned, OwnedOK, Written, LinkedOK, Things
<1> QED
  BY <1>1, <1>2, Zenon DEF TidyOK

-----------------------------------------------------------------------------
(***************************************************************************)
(* The steps: of the holder, that keeps the lock or gives it up, and of a  *)
(* process without it.                                                     *)
(***************************************************************************)
\* All that is asked of a process without the lock.
LEMMA FreeTidy ==
    ASSUME NEW x, x.pc \in Free
    PROVE  (x.pc = "previewed" => ~x.incomplete) <=> TidyOK(x)
BY DEF TidyOK, Free, Aside, Going

LEMMA KeptTidy ==
    ASSUME IInv, TidyInv, NEW p \in Procs, holder = p, holder' = p, UNCHANGED interrupted,
           NEW y, proc' = [proc EXCEPT ![p] = y], y.pc \notin Free,
           ~interrupted => TidyOK(y)'
    PROVE  TidyInv'
<1>1. proc'[p] = y /\ \A q \in Procs : q # p => proc'[q] = proc[q]
  BY DEF IInv, TypeOK
<1>2. ASSUME ~interrupted, NEW q \in Procs PROVE TidyOK(proc[q])'
  <2>1. CASE q = p
    BY <1>1, <1>2, <2>1 DEF TidyOK, FinishedOK, Unfinished, Owned, OwnedOK, Written, LinkedOK,
       First
  <2>2. CASE q # p
    <3>1. proc'[q] = proc[q] /\ proc[q].pc \in Free /\ TidyOK(proc[q])
      BY <1>1, <1>2, <2>2 DEF IInv, LockOK, TidyInv
    <3> QED
      BY <3>1 DEF TidyOK, Free, Aside, Going
  <2> QED
    BY <2>1, <2>2
<1>3. \A q \in Procs : holder' = q => proc'[q].pc \notin Free
  BY <1>1
<1> QED
  BY <1>2, <1>3, NobodyAssumption DEF TidyInv

LEMMA EndTidy ==
    ASSUME IInv, TidyInv, NEW p \in Procs, holder = p, holder' = None,
           proc' = [proc EXCEPT ![p] = Idle],
           ~interrupted' => ~interrupted /\ Consistent'
    PROVE  TidyInv'
<1>1. proc'[p] = Idle /\ \A q \in Procs : q # p => proc'[q] = proc[q]
  BY DEF IInv, TypeOK
<1>2. ASSUME ~interrupted', NEW q \in Procs PROVE TidyOK(proc[q])'
  <2>1. CASE q = p
    BY <1>1, <2>1, IdleType DEF TidyOK, Free, Aside, Going
  <2>2. CASE q # p
    <3>1. proc'[q] = proc[q] /\ proc[q].pc \in Free /\ TidyOK(proc[q])
      BY <1>1, <1>2, <2>2 DEF IInv, LockOK, TidyInv
    <3> QED
      BY <3>1 DEF TidyOK, Free, Aside, Going
  <2> QED
    BY <2>1, <2>2
<1> QED
  BY <1>2, NobodyAssumption DEF TidyInv

\* What TidyInv knows of the process at work, and IInv with it.
LEMMA AtWork ==
    ASSUME IInv, TidyInv, ~interrupted, NEW p \in Procs, proc[p].pc \notin Free
    PROVE  /\ TypeOK /\ proc[p] \in Process /\ holder = p /\ TidyOK(proc[p])
           /\ proc[p].command \in {"upgrade", "backup"} /\ proc[p].stage \in Stages
           /\ proc[p].pc \notin Aside => PlaceOK(proc[p]) /\ BackupOK(proc[p])
           /\ proc[p].pc \notin Aside /\ proc[p].command = "upgrade" =>
                 SchemaOK(proc[p]) /\ StoppedOK(proc[p]) /\ TargetOK(proc[p])
                 /\ PublishedOK(proc[p])
BY DEF IInv, TypeOK, LockOK, AllWork, WorkOK, TidyInv, Process

\* A process goes on to another place.
LEMMA GotoTidy ==
    ASSUME TypeOK, NEW p \in Procs, NEW pc, Goto(p, pc)
    PROVE  \E y : /\ y.pc = pc /\ Same(proc[p], y) /\ y.incomplete = proc[p].incomplete
                  /\ proc' = [proc EXCEPT ![p] = y]
<1>1. proc[p] \in Process /\ proc' = [proc EXCEPT ![p] = [proc[p] EXCEPT !.pc = pc]]
  BY PcMoves DEF TypeOK
<1>2. LET y == [proc[p] EXCEPT !.pc = pc]
      IN  y.pc = pc /\ Same(proc[p], y) /\ y.incomplete = proc[p].incomplete
  BY <1>1 DEF Process, Same
<1> QED
  BY <1>1, <1>2

-----------------------------------------------------------------------------
(***************************************************************************)
(* The steps with which an effect, or the command, fails.                  *)
(***************************************************************************)
\* At the end of its effects a command has put everything together.
LEMMA DoneIsConsistent ==
    ASSUME IInv, TidyInv, ~interrupted, NEW p \in Procs,
           proc[p].pc = "intend", proc[p].stage = "done"
    PROVE  Consistent
<1>1. /\ TidyOK(proc[p]) /\ proc[p].command \in {"upgrade", "backup"}
      /\ proc[p].command = "upgrade" => PublishedOK(proc[p])
  BY AtWork DEF Aside, Free
<1>2. Finished(ownership.backups)
  BY <1>1 DEF TidyOK, Going, FinishedOK, Unfinished, OwnedOK, Written
<1>3. OneRelease
  <2>1. CASE proc[p].command = "backup"
    BY <1>1, <2>1 DEF TidyOK, Aside
  <2>2. CASE proc[p].command = "upgrade"
    BY <1>1, <2>2 DEF TidyOK, Going, LinkedOK, PublishedOK, Complete, OneRelease
  <2> QED
    BY <1>1, <2>1, <2>2
<1> QED
  BY <1>2, <1>3, ConsistentParts

Leaving == Pcs \ (Going \cup Free \cup {"begun", "check"})

\* Everything stays, and an effect fails.
LEMMA LeaveTidy ==
    ASSUME IInv, TidyInv, NEW p \in Procs, proc[p].pc \notin Aside,
           NEW y, proc' = [proc EXCEPT ![p] = y], Same(proc[p], y), y.pc \in Leaving,
           ~y.incomplete => ~proc[p].incomplete, UNCHANGED <<Things, outcome>>
    PROVE  TidyInv'
<1>1. holder = p /\ holder' = p /\ UNCHANGED interrupted /\ y.pc \notin Free
  BY DEF IInv, LockOK, Aside, Free, outcome, Leaving
<1>2. ASSUME ~interrupted PROVE TidyOK(y)'
  <2>1. TidyOK(proc[p]) /\ PlaceOK(proc[p])
    BY <1>2, AtWork DEF Aside, Free
  <2>2. y.stage = "done" => Consistent
    BY <1>2, <2>1, DoneIsConsistent DEF PlaceOK, Same
  <2>3. ~y.incomplete => Consistent
    BY <2>1 DEF TidyOK, Aside, Free
  <2>4. TidyOK(y)
    BY <2>1, <2>2, <2>3 DEF TidyOK, First, Same, Leaving, Aside, Free, Going
  <2> QED
    BY <2>4, TidyStands
<1> QED
  BY <1>1, <1>2, KeptTidy

\* A command that has an effect on record may leave almost anything.
LEMMA BrokenTidy ==
    ASSUME IInv, TidyInv, NEW p \in Procs, proc[p].pc \notin Aside,
           proc[p].stage \notin {First(proc[p]), "done"},
           NEW y, proc' = [proc EXCEPT ![p] = y], Same(proc[p], y), y.pc \in Leaving,
           ~y.incomplete => ~proc[p].incomplete, UNCHANGED outcome,
           ~interrupted /\ proc[p].command = "backup" => OneRelease'
    PROVE  TidyInv'
<1>1. holder = p /\ holder' = p /\ UNCHANGED interrupted /\ y.pc \notin Free
  BY DEF IInv, LockOK, Aside, Free, outcome, Leaving
<1>2. ASSUME ~interrupted PROVE TidyOK(y)'
  <2>1. TidyOK(proc[p])
    BY <1>2, AtWork DEF Aside, Free
  <2>2. y.incomplete
    BY <2>1 DEF TidyOK, First, Same
  <2> QED
    BY <1>2, <2>2 DEF TidyOK, Same, Leaving, Going, Free
<1> QED
  BY <1>1, <1>2, KeptTidy

LEMMA FailTidy ==
    ASSUME IInv, TidyInv, NEW p \in Procs,
           AppendFails(p) \/ CallFails(p) \/ NoDirectory(p) \/ DirectoryStays(p) \/ RetainFails(p)
             \/ HaltFails(p)
    PROVE  TidyInv'
<1>1. /\ UNCHANGED <<Things, outcome>> /\ proc[p].pc \notin Aside
      /\ \E pc \in {"unproven", "thrown", "catch", "retain"} : Goto(p, pc)
  BY DEF AppendFails, CallFails, NoDirectory, DirectoryStays, RetainFails, HaltFails, Things,
         database, service, files, records, Aside
<1>2. PICK pc \in {"unproven", "thrown", "catch", "retain"} : Goto(p, pc)
  BY <1>1
<1>3. PICK y : /\ y.pc = pc /\ Same(proc[p], y) /\ y.incomplete = proc[p].incomplete
               /\ proc' = [proc EXCEPT ![p] = y]
  BY <1>2, GotoTidy DEF IInv
<1>4. pc \in Leaving
  BY DEF Leaving, Pcs, Going, Free
<1> QED
  BY <1>1, <1>3, <1>4, LeaveTidy

LEMMA RecordFailsTidy ==
    ASSUME IInv, TidyInv, NEW p \in Procs,
           RecordFails(p) \/ RecordUnproven(p) \/ HandleError(p) \/ Settle(p)
    PROVE  TidyInv'
<1>1. /\ TypeOK /\ proc[p] \in Process /\ UNCHANGED <<Things, outcome>>
      /\ proc[p].pc \notin Aside
  BY DEF IInv, TypeOK, RecordFails, RecordUnproven, HandleError, Settle, Things, database,
         service, files, records, Aside
<1>2. PICK y : /\ y.pc \in Leaving /\ Same(proc[p], y) /\ proc' = [proc EXCEPT ![p] = y]
               /\ ~y.incomplete => ~proc[p].incomplete
  <2>1. CASE RecordFails(p)
    <3>1. PICK effect \in BOOLEAN :
             proc' = [proc EXCEPT ![p].pc = "unproven", ![p].incomplete = @ \/ effect]
      BY <2>1 DEF RecordFails
    <3> DEFINE y == [proc[p] EXCEPT !.pc = "unproven",
                                    !.incomplete = proc[p].incomplete \/ effect]
    <3>2. proc' = [proc EXCEPT ![p] = y]
      BY <1>1, <3>1 DEF TypeOK
    <3>3. y.pc \in Leaving /\ Same(proc[p], y)
      BY <1>1 DEF Process, Same, Leaving, Pcs, Going, Free
    <3>4. y.incomplete = (proc[p].incomplete \/ effect)
      BY <1>1 DEF Process
    <3> HIDE DEF y
    <3> QED
      BY <3>2, <3>3, <3>4, Zenon
  <2>2. CASE RecordUnproven(p)
    <3> DEFINE y == [proc[p] EXCEPT !.pc = "thrown", !.incomplete = TRUE]
    <3>1. proc' = [proc EXCEPT ![p] = y]
      BY <1>1, <2>2 DEF RecordUnproven, TypeOK
    <3>2. y.pc \in Leaving /\ Same(proc[p], y) /\ y.incomplete
      BY <1>1 DEF Process, Same, Leaving, Pcs, Going, Free
    <3> HIDE DEF y
    <3> QED
      BY <3>1, <3>2
  <2>3. CASE HandleError(p)
    <3> DEFINE verdict == IF Answer(p) # "halt" THEN "failed"
                          ELSE IF proc[p].committed THEN "activate" ELSE "restore"
               y == [proc[p] EXCEPT !.pc = Answer(p), !.verdict = verdict]
    <3>1. proc' = [proc EXCEPT ![p] = y]
      BY <1>1, <2>3 DEF HandleError, TypeOK
    <3>2. Answer(p) \in Leaving
      BY DEF Answer, Leaving, Pcs, Going, Free
    <3>3. y.pc = Answer(p) /\ Same(proc[p], y) /\ y.incomplete = proc[p].incomplete
      <4> HIDE DEF verdict
      <4> QED
        BY <1>1 DEF Process, Same
    <3> HIDE DEF y
    <3> QED
      BY <3>1, <3>2, <3>3
  <2>4. CASE Settle(p)
    <3> DEFINE y == [proc[p] EXCEPT !.pc = "retain", !.verdict = "rolled-back"]
    <3>1. proc' = [proc EXCEPT ![p] = y]
      BY <1>1, <2>4 DEF Settle, TypeOK
    <3>2. y.pc \in Leaving /\ Same(proc[p], y) /\ y.incomplete = proc[p].incomplete
      BY <1>1 DEF Process, Same, Leaving, Pcs, Going, Free
    <3> HIDE DEF y
    <3> QED
      BY <3>1, <3>2
  <2> QED
    BY <2>1, <2>2, <2>3, <2>4
<1> QED
  BY <1>1, <1>2, LeaveTidy

\* Calls that fail half-way, and those of the rollback.
LEMMA BreakTidy ==
    ASSUME IInv, TidyInv, NEW p \in Procs,
           \/ StopFails(p) \/ MigrateFails(p) \/ StartFails(p) \/ Halt(p) \/ RestoreLauncher(p)
           \/ RestartPrior(p) \/ RollbackFails(p) \/ RetainAssets(p)
    PROVE  TidyInv'
<1>1. /\ proc[p].pc \in {"stop", "migrate", "start-private", "start-public", "halt", "relink",
                         "restart", "settle", "retain"}
      /\ UNCHANGED outcome
      /\ \E pc \in {"unproven", "retain", "restart", "settle", "catch"} : Goto(p, pc)
  BY DEF StopFails, MigrateFails, StartFails, Halt, RestoreLauncher, RestartPrior, RollbackFails,
         RetainAssets
<1>2. PICK pc \in {"unproven", "retain", "restart", "settle", "catch"} : Goto(p, pc)
  BY <1>1
<1>3. PICK y : /\ y.pc = pc /\ Same(proc[p], y) /\ y.incomplete = proc[p].incomplete
               /\ proc' = [proc EXCEPT ![p] = y]
  BY <1>2, GotoTidy DEF IInv
<1>4. pc \in Leaving /\ proc[p].pc \notin Aside
  BY <1>1 DEF Leaving, Pcs, Going, Free, Aside
<1>5. proc[p].command = "upgrade" /\ proc[p].stage \notin {"verify", "done"}
  <2>1. PlaceOK(proc[p]) /\ proc[p].command \in {"upgrade", "backup"}
    BY <1>4 DEF IInv, AllWork, WorkOK, TypeOK, Process
  <2> QED
    BY <1>1, <2>1 DEF PlaceOK
<1> QED
  BY <1>1, <1>3, <1>4, <1>5, BrokenTidy DEF First

-----------------------------------------------------------------------------
(***************************************************************************)
(* The steps before the first effect and after the last, and those of the  *)
(* surroundings.                                                           *)
(***************************************************************************)
LEMMA InitTidy == Init => TidyInv
<1> SUFFICES ASSUME Init PROVE TidyInv
  OBVIOUS
<1>1. Consistent
  <2>1. OneRelease
    BY ReleasesAssumption DEF Init, OneRelease
  <2>2. Finished(ownership.backups)
    BY DEF Init, Finished
  <2> QED
    BY <2>1, <2>2, ConsistentParts
<1>2. \A p \in Procs : proc[p] = Idle /\ holder # p
  BY NobodyAssumption DEF Init
<1>3. \A p \in Procs : TidyOK(proc[p])
  BY <1>2, IdleType DEF TidyOK, Free, Aside, Going
<1> QED
  BY <1>1, <1>2, <1>3 DEF TidyInv

\* A step of a process without the lock.
LEMMA LooseTidy ==
    ASSUME IInv, TidyInv, NEW p \in Procs, proc[p].pc \in Free,
           NEW y, proc' = [proc EXCEPT ![p] = y], y.pc \in Free,
           y.pc = "previewed" => ~y.incomplete, UNCHANGED <<Things, outcome>>
    PROVE  TidyInv'
<1>1. proc'[p] = y /\ \A q \in Procs : q # p => proc'[q] = proc[q]
  BY DEF IInv, TypeOK
<1>2. Consistent' = Consistent /\ UNCHANGED <<holder, interrupted>>
  BY DEF Consistent, Things, outcome
<1>3. ASSUME ~interrupted, NEW q \in Procs PROVE TidyOK(proc[q])'
  <2>1. CASE q = p
    BY <1>1, <2>1 DEF TidyOK, Free, Aside, Going
  <2>2. CASE q # p
    <3>1. proc'[q] = proc[q] /\ TidyOK(proc[q])
      BY <1>1, <1>3, <2>2 DEF TidyInv
    <3> QED
      BY <3>1 DEF TidyOK, FinishedOK, Finished, Unfinished, Owned, OwnedOK, Written, LinkedOK,
                  First, Consistent, OneRelease, Things
  <2> QED
    BY <2>1, <2>2
<1>4. \A q \in Procs : holder' = q => proc'[q].pc \notin Free
  BY <1>1, <1>2 DEF TidyInv
<1> QED
  BY <1>2, <1>3, <1>4 DEF TidyInv

LEMMA PreviewTidy ==
    ASSUME IInv, TidyInv, NEW p \in Procs, Preview(p) \/ LockRefused(p) PROVE TidyInv'
<1>1. UNCHANGED <<Things, outcome>> /\ proc[p].pc \in Free
  BY DEF Preview, LockRefused, Things, database, service, files, records, Free
<1>2. CASE LockRefused(p)
  <2>1. Idle.pc = "idle" /\ proc' = [proc EXCEPT ![p] = Idle]
    BY <1>2, IdleType DEF LockRefused
  <2> QED
    BY <1>1, <2>1, LooseTidy DEF Free
<1>3. CASE Preview(p)
  <2>1. PICK command \in {"upgrade", "backup"}, r \in Releases :
           proc' = [proc EXCEPT ![p] =
              [Idle EXCEPT !.pc = "previewed", !.command = command, !.target = r,
                           !.stage = IF command = "upgrade" THEN "verify" ELSE "backup",
                           !.seen = [schema |-> schema, deployment |-> deployment,
                                     installed |-> installed, ownership |-> ownership]]]
    BY <1>3 DEF Preview
  <2> DEFINE y == [Idle EXCEPT !.pc = "previewed", !.command = command, !.target = r,
                             !.stage = IF command = "upgrade" THEN "verify" ELSE "backup",
                             !.seen = [schema |-> schema, deployment |-> deployment,
                                       installed |-> installed, ownership |-> ownership]]
  <2>2. y.pc = "previewed" /\ y.incomplete = FALSE
    BY DEF Idle
  <2>3. proc' = [proc EXCEPT ![p] = y]
    BY <2>1
  <2> HIDE DEF y
  <2> QED
    BY <1>1, <2>2, <2>3, LooseTidy DEF Free
<1> QED
  BY <1>2, <1>3

\* Whoever takes the lock finds everything together, or a journal that asks.
LEMMA AcquireTidy ==
    ASSUME IInv, TidyInv, NEW p \in Procs, AcquireOperation(p) PROVE TidyInv'
<1>1. /\ holder = None /\ holder' = p /\ UNCHANGED <<Things, interrupted>>
      /\ proc[p].pc = "previewed" /\ TypeOK
  BY DEF IInv, AcquireOperation, Things, database, service, files, records
<1>2. PICK y : /\ y.pc = "begun" /\ Same(proc[p], y) /\ y.incomplete = proc[p].incomplete
               /\ proc' = [proc EXCEPT ![p] = y]
  BY <1>1, GotoTidy DEF AcquireOperation
<1>3. proc'[p] = y /\ \A q \in Procs : q # p => proc'[q] = proc[q]
  BY <1>1, <1>2 DEF TypeOK
<1>4. \A q \in Procs : proc[q].pc \in Free
  BY <1>1, NobodyAssumption DEF IInv, LockOK
<1>5. ASSUME ~interrupted, NEW q \in Procs PROVE TidyOK(proc[q])'
  <2>1. TidyOK(proc[q]) /\ TidyOK(proc[p]) /\ Consistent'
    BY <1>1, <1>5 DEF TidyInv, Consistent, Things
  <2>2. CASE q = p
    BY <1>1, <1>2, <1>3, <2>1, <2>2 DEF TidyOK, Aside, Going
  <2>3. CASE q # p
    BY <1>3, <1>4, <2>1, <2>3 DEF TidyOK, Free, Aside, Going
  <2> QED
    BY <2>2, <2>3
<1>6. \A q \in Procs : holder' = q => proc'[q].pc \notin Free
  BY <1>1, <1>2, <1>3 DEF Free
<1> QED
  BY <1>1, <1>5, <1>6, NobodyAssumption DEF TidyInv

LEMMA BeginTidy ==
    ASSUME IInv, TidyInv, NEW p \in Procs, BeginOperation(p) PROVE TidyInv'
<1>1. /\ holder = p /\ UNCHANGED <<Things, outcome>> /\ proc[p].pc = "begun" /\ TypeOK
  BY DEF IInv, LockOK, BeginOperation, Things, database, service, files, records, Free
<1>2. PICK y : /\ y.pc = "check" /\ Same(proc[p], y) /\ y.incomplete = proc[p].incomplete
               /\ proc' = [proc EXCEPT ![p] = y]
  BY <1>1, GotoTidy DEF BeginOperation
<1>3. ASSUME ~interrupted PROVE TidyOK(y)'
  <2>1. TidyOK(proc[p])
    BY <1>1, <1>3 DEF TidyInv
  <2>2. TidyOK(y)
    BY <1>1, <1>2, <2>1 DEF TidyOK, Free, Aside, Going
  <2> QED
    BY <1>1, <2>2, TidyStands
<1> QED
  BY <1>1, <1>2, <1>3, KeptTidy DEF Free, outcome

\* The first effect starts from what the preview has seen.
LEMMA CheckTidy ==
    ASSUME IInv, TidyInv, NEW p \in Procs, CheckState(p) PROVE TidyInv'
<1>1. /\ holder = p /\ UNCHANGED <<Things, outcome>> /\ proc[p].pc = "check" /\ TypeOK
      /\ proc[p] \in Process
  BY DEF IInv, TypeOK, LockOK, CheckState, Things, database, service, files, records, Free
<1>2. PICK y : /\ Same(proc[p], y) /\ y.incomplete = proc[p].incomplete
               /\ proc' = [proc EXCEPT ![p] = y]
               /\ y.pc = "catch" \/ (y.pc = "intend" /\ Unchanged(p))
  <2>1. CASE Unchanged(p) /\ schema <= Schema[proc[p].seen.deployment] /\ ~proc[p].aborted
    <3> DEFINE y == [proc[p] EXCEPT !.pc = "intend", !.evidence = writes]
    <3>1. proc' = [proc EXCEPT ![p] = y]
      BY <1>1, <2>1 DEF CheckState, TypeOK
    <3>2. y.pc = "intend" /\ Same(proc[p], y) /\ y.incomplete = proc[p].incomplete
      BY <1>1 DEF Process, Same
    <3> HIDE DEF y
    <3> QED
      BY <2>1, <3>1, <3>2
  <2>2. CASE ~(Unchanged(p) /\ schema <= Schema[proc[p].seen.deployment] /\ ~proc[p].aborted)
    BY <1>1, <2>2, GotoTidy DEF CheckState
  <2> QED
    BY <2>1, <2>2
<1>3. ASSUME ~interrupted PROVE TidyOK(y)'
  <2>1. TidyOK(proc[p]) /\ FreshOK(proc[p]) /\ proc[p].command \in {"upgrade", "backup"}
    BY <1>1, <1>3 DEF IInv, TidyInv, AllWork, WorkOK, Process
  <2>2. /\ ~proc[p].incomplete /\ Consistent /\ y.stage = First(y) /\ y.command = proc[p].command
        /\ y.command \in {"upgrade", "backup"}
    BY <1>1, <1>2, <2>1 DEF TidyOK, FreshOK, First, Same, Free
  <2>3. OneRelease /\ Finished(ownership.backups)
    BY <2>2, ConsistentParts
  <2>4. CASE y.pc = "catch"
    <3>1. TidyOK(y)
      BY <2>2, <2>4 DEF TidyOK, Free, Aside, Going
    <3> QED
      BY <1>1, <3>1, TidyStands
  <2>5. CASE y.pc = "intend" /\ Unchanged(p)
    <3>1. ownership = y.seen.ownership
      BY <1>2, <2>5 DEF Unchanged, Same
    <3>2. FinishedOK(y)
      BY <2>2, <2>3, <2>5, <3>1 DEF FinishedOK, Unfinished, First
    <3>3. OwnedOK(y) /\ LinkedOK(y)
      BY <2>2, <2>5, <3>1 DEF OwnedOK, Written, LinkedOK, First
    <3>4. TidyOK(y)
      BY <1>2, <2>2, <2>3, <2>5, <3>2, <3>3 DEF TidyOK, Aside, Going
    <3> QED
      BY <1>1, <3>4, TidyStands
  <2> QED
    BY <1>2, <2>4, <2>5
<1>4. y.pc \notin Free
  BY <1>2 DEF Free
<1> QED
  BY <1>1, <1>2, <1>3, <1>4, KeptTidy DEF outcome

\* The holder ends, and the journal asks unless everything is together.
LEMMA EndsTidy ==
    ASSUME IInv, TidyInv, NEW p \in Procs, Commit(p) \/ Fail(p) \/ BeginFails(p) \/ Crash(p)
    PROVE  TidyInv'
<1>1. /\ holder = p /\ holder' = None /\ proc' = [proc EXCEPT ![p] = Idle]
      /\ proc[p] \in Process
  BY DEF IInv, LockOK, TypeOK, TidyInv, Free, Commit, Fail, BeginFails, Crash, End
<1>2. ~interrupted' => ~interrupted
  BY DEF Commit, Fail, BeginFails, Crash, End
<1>3. ASSUME ~interrupted' PROVE Consistent'
  <2>1. TidyOK(proc[p])
    BY <1>2, <1>3 DEF TidyInv
  <2>2. Commit(p) => Consistent
    BY <1>2, <1>3, DoneIsConsistent DEF Commit
  <2>3. Fail(p) => Consistent
    <3>1. Fail(p) => ~proc[p].incomplete \/ proc[p].stage = "done"
      BY <1>3 DEF Fail, End, Asks
    <3> QED
      BY <2>1, <3>1 DEF TidyOK, Fail, Free
  <2>4. BeginFails(p) => Consistent
    BY <2>1 DEF TidyOK, BeginFails, Free
  <2>5. Crash(p) => Consistent /\ proc[p].pc = "begun"
    <3>1. Crash(p) => proc[p].pc = "begun"
      BY <1>3 DEF Crash, End
    <3> QED
      BY <2>1, <3>1 DEF TidyOK, Free
  <2>6. Consistent /\ UNCHANGED Things
    <3>1. Crash(p) => UNCHANGED Things
      BY <2>5 DEF Crash, Things, service, files, records
    <3> QED
      BY <2>2, <2>3, <2>4, <2>5, <3>1 DEF Commit, Fail, BeginFails, Things, database, service,
         files, records
  <2> QED
    BY <2>6 DEF Consistent, Things
<1> QED
  BY <1>1, <1>2, <1>3, EndTidy

LEMMA AbortTidy ==
    ASSUME IInv, TidyInv, NEW p \in Procs, Abort(p) PROVE TidyInv'
<1>1. /\ TypeOK /\ proc[p] \in Process /\ holder = p /\ UNCHANGED <<Things, outcome>>
      /\ proc[p].pc \notin Free
  BY DEF IInv, TypeOK, TidyInv, Abort, Things, database, service, files, records
<1>2. PICK y : /\ y.pc = proc[p].pc /\ Same(proc[p], y) /\ y.incomplete = proc[p].incomplete
               /\ proc' = [proc EXCEPT ![p] = y]
  <2> DEFINE y == [proc[p] EXCEPT !.aborted = TRUE]
  <2>1. y.pc = proc[p].pc /\ Same(proc[p], y) /\ y.incomplete = proc[p].incomplete
        /\ proc' = [proc EXCEPT ![p] = y]
    BY <1>1 DEF Process, Same, Abort, TypeOK
  <2> HIDE DEF y
  <2> QED
    BY <2>1
<1>3. ASSUME ~interrupted PROVE TidyOK(y)'
  <2>1. TidyOK(proc[p])
    BY <1>3 DEF TidyInv
  <2>2. FinishedOK(y) = FinishedOK(proc[p]) /\ OwnedOK(y) = OwnedOK(proc[p])
        /\ LinkedOK(y) = LinkedOK(proc[p]) /\ First(y) = First(proc[p])
    BY <1>2 DEF FinishedOK, Finished, Unfinished, Owned, OwnedOK, Written, LinkedOK, First, Same
  <2>3. TidyOK(y)
    BY <1>2, <2>1, <2>2, Zenon DEF TidyOK, Same
  <2> QED
    BY <1>1, <2>3, TidyStands
<1> QED
  BY <1>1, <1>2, <1>3, KeptTidy DEF outcome

LEMMA AloneTidy ==
    ASSUME IInv, TidyInv, Write \/ RemoveLauncher PROVE TidyInv'
<1>1. UNCHANGED <<holder, interrupted, proc>>
  BY DEF Write, RemoveLauncher, outcome
<1>2. CASE Write
  <2>1. UNCHANGED Things
    BY <1>2 DEF Write, Things, service, files, records
  <2>2. Consistent' = Consistent
    BY <2>1 DEF Consistent, Things
  <2>3. ASSUME NEW q \in Procs, TidyOK(proc[q]) PROVE TidyOK(proc[q])'
    BY <1>1, <2>1, <2>3 DEF TidyOK, FinishedOK, Finished, Unfinished, Owned, OwnedOK, Written,
       LinkedOK, First, Consistent, OneRelease, Things
  <2> QED
    BY <1>1, <2>2, <2>3 DEF TidyInv
<1>3. CASE RemoveLauncher
  <2>1. holder = None /\ launcher' = 0
        /\ UNCHANGED <<schema, app, public, unpacked, active, deployment, installed, ownership,
                       backup>>
    BY <1>3 DEF RemoveLauncher, database, service, records
  <2>2. Consistent => Consistent'
    BY <2>1 DEF Consistent
  <2>3. \A q \in Procs : proc[q].pc \in Free
    BY <2>1, NobodyAssumption DEF IInv, LockOK
  <2>4. ASSUME NEW q \in Procs, TidyOK(proc[q]) PROVE TidyOK(proc[q])'
    BY <1>1, <2>3, <2>4 DEF TidyOK, Free, Aside, Going
  <2> QED
    BY <1>1, <2>2, <2>4 DEF TidyInv
<1> QED
  BY <1>2, <1>3

-----------------------------------------------------------------------------
(***************************************************************************)
(* The steps with which the holder goes on.                                *)
(***************************************************************************)
LEMMA OnTidy ==
    ASSUME IInv, TidyInv, NEW p \in Procs, proc[p].pc \notin Aside, proc[p].stage # "done",
           NEW y, proc' = [proc EXCEPT ![p] = y], y.command = proc[p].command,
           y.stage = proc[p].stage, y.pc \in Going,
           ~y.incomplete => ~proc[p].incomplete, UNCHANGED outcome,
           ~interrupted => FinishedOK(y)' /\ OwnedOK(y)' /\ LinkedOK(y)',
           ~interrupted /\ ~proc[p].incomplete => Consistent',
           ~interrupted /\ proc[p].command = "backup" => OneRelease'
    PROVE  TidyInv'
<1>1. holder = p /\ holder' = p /\ UNCHANGED interrupted /\ y.pc \notin Free \cup Aside
      /\ y.pc # "catch"
  BY DEF IInv, LockOK, Aside, Free, outcome, Going
<1>2. ASSUME ~interrupted PROVE TidyOK(y)'
  <2>1. TidyOK(proc[p])
    BY <1>2, AtWork DEF Aside, Free
  <2>2. y.pc \notin {"previewed", "begun", "check"} /\ y.command = proc[p].command
        /\ y.stage = proc[p].stage /\ First(y) = First(proc[p])
    BY <1>1 DEF Aside, First
  <2> QED
    BY <1>1, <1>2, <2>1, <2>2 DEF TidyOK, First
<1> QED
  BY <1>1, <1>2, KeptTidy

\* The same, when the step changes nothing.
LEMMA OnQuietTidy ==
    ASSUME IInv, TidyInv, NEW p \in Procs, proc[p].pc \notin Aside, proc[p].stage # "done",
           NEW y, proc' = [proc EXCEPT ![p] = y], Same(proc[p], y), y.pc \in Going,
           ~y.incomplete => ~proc[p].incomplete, UNCHANGED <<Things, outcome>>,
           ~interrupted => FinishedOK(y) /\ OwnedOK(y) /\ LinkedOK(y)
    PROVE  TidyInv'
<1>1. Consistent' = Consistent /\ OneRelease' = OneRelease
  BY DEF Consistent, OneRelease, Things
<1>2. FinishedOK(y)' = FinishedOK(y) /\ OwnedOK(y)' = OwnedOK(y) /\ LinkedOK(y)' = LinkedOK(y)
  BY DEF FinishedOK, Finished, Unfinished, Owned, OwnedOK, Written, LinkedOK, Things
<1>3. ASSUME ~interrupted PROVE TidyOK(proc[p])
  BY <1>3, AtWork DEF Aside, Free
<1>4. ~interrupted /\ ~proc[p].incomplete => Consistent
  BY <1>3 DEF TidyOK, Aside, Free
<1>5. ~interrupted /\ proc[p].command = "backup" => OneRelease
  BY <1>3 DEF TidyOK
<1>6. ~interrupted => FinishedOK(y)' /\ OwnedOK(y)' /\ LinkedOK(y)'
  BY <1>2
<1>7. ~interrupted /\ ~proc[p].incomplete => Consistent'
  BY <1>1, <1>4
<1>8. ~interrupted /\ proc[p].command = "backup" => OneRelease'
  BY <1>1, <1>5
<1> QED
  BY <1>6, <1>7, <1>8, OnTidy DEF Same

\* From one place of an effect to another.
LEMMA CallTidy ==
    ASSUME IInv, TidyInv, NEW p \in Procs,
           Observe(p) \/ CompareEvidence(p) \/ RestoreArchive(p) \/ DumpFails(p)
    PROVE  TidyInv'
<1>1. /\ TypeOK /\ proc[p] \in Process /\ UNCHANGED <<Things, outcome>>
      /\ proc[p].pc \in {"observe", "quiet", "compare", "dump", "restore"}
      /\ proc[p].pc \notin Aside /\ PlaceOK(proc[p]) /\ proc[p].command \in {"upgrade", "backup"}
  BY DEF IInv, TypeOK, AllWork, WorkOK, Process, Observe, CompareEvidence, RestoreArchive,
         DumpFails, Things, database, service, files, records, Aside
<1>2. PICK pc \in {"record", "unproven", "cleanup", "write-metadata"} :
         /\ Goto(p, pc)
         /\ pc = "record" => proc[p].pc \in {"observe", "quiet", "compare"}
                             \/ (proc[p].pc = "restore" /\ proc[p].command = "backup")
         /\ pc \in {"cleanup", "write-metadata"} => proc[p].pc \in {"dump", "restore"}
         /\ pc = "write-metadata" => proc[p].command = "upgrade"
  BY <1>1 DEF Observe, CompareEvidence, RestoreArchive, DumpFails
<1>3. PICK y : /\ y.pc = pc /\ Same(proc[p], y) /\ y.incomplete = proc[p].incomplete
               /\ proc' = [proc EXCEPT ![p] = y]
  BY <1>1, <1>2, GotoTidy
<1>4. CASE pc = "unproven"
  BY <1>1, <1>3, <1>4, LeaveTidy DEF Leaving, Pcs, Going, Free
<1>5. CASE pc # "unproven"
  <2>1. y.pc \in Going /\ proc[p].stage # "done"
    BY <1>1, <1>2, <1>3, <1>5 DEF Going, PlaceOK
  <2>2. ASSUME ~interrupted PROVE FinishedOK(y) /\ OwnedOK(y) /\ LinkedOK(y)
    <3>1. FinishedOK(proc[p]) /\ OwnedOK(proc[p]) /\ LinkedOK(proc[p])
      BY <1>1, <2>2, AtWork DEF TidyOK, Going, Aside, Free
    <3>2. FinishedOK(y)
      BY <1>1, <1>2, <1>3, <1>5, <3>1 DEF FinishedOK, Unfinished, Owned, PlaceOK, Same
    <3>3. OwnedOK(y) /\ LinkedOK(y)
      BY <1>1, <1>2, <1>3, <1>5, <3>1 DEF OwnedOK, Written, Owned, LinkedOK, PlaceOK, Same
    <3> QED
      BY <3>2, <3>3
  <2> QED
    BY <1>1, <1>3, <2>1, <2>2, OnQuietTidy
<1> QED
  BY <1>4, <1>5

LEMMA IntendTidy ==
    ASSUME IInv, TidyInv, NEW p \in Procs, IntendEffect(p) PROVE TidyInv'
<1>1. /\ TypeOK /\ proc[p] \in Process /\ UNCHANGED <<Things, outcome>>
      /\ proc[p].pc = "intend" /\ proc[p].stage \in Stages \ {"done"}
      /\ proc[p].pc \notin Aside /\ PlaceOK(proc[p]) /\ proc[p].command \in {"upgrade", "backup"}
  BY DEF IInv, TypeOK, AllWork, WorkOK, Process, IntendEffect, Things, database, service, files,
         records, Aside
<1>2. PICK migrating :
         proc' = [proc EXCEPT ![p] = [proc[p] EXCEPT
             !.pc = IF proc[p].aborted THEN "thrown" ELSE FirstCall(proc[p].stage),
             !.migrating = migrating]]
  BY <1>1 DEF IntendEffect, TypeOK
<1>3. PICK y :
         /\ y.pc = IF proc[p].aborted THEN "thrown" ELSE FirstCall(proc[p].stage)
         /\ y.command = proc[p].command /\ y.stage = proc[p].stage /\ y.target = proc[p].target
         /\ y.seen = proc[p].seen /\ y.backup = proc[p].backup
         /\ y.incomplete = proc[p].incomplete
         /\ proc' = [proc EXCEPT ![p] = y]
  <2> DEFINE y == [proc[p] EXCEPT
                     !.pc = IF proc[p].aborted THEN "thrown" ELSE FirstCall(proc[p].stage),
                     !.migrating = migrating]
  <2>1. /\ y.pc = IF proc[p].aborted THEN "thrown" ELSE FirstCall(proc[p].stage)
        /\ y.command = proc[p].command /\ y.stage = proc[p].stage /\ y.target = proc[p].target
        /\ y.seen = proc[p].seen /\ y.backup = proc[p].backup
        /\ y.incomplete = proc[p].incomplete
    BY <1>1 DEF Process
  <2>2. proc' = [proc EXCEPT ![p] = y]
    BY <1>2
  <2> HIDE DEF y
  <2> QED
    BY <2>1, <2>2
<1>4. /\ holder = p /\ holder' = p /\ UNCHANGED interrupted
      /\ y.pc \notin Free \cup Aside
  <2>1. y.pc \notin Free \cup Aside
    BY <1>1, <1>3, FirstCallOf DEF Free, Aside
  <2> QED
    BY <1>1, <2>1 DEF IInv, LockOK, Aside, Free, outcome
<1>5. ASSUME ~interrupted PROVE TidyOK(y)'
  <2>1. TidyOK(proc[p]) /\ FinishedOK(proc[p]) /\ OwnedOK(proc[p]) /\ LinkedOK(proc[p])
    BY <1>1, <1>5, AtWork DEF TidyOK, Going, Aside, Free
  <2>2. y.pc \in Going => FinishedOK(y)
    BY <1>1, <1>3, <2>1, FirstCallOf DEF FinishedOK, Unfinished, Owned, Going
  <2>3. y.pc \in Going => OwnedOK(y) /\ LinkedOK(y)
    BY <1>1, <1>3, <2>1, FirstCallOf DEF OwnedOK, Written, Owned, LinkedOK, Going
  <2>4. TidyOK(y)
    <3>1. y.pc \notin {"previewed", "begun", "check", "catch"}
      BY <1>4 DEF Aside
    <3>2. ~y.incomplete => Consistent /\ y.stage = First(y)
      BY <1>1, <1>3, <2>1 DEF TidyOK, First, Aside, Free
    <3>3. y.command = "backup" => OneRelease
      BY <1>1, <1>3, <2>1 DEF TidyOK
    <3> QED
      BY <2>2, <2>3, <3>1, <3>2, <3>3 DEF TidyOK
  <2> QED
    BY <1>1, <2>4, TidyStands
<1> QED
  BY <1>3, <1>4, <1>5, KeptTidy

\* The last word on an effect.
LEMMA RecordTidy ==
    ASSUME IInv, TidyInv, NEW p \in Procs, RecordEffect(p) PROVE TidyInv'
<1>1. /\ TypeOK /\ proc[p] \in Process /\ UNCHANGED <<Things, outcome>>
      /\ proc[p].pc = "record" /\ proc[p].stage \in Stages
      /\ proc[p].pc \notin Aside /\ PlaceOK(proc[p]) /\ proc[p].command \in {"upgrade", "backup"}
  BY DEF IInv, TypeOK, AllWork, WorkOK, Process, RecordEffect, Things, database, service, files,
         records, Aside
<1>2. PICK y :
         /\ y.pc = (IF MayGoOn(p) THEN "intend" ELSE "thrown")
         /\ y.stage = (IF MayGoOn(p) THEN After(p) ELSE proc[p].stage)
         /\ y.command = proc[p].command /\ y.target = proc[p].target /\ y.seen = proc[p].seen
         /\ y.backup = proc[p].backup /\ y.incomplete
         /\ proc' = [proc EXCEPT ![p] = y]
  <2> DEFINE drained == proc[p].drained \/ proc[p].stage = "drain"
             released == proc[p].unpacked \/ proc[p].stage = "install"
             committed == proc[p].committed \/ proc[p].stage = "commit"
             y == [proc[p] EXCEPT
                     !.pc = IF MayGoOn(p) THEN "intend" ELSE "thrown",
                     !.stage = IF MayGoOn(p) THEN After(p) ELSE proc[p].stage,
                     !.incomplete = TRUE,
                     !.drained = drained, !.unpacked = released, !.committed = committed]
  <2>1. proc' = [proc EXCEPT ![p] = y]
    BY <1>1 DEF RecordEffect, TypeOK
  <2>2. /\ y.pc = (IF MayGoOn(p) THEN "intend" ELSE "thrown")
        /\ y.stage = (IF MayGoOn(p) THEN After(p) ELSE proc[p].stage)
        /\ y.command = proc[p].command /\ y.target = proc[p].target /\ y.seen = proc[p].seen
        /\ y.backup = proc[p].backup /\ y.incomplete
    <3> HIDE DEF drained, released, committed
    <3> QED
      BY <1>1 DEF Process
  <2> HIDE DEF y
  <2> QED
    BY <2>1, <2>2
<1>3. holder = p /\ holder' = p /\ UNCHANGED interrupted /\ y.pc \in {"intend", "thrown"}
  BY <1>1, <1>2 DEF IInv, LockOK, Aside, Free, outcome
<1>4. ASSUME ~interrupted PROVE TidyOK(y)'
  <2>1. TidyOK(proc[p]) /\ FinishedOK(proc[p]) /\ OwnedOK(proc[p]) /\ LinkedOK(proc[p])
    BY <1>1, <1>4, AtWork DEF TidyOK, Going, Aside, Free
  <2>2. ASSUME MayGoOn(p) PROVE FinishedOK(y) /\ OwnedOK(y) /\ LinkedOK(y)
    <3>1. y.pc = "intend" /\ y.stage = After(p)
      BY <1>2, <2>2
    <3>2. /\ proc[p].command = "upgrade" => proc[p].stage \notin {"metadata", "own", "done"}
          /\ proc[p].command = "backup" => proc[p].stage \in {"backup", "metadata", "own"}
      BY <1>1 DEF PlaceOK
    <3>3. CASE proc[p].command = "backup"
      <4>1. \/ proc[p].stage = "backup" /\ y.stage = "metadata"
            \/ proc[p].stage = "metadata" /\ y.stage = "own"
            \/ proc[p].stage = "own" /\ y.stage = "done"
        BY <1>1, <3>1, <3>2, <3>3, FollowingOf
      <4>2. FinishedOK(y)
        BY <1>1, <1>2, <2>1, <3>1, <3>3, <4>1 DEF FinishedOK, Unfinished, Owned
      <4>3. OwnedOK(y) /\ LinkedOK(y)
        BY <1>1, <1>2, <2>1, <3>1, <3>3, <4>1 DEF OwnedOK, Written, Owned, LinkedOK
      <4> QED
        BY <4>2, <4>3
    <3>4. CASE proc[p].command = "upgrade"
      <4>1. /\ y.stage \in Stages \ {"verify", "metadata", "own"}
            /\ y.stage = "backup" <=> proc[p].stage = "verify"
            /\ y.stage = "done" <=> proc[p].stage = "publish"
            /\ y.stage \in {"drain", "install"} => proc[p].stage \in {"backup", "drain"}
            /\ proc[p].stage \in {"backup", "drain"} => y.stage \in {"drain", "install"}
        <5> HIDE DEF After, Forward
        <5> QED
          BY <1>1, <3>1, <3>2, <3>4, FollowingOf
      <4>2. FinishedOK(y)
        BY <1>1, <1>2, <2>1, <3>1, <3>2, <3>4, <4>1 DEF FinishedOK, Unfinished, Owned
      <4>3. OwnedOK(y)
        BY <1>1, <1>2, <2>1, <3>1, <3>2, <3>4, <4>1 DEF OwnedOK, Written, Owned
      <4>4. LinkedOK(y)
        BY <1>1, <1>2, <2>1, <3>1, <3>2, <3>4, <4>1 DEF LinkedOK, Stages
      <4> QED
        BY <4>2, <4>3, <4>4
    <3> QED
      BY <1>1, <3>3, <3>4
  <2>3. y.pc \in Going => MayGoOn(p)
    BY <1>2 DEF Going
  <2>4. TidyOK(y)
    <3>1. y.pc \notin {"previewed", "begun", "check", "catch"}
      BY <1>3
    <3>2. y.command = "backup" => OneRelease
      BY <1>1, <1>2, <2>1 DEF TidyOK
    <3> QED
      BY <1>2, <2>2, <2>3, <3>1, <3>2 DEF TidyOK
  <2> QED
    BY <1>1, <2>4, TidyStands
<1> QED
  BY <1>2, <1>3, <1>4, KeptTidy DEF Free

\* A step that writes the directory of a backup that is not finished.
LEMMA DirectoryTidy ==
    ASSUME IInv, TidyInv, NEW p \in Procs, proc[p].pc \in {"mkdir", "dump", "cleanup"},
           NEW y, proc' = [proc EXCEPT ![p] = y], y.pc \in {"dump", "restore", "unproven"},
           y.command = proc[p].command, y.stage = proc[p].stage, y.seen = proc[p].seen,
           ~y.incomplete => ~proc[p].incomplete,
           UNCHANGED <<database, service, files, records, outcome>>,
           \A b \in Backups : backup'[b].stage = "validated" <=> backup[b].stage = "validated",
           ~interrupted /\ y.pc # "unproven" => y.backup \notin y.seen.ownership.backups
    PROVE  TidyInv'
<1>1. /\ holder = p /\ holder' = p /\ UNCHANGED interrupted /\ proc[p].pc \notin Aside
      /\ proc[p].stage = "backup" /\ y.pc \notin Free
      /\ proc[p].command \in {"upgrade", "backup"}
  BY DEF IInv, LockOK, TypeOK, Process, AllWork, WorkOK, PlaceOK, Aside, Free, outcome
<1>2. ASSUME ~interrupted PROVE TidyOK(y)'
  <2>1. TidyOK(proc[p]) /\ proc[p].pc \in Going
    BY <1>1, <1>2, AtWork DEF Aside, Free, Going
  <2>2. ownership = y.seen.ownership /\ Finished(y.seen.ownership.backups)
    BY <1>1, <2>1 DEF TidyOK, FinishedOK, Unfinished, OwnedOK, Written
  <2>3. ownership' = y.seen.ownership /\ Finished(y.seen.ownership.backups)'
    BY <2>2 DEF Finished, records
  <2>4. OneRelease' = OneRelease
    BY DEF OneRelease, database, service, files, records
  <2>5. ~y.incomplete => Consistent' /\ y.stage = First(y)
    <3>1. ~y.incomplete => Consistent /\ y.stage = First(y)
      BY <1>1, <2>1 DEF TidyOK, First, Aside, Free
    <3>2. Consistent => OneRelease
      BY ConsistentParts
    <3>3. OneRelease' /\ Finished(ownership.backups)' => Consistent'
      BY DEF Consistent, OneRelease, Finished
    <3>4. Finished(ownership.backups)'
      BY <2>3 DEF Finished
    <3> QED
      BY <2>4, <3>1, <3>2, <3>3, <3>4
  <2>6. y.command = "backup" => OneRelease'
    BY <1>1, <2>1, <2>4 DEF TidyOK
  <2>7. y.pc \in Going => FinishedOK(y)' /\ OwnedOK(y)' /\ LinkedOK(y)'
    BY <1>1, <1>2, <2>3 DEF FinishedOK, Unfinished, OwnedOK, Written, LinkedOK, Going
  <2> QED
    BY <2>5, <2>6, <2>7 DEF TidyOK, First
<1> QED
  BY <1>1, <1>2, KeptTidy

LEMMA MakeDirectoryTidy ==
    ASSUME IInv, TidyInv, NEW p \in Procs, MakeDirectory(p) PROVE TidyInv'
<1>1. /\ TypeOK /\ proc[p] \in Process /\ proc[p].pc = "mkdir" /\ proc[p].stage = "backup"
      /\ backup \in [Backups -> Backup]
  BY DEF IInv, TypeOK, AllWork, WorkOK, PlaceOK, MakeDirectory, Aside
<1>2. PICK b \in Backups :
         /\ backup[b].stage = "absent"
         /\ backup' = [backup EXCEPT ![b].stage = "empty"]
         /\ proc' = [proc EXCEPT ![p].pc = "dump", ![p].backup = b]
  BY DEF MakeDirectory
<1>3. PICK y :
         /\ y.pc = "dump" /\ y.backup = b /\ y.command = proc[p].command
         /\ y.stage = proc[p].stage /\ y.seen = proc[p].seen
         /\ y.incomplete = proc[p].incomplete
         /\ proc' = [proc EXCEPT ![p] = y]
  <2> DEFINE y == [proc[p] EXCEPT !.pc = "dump", !.backup = b]
  <2>1. /\ y.pc = "dump" /\ y.backup = b /\ y.command = proc[p].command
        /\ y.stage = proc[p].stage /\ y.seen = proc[p].seen
        /\ y.incomplete = proc[p].incomplete
    BY <1>1 DEF Process
  <2>2. proc' = [proc EXCEPT ![p] = y]
    BY <1>1, <1>2 DEF TypeOK
  <2> HIDE DEF y
  <2> QED
    BY <2>1, <2>2
<1>4. \A c \in Backups : backup'[c].stage = "validated" <=> backup[c].stage = "validated"
  BY <1>1, <1>2 DEF Backup
<1>5. ASSUME ~interrupted PROVE y.backup \notin y.seen.ownership.backups
  <2>1. Finished(proc[p].seen.ownership.backups)
    BY <1>1, <1>5, AtWork DEF TidyOK, FinishedOK, Unfinished, Going, Aside, Free
  <2> QED
    BY <1>2, <1>3, <2>1 DEF Finished
<1>6. UNCHANGED <<database, service, files, records, outcome>>
  BY DEF MakeDirectory
<1> QED
  BY <1>1, <1>3, <1>4, <1>5, <1>6, DirectoryTidy

LEMMA ArchiveTidy ==
    ASSUME IInv, TidyInv, NEW p \in Procs, Dump(p) \/ RemoveDirectory(p) PROVE TidyInv'
<1>1. /\ TypeOK /\ proc[p] \in Process /\ proc[p].pc \in {"dump", "cleanup"}
      /\ proc[p].stage = "backup" /\ backup \in [Backups -> Backup]
      /\ proc[p].backup \in Backups
  BY DEF IInv, TypeOK, AllWork, WorkOK, PlaceOK, BackupOK, Dump, RemoveDirectory, Aside
<1>2. PICK pc \in {"restore", "unproven"} : Goto(p, pc) /\ (pc = "restore" => Dump(p))
  BY DEF Dump, RemoveDirectory
<1>3. PICK y : /\ y.pc = pc /\ Same(proc[p], y) /\ y.incomplete = proc[p].incomplete
               /\ proc' = [proc EXCEPT ![p] = y]
  BY <1>1, <1>2, GotoTidy
<1>s. PICK s \in {"absent", "archive"} :
          \A b \in Backups :
             backup'[b].stage = (IF b = proc[p].backup THEN s ELSE backup[b].stage)
  BY <1>1 DEF Dump, RemoveDirectory, Backup
<1>4. UNCHANGED <<database, service, files, records, outcome>>
  BY DEF Dump, RemoveDirectory
<1>5. CASE interrupted
  BY <1>2, <1>3, <1>4, <1>5 DEF IInv, TidyInv, Free, outcome, TypeOK
<1>6. CASE ~interrupted
  <2>1. /\ proc[p].backup \notin proc[p].seen.ownership.backups
        /\ Finished(proc[p].seen.ownership.backups)
    BY <1>1, <1>6, AtWork DEF TidyOK, FinishedOK, Unfinished, Going, Aside, Free
  <2>2. \A b \in Backups : backup'[b].stage = "validated" <=> backup[b].stage = "validated"
    BY <1>1, <1>s, <2>1 DEF Finished
  <2>3. /\ y.pc \in {"restore", "unproven"} /\ y.command = proc[p].command
        /\ y.stage = proc[p].stage /\ y.seen = proc[p].seen /\ y.backup = proc[p].backup
    BY <1>2, <1>3 DEF Same
  <2> QED
    BY <1>1, <1>3, <1>4, <2>1, <2>2, <2>3, DirectoryTidy
<1> QED
  BY <1>5, <1>6

\* A backup is finished, and nobody's yet.
LEMMA MetadataTidy ==
    ASSUME IInv, TidyInv, NEW p \in Procs, WriteMetadata(p) PROVE TidyInv'
<1>1. /\ TypeOK /\ proc[p] \in Process /\ proc[p].pc = "write-metadata"
      /\ proc[p].stage \in {"backup", "metadata"} /\ backup \in [Backups -> Backup]
      /\ proc[p].backup \in Backups /\ proc[p].command \in {"upgrade", "backup"}
      /\ proc[p].pc \notin Aside
  BY DEF IInv, TypeOK, AllWork, WorkOK, PlaceOK, BackupOK, WriteMetadata, Aside, Process
<1>2. PICK y : /\ y.pc = "record" /\ Same(proc[p], y) /\ y.incomplete = proc[p].incomplete
               /\ proc' = [proc EXCEPT ![p] = y]
  BY <1>1, GotoTidy DEF WriteMetadata
<1>3. /\ UNCHANGED <<database, service, files, records, outcome>>
      /\ backup' = [backup EXCEPT ![proc[p].backup].stage = "validated"]
  BY DEF WriteMetadata
<1>4. ASSUME ~interrupted
      PROVE  /\ FinishedOK(y)' /\ OwnedOK(y)' /\ LinkedOK(y)' /\ proc[p].incomplete
             /\ proc[p].command = "backup" => OneRelease'
  <2>1. /\ TidyOK(proc[p]) /\ FinishedOK(proc[p]) /\ OwnedOK(proc[p])
        /\ proc[p].command = "upgrade" => proc[p].stage = "backup"
    BY <1>1, <1>4, AtWork DEF TidyOK, Going, Aside, Free, PlaceOK
  <2>2. Finished(y.seen.ownership.backups) /\ y.backup \notin y.seen.ownership.backups
        /\ ownership' = y.seen.ownership
    BY <1>1, <1>2, <1>3, <2>1 DEF FinishedOK, Unfinished, OwnedOK, Written, Same, records
  <2>3. \A b \in Backups :
           backup'[b].stage = (IF b = y.backup THEN "validated" ELSE backup[b].stage)
    BY <1>1, <1>2, <1>3 DEF Same, Backup
  <2>4. Finished(Owned(y))'
    BY <2>2, <2>3 DEF Finished, Owned
  <2>5. proc[p].command = "backup" => proc[p].stage = "metadata"
    BY <1>1, <2>1 DEF FinishedOK
  <2>6. proc[p].incomplete
    BY <1>1, <2>1, <2>5 DEF TidyOK, First
  <2>7. proc[p].command = "backup" => OneRelease'
    <3>1. OneRelease' = OneRelease
      BY <1>3 DEF OneRelease, database, service, files, records
    <3> QED
      BY <1>1, <2>1, <3>1 DEF TidyOK
  <2>8. FinishedOK(y)'
    BY <1>1, <1>2, <2>1, <2>2, <2>4, <2>5 DEF FinishedOK, Unfinished, Same
  <2>9. OwnedOK(y)' /\ LinkedOK(y)'
    BY <1>1, <1>2, <2>2 DEF OwnedOK, Written, LinkedOK, Same
  <2> QED
    BY <2>6, <2>7, <2>8, <2>9
<1> QED
  BY <1>1, <1>2, <1>3, <1>4, OnTidy DEF Same, Going

\* The steps of an upgrade between its backup and its publication.
LEMMA UpgradeTidy ==
    ASSUME IInv, TidyInv, NEW p \in Procs, proc[p].pc \notin Aside,
           proc[p].command = "upgrade",
           proc[p].stage \in {"drain", "install", "migrate", "readiness", "commit", "activate"},
           NEW y, proc' = [proc EXCEPT ![p] = y], Same(proc[p], y),
           y.incomplete = proc[p].incomplete, proc[p].pc \in Going \ {"write-installation"},
           y.pc \in {"quiet", "link", "record", "migrate", "compare"},
           UNCHANGED <<ownership, backup, outcome>>,
           ~interrupted => LinkedOK(y)'
    PROVE  TidyInv'
<1>1. ASSUME ~interrupted PROVE FinishedOK(y)' /\ OwnedOK(y)' /\ proc[p].incomplete
  <2>1. TidyOK(proc[p]) /\ FinishedOK(proc[p]) /\ OwnedOK(proc[p])
    BY <1>1, AtWork DEF TidyOK, Aside, Free
  <2>2. Finished(Owned(y)) /\ ownership = y.seen.ownership
    BY <2>1 DEF FinishedOK, Unfinished, Owned, OwnedOK, Written, Same
  <2>3. FinishedOK(y)'
    BY <2>2 DEF FinishedOK, Finished, Unfinished, Owned, Same
  <2>4. OwnedOK(y)'
    BY <2>2 DEF OwnedOK, Written, Same
  <2> QED
    BY <2>1, <2>3, <2>4 DEF TidyOK, First
<1> QED
  BY <1>1, OnTidy DEF Same, Going

LEMMA LinkTidy ==
    ASSUME IInv, TidyInv, NEW p \in Procs,
           \/ StopApplication(p) \/ Unpack(p) \/ WriteLauncher(p) \/ Migrate(p)
           \/ StartPrivately(p) \/ StartInPublic(p)
    PROVE  TidyInv'
<1>1. /\ proc[p].pc \in {"stop", "unpack", "link", "migrate", "start-private", "start-public"}
      /\ UNCHANGED <<ownership, backup, outcome>>
      /\ TypeOK
  BY DEF IInv, StopApplication, Unpack, WriteLauncher, Migrate, StartPrivately, StartInPublic,
         records
<1>2. /\ proc[p].pc \notin Aside /\ PlaceOK(proc[p]) /\ proc[p].command \in {"upgrade", "backup"}
      /\ proc[p].pc \in Going \ {"write-installation"}
  BY <1>1 DEF IInv, AllWork, WorkOK, TypeOK, Process, Aside, Going
<1>3. /\ proc[p].command = "upgrade"
      /\ proc[p].stage \in {"drain", "install", "migrate", "readiness", "activate"}
      /\ proc[p].pc = "stop" => proc[p].stage = "drain"
      /\ proc[p].pc \in {"unpack", "link"} => proc[p].stage = "install"
      /\ proc[p].pc = "migrate" => proc[p].stage = "migrate"
  BY <1>1, <1>2 DEF PlaceOK
<1>p. PICK pc \in {"quiet", "link", "record", "migrate", "compare", "unproven"} :
         /\ Goto(p, pc) \/ (UNCHANGED proc /\ pc = proc[p].pc)
         /\ pc = "quiet" <=> proc[p].pc = "stop"
         /\ pc = "link" <=> proc[p].pc = "unpack"
         /\ pc = "unproven" => WriteLauncher(p)
         /\ pc = "migrate" => proc[p].pc = "migrate"
         /\ pc # "unproven" /\ proc[p].pc = "link" => launcher' = Target(p)
  <2>1. ASSUME Migrate(p) /\ UNCHANGED proc PROVE proc[p].pc = "migrate"
    BY <2>1 DEF Migrate
  <2> QED
    BY <2>1 DEF StopApplication, Unpack, WriteLauncher, Migrate, StartPrivately, StartInPublic
<1>y. PICK y : /\ y.pc = pc /\ Same(proc[p], y) /\ y.incomplete = proc[p].incomplete
               /\ proc' = [proc EXCEPT ![p] = y]
  <2>1. CASE Goto(p, pc)
    BY <1>1, <2>1, GotoTidy
  <2>2. CASE UNCHANGED proc /\ pc = proc[p].pc
    <3>1. PICK y : y = proc[p]
      OBVIOUS
    <3>2. y.pc = pc /\ Same(proc[p], y) /\ y.incomplete = proc[p].incomplete
      BY <2>2, <3>1 DEF Same
    <3>3. proc' = [proc EXCEPT ![p] = y]
      BY <1>1, <2>2, <3>1 DEF TypeOK
    <3> QED
      BY <3>2, <3>3
  <2> QED
    BY <1>p, <2>1, <2>2
<1>4. /\ y.pc \in {"quiet", "link", "record", "migrate", "compare", "unproven"}
      /\ Same(proc[p], y) /\ y.incomplete = proc[p].incomplete
      /\ proc' = [proc EXCEPT ![p] = y]
      /\ y.pc = "quiet" <=> proc[p].pc = "stop"
      /\ y.pc = "link" <=> proc[p].pc = "unpack"
      /\ y.pc = "unproven" => WriteLauncher(p)
      /\ y.pc = "migrate" => proc[p].pc = "migrate"
      /\ y.pc # "unproven" /\ proc[p].pc = "link" => launcher' = Target(p)
  BY <1>p, <1>y
<1>5. CASE y.pc = "unproven"
  BY <1>1, <1>2, <1>3, <1>4, <1>5, BrokenTidy DEF First, Leaving, Pcs, Going, Free
<1>6. CASE y.pc # "unproven"
  <2>1. ASSUME ~interrupted PROVE LinkedOK(y)'
    <3>1. LinkedOK(proc[p]) /\ Target(p) = y.target /\ y.stage = proc[p].stage
      BY <1>2, <1>4, <2>1, AtWork DEF TidyOK, Aside, Free, Target, Same
    <3>2. CASE proc[p].pc = "stop"
      BY <1>3, <1>4, <3>1, <3>2 DEF LinkedOK
    <3>3. CASE proc[p].pc = "unpack"
      <4>1. y.target \in unpacked'
        BY <3>1, <3>3 DEF StopApplication, Unpack, WriteLauncher, Migrate, StartPrivately,
           StartInPublic
      <4> QED
        BY <1>3, <1>4, <3>1, <3>3, <4>1 DEF LinkedOK
    <3>4. CASE proc[p].pc = "link"
      <4>1. launcher' = y.target /\ y.target \in unpacked'
        BY <1>4, <1>6, <3>1, <3>4 DEF LinkedOK, Same, StopApplication, Unpack, WriteLauncher,
           Migrate, StartPrivately, StartInPublic
      <4> QED
        BY <4>1 DEF LinkedOK
    <3>5. CASE proc[p].pc \in {"migrate", "start-private", "start-public"}
      <4>1. UNCHANGED <<launcher, unpacked>>
        BY <3>5 DEF StopApplication, Unpack, WriteLauncher, Migrate, StartPrivately,
           StartInPublic, files
      <4>2. launcher = y.target /\ y.target \in unpacked
        <5>1. proc[p].stage \in {"migrate", "readiness", "activate"}
          BY <1>2, <3>5 DEF PlaceOK
        <5> QED
          BY <1>4, <3>1, <5>1 DEF LinkedOK, Same
      <4> QED
        BY <4>1, <4>2 DEF LinkedOK
    <3> QED
      BY <1>1, <3>2, <3>3, <3>4, <3>5
  <2> QED
    BY <1>1, <1>2, <1>3, <1>4, <1>6, <2>1, UpgradeTidy
<1> QED
  BY <1>5, <1>6

LEMMA SelectTidy ==
    ASSUME IInv, TidyInv, NEW p \in Procs, RecordWritten(p) PROVE TidyInv'
<1>1. proc[p].pc \in RecordPcs /\ WriteRecord(p)
  BY DEF RecordWritten, WriteRecord, RecordPcs
<1>2. /\ TypeOK /\ proc[p] \in Process /\ PlaceOK(proc[p])
      /\ proc[p].command \in {"upgrade", "backup"} /\ proc[p].pc \notin Aside
      /\ proc[p].pc \in Going /\ Target(p) = proc[p].target
      /\ UNCHANGED <<database, service, files, backup, outcome>>
  BY <1>1, RecordCall DEF RecordPcs, Aside, Going, WriteRecord
<1>3. PICK pc \in {"write-ownership", "write-installation", "record"} :
         /\ Goto(p, pc)
         /\ \/ pc = "record" /\ proc[p].pc = "select"
            \/ pc = "write-ownership" /\ proc[p].pc = "write-deployment"
            \/ pc = "write-installation" /\ proc[p].pc = "write-ownership"
               /\ proc[p].command = "upgrade"
            \/ pc = "record" /\ proc[p].pc = "write-installation"
            \/ pc = "record" /\ proc[p].pc = "write-ownership" /\ proc[p].command = "backup"
  BY <1>1, <1>2 DEF RecordWritten, RecordPcs
<1>4. PICK y : /\ y.pc = pc /\ Same(proc[p], y) /\ y.incomplete = proc[p].incomplete
               /\ proc' = [proc EXCEPT ![p] = y]
  BY <1>2, <1>3, GotoTidy
<1>5. /\ y.stage = proc[p].stage /\ y.command = proc[p].command
      /\ proc[p].pc = "select" => y.stage = "commit"
      /\ proc[p].pc \in {"write-deployment", "write-installation"} => y.stage = "publish"
      /\ proc[p].pc = "write-ownership" /\ y.command = "upgrade" => y.stage = "publish"
      /\ y.command = "backup" => y.stage = "own" /\ proc[p].pc = "write-ownership"
  BY <1>1, <1>2, <1>4 DEF PlaceOK, Same, RecordPcs
<1>6. ASSUME ~interrupted
      PROVE  /\ FinishedOK(y)' /\ OwnedOK(y)' /\ LinkedOK(y)' /\ proc[p].incomplete
             /\ proc[p].command = "backup" => OneRelease'
  <2>1. TidyOK(proc[p]) /\ FinishedOK(proc[p]) /\ OwnedOK(proc[p]) /\ LinkedOK(proc[p])
    BY <1>2, <1>6, AtWork DEF TidyOK, Aside, Free
  <2>2. Finished(Owned(y))
    BY <1>1, <1>2, <1>4, <1>5, <2>1 DEF FinishedOK, Unfinished, Owned, Same, RecordPcs
  <2>3. FinishedOK(y)'
    BY <1>2, <1>3, <1>4, <1>5, <2>2 DEF FinishedOK, Finished, Unfinished, Owned, RecordPcs
  <2>4. OwnedOK(y)'
    <3>1. CASE proc[p].pc \in {"select", "write-deployment"}
      <4>1. ownership = y.seen.ownership
        BY <1>4, <1>5, <2>1, <3>1 DEF OwnedOK, Written, Same
      <4>2. UNCHANGED ownership
        BY <1>1, <3>1 DEF WriteRecord
      <4> QED
        BY <1>3, <1>4, <1>5, <3>1, <4>1, <4>2 DEF OwnedOK, Written
    <3>2. CASE proc[p].pc = "write-ownership"
      <4>1. ownership' = IF proc[p].command = "backup" THEN NewBackups(p) ELSE NewOwnership(p)
        BY <1>1, <3>2 DEF WriteRecord
      <4>2. NewBackups(p).backups = Owned(y) /\ NewOwnership(p).backups = Owned(y)
        BY <1>2, <1>4 DEF NewBackups, NewOwnership, Owned, Same, Process, Ownership
      <4>3. Owned(y)' = Owned(y)
        BY DEF Owned
      <4> QED
        BY <1>2, <1>3, <1>4, <1>5, <3>2, <4>1, <4>2, <4>3 DEF OwnedOK, Written
    <3>3. CASE proc[p].pc = "write-installation"
      <4>1. ownership.backups = Owned(y) /\ Owned(y)' = Owned(y)
        BY <1>4, <1>5, <2>1, <3>3 DEF OwnedOK, Written, Owned, Same
      <4>2. UNCHANGED ownership
        BY <1>1, <3>3 DEF WriteRecord
      <4> QED
        BY <1>3, <1>4, <1>5, <3>3, <4>1, <4>2 DEF OwnedOK, Written
    <3> QED
      BY <1>1, <3>1, <3>2, <3>3 DEF RecordPcs
  <2>5. LinkedOK(y)'
    BY <1>2, <1>3, <1>4, <1>5, <2>1 DEF LinkedOK, Same, files
  <2>6. proc[p].incomplete
    BY <1>1, <1>2, <1>5, <2>1 DEF TidyOK, First, RecordPcs
  <2>7. proc[p].command = "backup" => OneRelease'
    <3>1. proc[p].command = "backup" => OneRelease /\ UNCHANGED <<active, deployment, installed>>
      BY <1>1, <1>2, <1>5, <2>1 DEF TidyOK, WriteRecord
    <3> QED
      BY <1>2, <3>1 DEF OneRelease, database, service, files
  <2> QED
    BY <2>3, <2>4, <2>5, <2>6, <2>7
<1> QED
  BY <1>2, <1>3, <1>4, <1>5, <1>6, OnTidy DEF Going, PlaceOK

LEMMA NotWrittenTidy ==
    ASSUME IInv, TidyInv, NEW p \in Procs, RecordNotWritten(p) PROVE TidyInv'
<1>1. proc[p].pc \in RecordPcs /\ Goto(p, "unproven")
  BY DEF RecordNotWritten, RecordPcs
<1>2. /\ TypeOK /\ PlaceOK(proc[p]) /\ proc[p].command \in {"upgrade", "backup"}
      /\ proc[p].pc \notin Aside
      /\ UNCHANGED <<database, service, files, backup, outcome>>
  BY <1>1, RecordCall DEF RecordPcs, Aside, WriteRecord, RecordNotWritten
<1>3. PICK y : /\ y.pc = "unproven" /\ Same(proc[p], y) /\ y.incomplete = proc[p].incomplete
               /\ proc' = [proc EXCEPT ![p] = y]
  BY <1>1, <1>2, GotoTidy
<1>4. proc[p].stage \notin {First(proc[p]), "done"}
      /\ (proc[p].command = "backup" => proc[p].pc = "write-ownership")
  BY <1>1, <1>2 DEF PlaceOK, First, RecordPcs
<1>5. ASSUME ~interrupted, proc[p].command = "backup" PROVE OneRelease'
  <2>1. OneRelease
    BY <1>2, <1>5, AtWork DEF TidyOK, Aside, Free
  <2>2. UNCHANGED <<active, deployment, installed>>
    BY <1>4, <1>5 DEF RecordNotWritten, WriteRecord, records
  <2> QED
    BY <1>2, <2>1, <2>2 DEF OneRelease, database, service, files
<1> QED
  BY <1>2, <1>3, <1>4, <1>5, BrokenTidy DEF Leaving, Pcs, Going, Free

-----------------------------------------------------------------------------
LEMMA NextTidy == IInv /\ TidyInv /\ [Next]_vars => TidyInv'
<1> SUFFICES ASSUME IInv, TidyInv, [Next]_vars PROVE TidyInv'
  OBVIOUS
<1>1. ASSUME NEW p \in Procs, Command(p) PROVE TidyInv'
  BY <1>1, PreviewTidy, AcquireTidy, BeginTidy, CheckTidy, EndsTidy DEF Command
<1>2. ASSUME NEW p \in Procs, Effect(p) PROVE TidyInv'
  BY <1>2, IntendTidy, RecordTidy, RecordFailsTidy, CallTidy, MakeDirectoryTidy, FailTidy,
     ArchiveTidy, MetadataTidy, LinkTidy, SelectTidy DEF Effect
<1>3. ASSUME NEW p \in Procs, Rollback(p) PROVE TidyInv'
  BY <1>3, RecordFailsTidy, BreakTidy DEF Rollback
<1>4. ASSUME NEW p \in Procs, Breaks(p) PROVE TidyInv'
  BY <1>4, FailTidy, RecordFailsTidy, CallTidy, BreakTidy, NotWrittenTidy, EndsTidy, AbortTidy
     DEF Breaks
<1>5. CASE Write \/ RemoveLauncher
  BY <1>5, AloneTidy
<1>6. CASE UNCHANGED vars
  <2>1. UNCHANGED <<Things, proc, holder, interrupted>>
    BY <1>6 DEF vars, Things, database, service, files, records, outcome
  <2>2. Consistent' = Consistent
    BY <2>1 DEF Consistent, Things
  <2>3. ASSUME NEW q \in Procs, TidyOK(proc[q]) PROVE TidyOK(proc[q])'
    BY <2>1, <2>3 DEF TidyOK, FinishedOK, Finished, Unfinished, Owned, OwnedOK, Written,
       LinkedOK, First, Consistent, OneRelease, Things
  <2> QED
    BY <2>1, <2>2, <2>3 DEF TidyInv
<1> QED
  BY <1>1, <1>2, <1>3, <1>4, <1>5, <1>6 DEF Next

\* While no command runs, whatever does not fit together, half an upgrade, a stopped
\* application, a backup that nobody owns, is on record in a journal that asks for
\* recovery: wherever the command failed, and whichever line of its journal was lost.
THEOREM DisagreementIsAlwaysRecorded == Spec => []DisagreementIsRecorded
<1>1. Init => TidyInv
  BY InitTidy
<1>2. IInv /\ TidyInv /\ [Next]_vars => TidyInv'
  BY NextTidy
<1>3. TidyInv => DisagreementIsRecorded
  BY DEF TidyInv, DisagreementIsRecorded
<1> QED
  BY Invariance, <1>1, <1>2, <1>3, PTL DEF Spec
=============================================================================
