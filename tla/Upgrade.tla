------------------------------- MODULE Upgrade -------------------------------
(***************************************************************************)
(* Upgrade of the self-hosted installation to another release, and the     *)
(* backup it rests on: runUpgrade of src/onboarding/application/upgrade.ts *)
(* with what upgradeOperation of production-lifecycle.ts gives it, the     *)
(* command "backup", the classification of a schema upgrade, the drain of  *)
(* the writers, the migration runner, and what compose does.               *)
(*                                                                         *)
(* An upgrade backs the database up, stops the application if the schema   *)
(* changes, unpacks the release, migrates, starts the release on a private *)
(* socket, selects it, starts it in public, and publishes three records.   *)
(* Before the migration it can go back; after it, it cannot.               *)
(*                                                                         *)
(* A release stands for its sequence; all that the database holds is its   *)
(* schema and a count of the writes to it.  Of the journal only what       *)
(* OperationJournal shows to matter is kept: whether an effect is on       *)
(* record.  The first effect of an upgrade changes nothing and counts.     *)
(* No command starts an application that is stopped, other than an upgrade *)
(* and a setup: to repair, a stopped container is one that is there.       *)
(***************************************************************************)
EXTENDS Integers, FiniteSets

CONSTANTS
    Procs,       \* processes that run administrative commands
    None,        \* no process
    Releases,    \* the releases, by sequence; the first is installed
    Schema,      \* the latest migration of each
    Oldest,      \* schemaMinimum of each
    ForwardOnly, \* the migrations that are classified as forward-only
    Backups,     \* bound: backups ever begun
    MaxWrites,   \* bound: writes of the application
    MaxFaults    \* bound: crashes, failed calls, cancellations

ASSUME NobodyAssumption == None \notin Procs
ASSUME ReleasesAssumption ==
    /\ Releases \subseteq Nat \ {0} /\ 1 \in Releases
    /\ Schema \in [Releases -> Nat] /\ Oldest \in [Releases -> Nat]
    /\ ForwardOnly \subseteq Nat
ASSUME BoundsAssumption == 0 \notin Backups /\ MaxWrites \in Nat /\ MaxFaults \in Nat

VARIABLES
    schema,      \* the last migration that the database has had
    writes,      \* how often the application has written to it
    app,         \* the release that the application container runs, 0 if stopped
    public,      \* it serves the socket of the clients, not a private one
    launcher,    \* the release that ~/.local/bin/skillwire starts, 0 without one
    unpacked,    \* the releases with a directory
    active,      \* active-release.json
    deployment,  \* deployment.json
    installed,   \* installation.json
    ownership,   \* ownership.json: the releases and backups that it lists
    backup,      \* the directory of each backup
    holder,      \* the process that holds the installation lock
    interrupted, \* the journal of some operation asks for recovery
    report,      \* what the last command that ended has reported
    proc,        \* where each process is
    faults       \* faults so far

database == <<schema, writes>>
service == <<app, public>>
files == <<launcher, unpacked>>
records == <<active, deployment, installed, ownership>>
outcome == <<holder, interrupted, report>>
vars == <<database, service, files, records, backup, outcome, proc, faults>>

Ownership == [releases : SUBSET Releases, backups : SUBSET Backups]

\* How far the directory of a backup has come, and what the archive holds.
Backup == [stage : {"absent", "empty", "archive", "validated"}, schema : Nat, writes : Nat]

Stages == {"verify", "backup", "drain", "install", "migrate", "readback", "readiness",
           "clients", "commit", "activate", "publish", "metadata", "own", "done"}

\* Mutant: the drain only looks at the sessions of the database.
FirstCallWithoutStop(stage) == CASE stage = "backup" -> "mkdir"
                                 [] stage = "install" -> "unpack"
                                 [] stage = "migrate" -> "migrate"
                                 [] stage = "readiness" -> "start-private"
                                 [] stage = "commit" -> "select"
                                 [] stage = "activate" -> "start-public"
                                 [] stage = "publish" -> "write-deployment"
                                 [] stage = "metadata" -> "write-metadata"
                                 [] stage = "own" -> "write-ownership"
                                 [] OTHER -> "observe"

\* The first call of the action of each effect.
FirstCall(stage) == CASE stage = "backup" -> "mkdir"
                      [] stage = "drain" -> "stop"
                      [] stage = "install" -> "unpack"
                      [] stage = "migrate" -> "migrate"
                      [] stage = "readiness" -> "start-private"
                      [] stage = "commit" -> "select"
                      [] stage = "activate" -> "start-public"
                      [] stage = "publish" -> "write-deployment"
                      [] stage = "metadata" -> "write-metadata"
                      [] stage = "own" -> "write-ownership"
                      [] OTHER -> "observe"

Pcs == {"idle", "previewed", "begun", "check", "intend", "record", "unproven", "thrown",
        "observe", "mkdir", "dump", "restore", "cleanup", "write-metadata", "stop", "quiet",
        "unpack", "link", "migrate", "start-private", "compare", "select", "start-public",
        "write-deployment", "write-ownership", "write-installation",
        "halt", "relink", "restart", "settle", "retain", "catch"}

\* What a failed upgrade has told its caller, and with it the report.
Verdicts == {"none", "failed", "rolled-back", "activate", "restore"}

\* seen: what the preview has read.  evidence: the writes under the lock.  backup: the
\* one that this operation has begun.  drained, unpacked, committed, migrating: the
\* variables of runUpgrade.  incomplete: an effect is on record.
Process == [pc : Pcs, command : {"upgrade", "backup"}, stage : Stages, target : Releases,
            seen : [schema : Nat, deployment : Releases, installed : Releases,
                    ownership : Ownership],
            evidence : Nat, backup : Backups \cup {0}, drained : BOOLEAN,
            unpacked : BOOLEAN, committed : BOOLEAN, migrating : BOOLEAN,
            incomplete : BOOLEAN, aborted : BOOLEAN, verdict : Verdicts]

Idle == [pc |-> "idle", command |-> "upgrade", stage |-> "verify", target |-> 1,
         seen |-> [schema |-> 0, deployment |-> 1, installed |-> 1,
                   ownership |-> [releases |-> {}, backups |-> {}]],
         evidence |-> 0, backup |-> 0, drained |-> FALSE, unpacked |-> FALSE,
         committed |-> FALSE, migrating |-> FALSE, incomplete |-> FALSE,
         aborted |-> FALSE, verdict |-> "none"]

\* A setup has installed the first release and runs it.
Init ==
    /\ schema = Schema[1] /\ writes = 0
    /\ app = 1 /\ public = TRUE
    /\ launcher = 1 /\ unpacked = {1}
    /\ active = 1 /\ deployment = 1 /\ installed = 1
    /\ ownership = [releases |-> {1}, backups |-> {}]
    /\ backup = [b \in Backups |-> [stage |-> "absent", schema |-> 0, writes |-> 0]]
    /\ holder = None /\ interrupted = FALSE /\ report = "none"
    /\ proc = [p \in Procs |-> Idle]
    /\ faults = 0

Fault == faults < MaxFaults /\ faults' = faults + 1

Goto(p, pc) == proc' = [proc EXCEPT ![p].pc = pc]

Target(p) == proc[p].target

\* classifySchemaUpgrade: an upgrade without the error of one of its checks.
Classified(live, r) ==
    /\ Oldest[r] <= live /\ live <= Schema[r]
    /\ Schema[r] = live \/ \E m \in live + 1 .. Schema[r] : m \in ForwardOnly

\* The decision "forward-only".
Forward(p) == Schema[Target(p)] > proc[p].seen.schema

\* The order of the effects of each command.
Successor(command, stage, forward) ==
    CASE command = "backup" /\ stage = "backup" -> "metadata"
      [] stage = "metadata" -> "own"
      [] stage = "verify" -> "backup"
      [] stage = "backup" /\ command = "upgrade" -> IF forward THEN "drain" ELSE "install"
      [] stage = "drain" -> "install"
      [] stage = "install" -> IF forward THEN "migrate" ELSE "readback"
      [] stage = "migrate" -> "readback"
      [] stage = "readback" -> "readiness"
      [] stage = "readiness" -> "clients"
      [] stage = "clients" -> "commit"
      [] stage = "commit" -> "activate"
      [] stage = "activate" -> "publish"
      [] OTHER -> "done"

Following(p) == Successor(proc[p].command, proc[p].stage, Forward(p))

\* Mutants: the writers are not drained; nothing is published.
AfterWithoutDrain(p) == IF Following(p) = "drain" THEN "install" ELSE Following(p)
AfterWithoutPublication(p) == IF Following(p) = "publish" THEN "done" ELSE Following(p)

After(p) == Following(p)

-----------------------------------------------------------------------------
\* Before the first effect.

\* Both commands read the records, an upgrade the schema too, without the lock.  The
\* first release, already installed, is nobody's target.
Preview(p) ==
    /\ proc[p].pc = "idle"
    /\ \E command \in {"upgrade", "backup"}, r \in Releases :
          /\ command = "backup" <=> r = 1
          /\ proc' = [proc EXCEPT ![p] =
              [Idle EXCEPT !.pc = "previewed", !.command = command, !.target = r,
                           !.stage = IF command = "upgrade" THEN "verify" ELSE "backup",
                           !.seen = [schema |-> schema, deployment |-> deployment,
                                     installed |-> installed, ownership |-> ownership]]]
    /\ UNCHANGED <<database, service, files, records, backup, outcome, faults>>

AcquireOperation(p) ==
    /\ proc[p].pc = "previewed"
    /\ holder = None
    /\ holder' = p
    /\ report' = "none"
    /\ Goto(p, "begun")
    /\ UNCHANGED <<database, service, files, records, backup, interrupted, faults>>

LockRefused(p) ==
    /\ proc[p].pc = "previewed"
    /\ holder # None
    /\ proc' = [proc EXCEPT ![p] = Idle]
    /\ UNCHANGED <<database, service, files, records, backup, outcome, faults>>

BeginOperation(p) ==
    /\ proc[p].pc = "begun"
    /\ Goto(p, "check")
    /\ UNCHANGED <<database, service, files, records, backup, outcome, faults>>

\* "prerequisites changed after preview" otherwise; installation.updatedAt changes with
\* the release and with nothing else here.
Unchanged(p) ==
    /\ installed = proc[p].seen.installed /\ ownership = proc[p].seen.ownership
    /\ proc[p].command = "upgrade" =>
          deployment = proc[p].seen.deployment /\ schema = proc[p].seen.schema

\* expectedMigrationInventory has a file for every migration, or throws: the release of
\* deployment.json must know the schema.  The evidence is of a database that may change.
CheckState(p) ==
    /\ proc[p].pc = "check"
    /\ IF Unchanged(p) /\ schema <= Schema[proc[p].seen.deployment] /\ ~proc[p].aborted
       THEN proc' = [proc EXCEPT ![p].pc = "intend", ![p].evidence = writes]
       ELSE Goto(p, "catch")
    /\ UNCHANGED <<database, service, files, records, backup, outcome, faults>>

-----------------------------------------------------------------------------
\* runEffect, as Upgrade sees it.

IntendEffect(p) ==
    /\ proc[p].pc = "intend" /\ proc[p].stage # "done"
    /\ proc' = [proc EXCEPT
          ![p].pc = IF proc[p].aborted THEN "thrown" ELSE FirstCall(proc[p].stage),
          ![p].migrating = @ \/ (proc[p].stage = "migrate" /\ ~proc[p].aborted)]
    /\ UNCHANGED <<database, service, files, records, backup, outcome, faults>>

\* What runUpgrade checks between the effects.
MayGoOn(p) ==
    /\ proc[p].stage = "verify" =>
          Target(p) > proc[p].seen.installed /\ Classified(proc[p].seen.schema, Target(p))
    /\ proc[p].stage = "readback" => schema = Schema[Target(p)]

RecordEffect(p) ==
    /\ proc[p].pc = "record"
    /\ proc' = [proc EXCEPT
          ![p].pc = IF MayGoOn(p) THEN "intend" ELSE "thrown",
          ![p].stage = IF MayGoOn(p) THEN After(p) ELSE @,
          ![p].incomplete = TRUE,
          ![p].drained = @ \/ proc[p].stage = "drain",
          ![p].unpacked = @ \/ proc[p].stage = "install",
          ![p].committed = @ \/ proc[p].stage = "commit"]
    /\ UNCHANGED <<database, service, files, records, backup, outcome, faults>>

RecordUnproven(p) ==
    /\ proc[p].pc = "unproven"
    /\ proc' = [proc EXCEPT ![p].pc = "thrown", ![p].incomplete = TRUE]
    /\ UNCHANGED <<database, service, files, records, backup, outcome, faults>>

\* An append throws: before an effect, or the last word on it.
AppendFails(p) ==
    /\ Fault
    /\ CASE proc[p].pc = "intend" ->
               Goto(p, IF proc[p].stage = "done" THEN "catch" ELSE "thrown")
         [] proc[p].pc = "unproven" -> Goto(p, "thrown")
         [] OTHER -> FALSE
    /\ UNCHANGED <<database, service, files, records, backup, outcome>>

\* The effect is done, and unproven: its lines could not be written.
RecordFails(p) ==
    /\ Fault
    /\ proc[p].pc = "record"
    /\ \E effect \in BOOLEAN :
          proc' = [proc EXCEPT ![p].pc = "unproven", ![p].incomplete = @ \/ effect]
    /\ UNCHANGED <<database, service, files, records, backup, outcome>>

\* A call fails on its own, or because the command was aborted.
CallFault(p) == Fault \/ (proc[p].aborted /\ UNCHANGED faults)

\* Calls that read: verifyTarget, verifyLiveSchema, verifyClients, and the check that no
\* other session is left in the database.
Observe(p) ==
    /\ proc[p].pc \in {"observe", "quiet"}
    /\ Goto(p, "record")
    /\ UNCHANGED <<database, service, files, records, backup, outcome, faults>>

\* Of calls that change nothing when they fail.
CallFails(p) ==
    /\ CallFault(p)
    /\ proc[p].pc \in {"observe", "quiet", "unpack", "link", "compare"}
    /\ Goto(p, "unproven")
    /\ UNCHANGED <<database, service, files, records, backup, outcome>>

-----------------------------------------------------------------------------
\* createAndValidate and createValidatedBackup.

MakeDirectory(p) ==
    /\ proc[p].pc = "mkdir"
    /\ \E b \in Backups :
          /\ backup[b].stage = "absent"
          /\ backup' = [backup EXCEPT ![b].stage = "empty"]
          /\ proc' = [proc EXCEPT ![p].pc = "dump", ![p].backup = b]
    /\ UNCHANGED <<database, service, files, records, outcome, faults>>

\* The instance has no name left for a backup.
NoDirectory(p) ==
    /\ proc[p].pc = "mkdir"
    /\ \A b \in Backups : backup[b].stage # "absent"
    /\ Goto(p, "unproven")
    /\ UNCHANGED <<database, service, files, records, backup, outcome, faults>>

\* pg_dump, and the copy of the archive.
Dump(p) ==
    /\ proc[p].pc = "dump"
    /\ backup' = [backup EXCEPT ![proc[p].backup] =
                     [stage |-> "archive", schema |-> schema, writes |-> writes]]
    /\ Goto(p, "restore")
    /\ UNCHANGED <<database, service, files, records, outcome, faults>>

\* The restored database has the state of the evidence.
RestoredMatches(p) == backup[proc[p].backup].writes = proc[p].evidence

\* An upgrade writes the metadata within the same effect.
RestoreArchive(p) ==
    /\ proc[p].pc = "restore"
    /\ Goto(p, IF ~RestoredMatches(p) THEN "cleanup"
               ELSE IF proc[p].command = "upgrade" THEN "write-metadata" ELSE "record")
    /\ UNCHANGED <<database, service, files, records, backup, outcome, faults>>

DumpFails(p) ==
    /\ CallFault(p)
    /\ proc[p].pc \in {"dump", "restore"}
    /\ Goto(p, "cleanup")
    /\ UNCHANGED <<database, service, files, records, backup, outcome>>

RemoveDirectory(p) ==
    /\ proc[p].pc = "cleanup"
    /\ backup' = [backup EXCEPT ![proc[p].backup].stage = "absent"]
    /\ Goto(p, "unproven")
    /\ UNCHANGED <<database, service, files, records, outcome, faults>>

\* "Incomplete backup cleanup requires exact filesystem recovery", or a file of the
\* metadata that cannot be written: the directory stays.
DirectoryStays(p) ==
    /\ Fault
    /\ proc[p].pc \in {"cleanup", "write-metadata"}
    /\ Goto(p, "unproven")
    /\ UNCHANGED <<database, service, files, records, backup, outcome>>

WriteMetadata(p) ==
    /\ proc[p].pc = "write-metadata"
    /\ backup' = [backup EXCEPT ![proc[p].backup].stage = "validated"]
    /\ Goto(p, "record")
    /\ UNCHANGED <<database, service, files, records, outcome, faults>>

-----------------------------------------------------------------------------
\* The effects on the installation, up to the migration.

\* drainWriters: compose stop, of the release that is installed.
StopApplication(p) ==
    /\ proc[p].pc = "stop"
    /\ app' = 0
    /\ Goto(p, "quiet")
    /\ UNCHANGED <<database, public, files, records, backup, outcome, faults>>

StopFails(p) ==
    /\ CallFault(p)
    /\ proc[p].pc = "stop"
    /\ app' \in {app, 0}
    /\ Goto(p, "unproven")
    /\ UNCHANGED <<database, public, files, records, backup, outcome>>

\* installVerifiedRelease, activate: false.
Unpack(p) ==
    /\ proc[p].pc = "unpack"
    /\ unpacked' = unpacked \cup {Target(p)}
    /\ Goto(p, "link")
    /\ UNCHANGED <<database, service, launcher, records, backup, outcome, faults>>

\* "Existing stable launcher is not the expected owned launcher" otherwise.
LauncherFits(p) == launcher \in {0, Target(p)}

WriteLauncher(p) ==
    /\ proc[p].pc = "link"
    /\ IF LauncherFits(p)
       THEN launcher' = Target(p) /\ Goto(p, "record")
       ELSE UNCHANGED launcher /\ Goto(p, "unproven")
    /\ UNCHANGED <<database, service, unpacked, records, backup, outcome, faults>>

\* "Database migration ... is newer than binary migration ..." otherwise.
AcceptsSchema(r) == schema <= Schema[r]

\* One migration, in a transaction of its own.
Migrate(p) ==
    /\ proc[p].pc = "migrate"
    /\ AcceptsSchema(Target(p))
    /\ IF schema = Schema[Target(p)]
       THEN UNCHANGED schema /\ Goto(p, "record")
       ELSE schema' = schema + 1 /\ UNCHANGED proc
    /\ UNCHANGED <<writes, service, files, records, backup, outcome, faults>>

\* A migration fails and is rolled back, or the command loses sight of a container
\* that goes on.
MigrateFails(p) ==
    /\ CallFault(p)
    /\ proc[p].pc = "migrate"
    /\ schema' \in schema .. Schema[Target(p)]
    /\ Goto(p, "unproven")
    /\ UNCHANGED <<writes, service, files, records, backup, outcome>>

-----------------------------------------------------------------------------
\* compose up: the migrations of the release, then its application.

StartPrivately(p) ==
    /\ proc[p].pc = "start-private"
    /\ AcceptsSchema(Target(p))
    /\ schema' = Schema[Target(p)]
    /\ app' = Target(p) /\ public' = FALSE
    /\ Goto(p, "compare")
    /\ UNCHANGED <<writes, files, records, backup, outcome, faults>>

\* The evidence of the target against that of the source.
CompareEvidence(p) ==
    /\ proc[p].pc = "compare"
    /\ Goto(p, IF writes = proc[p].evidence THEN "record" ELSE "unproven")
    /\ UNCHANGED <<database, service, files, records, backup, outcome, faults>>

StartInPublic(p) ==
    /\ proc[p].pc = "start-public"
    /\ AcceptsSchema(Target(p))
    /\ schema' = Schema[Target(p)]
    /\ app' = Target(p) /\ public' = TRUE
    /\ Goto(p, "record")
    /\ UNCHANGED <<writes, files, records, backup, outcome, faults>>

\* The container is what it was, stopped, or running and not ready in time.
StartFails(p) ==
    /\ CallFault(p)
    /\ proc[p].pc \in {"start-private", "start-public"}
    /\ \/ UNCHANGED service
       \/ app' \in {0, Target(p)} /\ public' = (proc[p].pc = "start-public")
    /\ Goto(p, "unproven")
    /\ UNCHANGED <<database, files, records, backup, outcome>>

-----------------------------------------------------------------------------
\* The records.

NewOwnership(p) == [releases |-> proc[p].seen.ownership.releases \cup {Target(p)},
                    backups |-> proc[p].seen.ownership.backups \cup {proc[p].backup}]

\* Of the command "backup".
NewBackups(p) == [proc[p].seen.ownership EXCEPT !.backups = @ \cup {proc[p].backup}]

WriteRecord(p) ==
    /\ CASE proc[p].pc = "select" ->
               active' = Target(p) /\ UNCHANGED <<deployment, installed, ownership>>
         [] proc[p].pc = "write-deployment" ->
               deployment' = Target(p) /\ UNCHANGED <<active, installed, ownership>>
         [] proc[p].pc = "write-ownership" ->
               /\ ownership' = IF proc[p].command = "backup" THEN NewBackups(p) ELSE NewOwnership(p)
               /\ UNCHANGED <<active, deployment, installed>>
         [] proc[p].pc = "write-installation" ->
               installed' = Target(p) /\ UNCHANGED <<active, deployment, ownership>>
         [] OTHER -> FALSE
    /\ UNCHANGED <<database, service, files, backup, outcome>>

RecordWritten(p) ==
    /\ WriteRecord(p)
    /\ Goto(p, CASE proc[p].pc = "write-deployment" -> "write-ownership"
                 [] proc[p].pc = "write-ownership" /\ proc[p].command = "upgrade" ->
                       "write-installation"
                 [] OTHER -> "record")
    /\ UNCHANGED faults

\* atomicWriteJson throws before it has replaced the file, or after.
RecordNotWritten(p) ==
    /\ Fault
    /\ proc[p].pc \in {"select", "write-deployment", "write-ownership", "write-installation"}
    /\ \/ WriteRecord(p)
       \/ UNCHANGED <<records, database, service, files, backup, outcome>>
    /\ Goto(p, "unproven")

-----------------------------------------------------------------------------
\* The catch of runUpgrade, and of both commands.

\* Mutant: the try of runUpgrade begins before the backup.
AnswerEarly(p) ==
    IF proc[p].command = "backup" \/ proc[p].stage = "publish" THEN "catch"
    ELSE IF proc[p].committed \/ proc[p].migrating THEN "halt"
    ELSE IF proc[p].drained \/ proc[p].unpacked THEN "relink" ELSE "settle"

\* Before the try of runUpgrade and after its end the error is the caller's.
Answer(p) ==
    IF proc[p].command = "backup" \/ proc[p].stage \in {"verify", "backup", "publish"}
    THEN "catch"
    ELSE IF proc[p].committed \/ proc[p].migrating THEN "halt"
    ELSE IF proc[p].drained \/ proc[p].unpacked THEN "relink" ELSE "settle"

HandleError(p) ==
    /\ proc[p].pc = "thrown"
    /\ proc' = [proc EXCEPT
          ![p].pc = Answer(p),
          ![p].verdict = IF Answer(p) # "halt" THEN "failed"
                         ELSE IF proc[p].committed THEN "activate" ELSE "restore"]
    /\ UNCHANGED <<database, service, files, records, backup, outcome, faults>>

\* stopWriters.
Halt(p) ==
    /\ proc[p].pc = "halt"
    /\ app' = 0
    /\ Goto(p, "retain")
    /\ UNCHANGED <<database, public, files, records, backup, outcome, faults>>

\* Nobody hears of it.
HaltFails(p) ==
    /\ Fault
    /\ proc[p].pc = "halt"
    /\ Goto(p, "retain")
    /\ UNCHANGED <<database, service, files, records, backup, outcome>>

\* restoreStableLauncher.
RestoreLauncher(p) ==
    /\ proc[p].pc = "relink"
    /\ IF launcher # 0
       THEN launcher' = proc[p].seen.deployment /\ Goto(p, "restart")
       ELSE UNCHANGED launcher /\ Goto(p, "catch")
    /\ UNCHANGED <<database, service, unpacked, records, backup, outcome, faults>>

RestartPrior(p) ==
    /\ proc[p].pc = "restart"
    /\ AcceptsSchema(proc[p].seen.deployment)
    /\ schema' = Schema[proc[p].seen.deployment]
    /\ app' = proc[p].seen.deployment /\ public' = TRUE
    /\ Goto(p, "settle")
    /\ UNCHANGED <<writes, files, records, backup, outcome, faults>>

\* The error of the rollback takes the place of the one that it answers.
RollbackFails(p) ==
    /\ Fault
    /\ proc[p].pc \in {"relink", "restart", "settle"}
    /\ \/ UNCHANGED service
       \/ /\ proc[p].pc = "restart"
          /\ app' \in {0, proc[p].seen.deployment} /\ public' = TRUE
    /\ Goto(p, "catch")
    /\ UNCHANGED <<database, files, records, backup, outcome>>

\* The line that settles the last effect, if that is unproven.
Settle(p) ==
    /\ proc[p].pc = "settle"
    /\ proc' = [proc EXCEPT ![p].pc = "retain", ![p].verdict = "rolled-back"]
    /\ UNCHANGED <<database, service, files, records, backup, outcome, faults>>

\* upgrade-retained-recovery-assets: the backup, and the release if it is unpacked.
RetainAssets(p) ==
    /\ proc[p].pc = "retain"
    /\ ownership' = [releases |-> proc[p].seen.ownership.releases \cup
                                      (unpacked \cap {Target(p)}),
                     backups |-> proc[p].seen.ownership.backups \cup {proc[p].backup}]
    /\ Goto(p, "catch")
    /\ UNCHANGED <<database, service, files, active, deployment, installed, backup, outcome, faults>>

\* Nobody hears of that either.
RetainFails(p) ==
    /\ Fault
    /\ proc[p].pc = "retain"
    /\ Goto(p, "catch")
    /\ UNCHANGED <<database, service, files, records, backup, outcome>>

\* The lock goes with the process.
End(p, r, asks) ==
    /\ holder' = None
    /\ report' = r
    /\ interrupted' = (interrupted \/ asks)
    /\ proc' = [proc EXCEPT ![p] = Idle]

Commit(p) ==
    /\ proc[p].pc = "intend" /\ proc[p].stage = "done"
    /\ End(p, IF proc[p].command = "backup" THEN "backed-up" ELSE "upgraded", FALSE)
    /\ UNCHANGED <<database, service, files, records, backup, faults>>

\* Mutant: a failure asks for recovery only if nothing was undone.
AsksUnlessRolledBack(p) == proc[p].incomplete /\ proc[p].verdict # "rolled-back"

\* journalNeedsRecovery, once the last word is written.
Asks(p) == proc[p].incomplete

\* journal.failure, or the result of an UpgradeRecoveryError.  The last word may be
\* lost, and the journal then asks for recovery; a commit whose append failed may be in
\* the file, and then it does not.
Fail(p) ==
    /\ proc[p].pc = "catch"
    /\ \E asks \in BOOLEAN :
          /\ Asks(p) /\ proc[p].stage # "done" => asks
          /\ End(p, CASE proc[p].verdict \in {"rolled-back", "activate", "restore"} ->
                             proc[p].verdict
                      [] proc[p].incomplete -> "recovery-required"
                      [] OTHER -> "failed", asks)
    /\ UNCHANGED <<database, service, files, records, backup, faults>>

-----------------------------------------------------------------------------
\* The surroundings.

\* A client, or a synchronization, through the application that runs.
Write ==
    /\ app # 0 /\ writes < MaxWrites
    /\ writes' = writes + 1
    /\ UNCHANGED <<schema, service, files, records, backup, outcome, proc, faults>>

\* The operator removes the launcher, between two commands.
RemoveLauncher ==
    /\ holder = None /\ launcher # 0
    /\ launcher' = 0
    /\ UNCHANGED <<database, service, unpacked, records, backup, outcome, proc, faults>>

\* The first append is outside the try.
BeginFails(p) ==
    /\ Fault
    /\ proc[p].pc = "begun"
    /\ \E asks \in BOOLEAN : End(p, "failed", asks)
    /\ UNCHANGED <<database, service, files, records, backup>>

\* SIGINT or SIGTERM.
Abort(p) ==
    /\ Fault
    /\ holder = p /\ ~proc[p].aborted
    /\ proc' = [proc EXCEPT ![p].aborted = TRUE]
    /\ UNCHANGED <<database, service, files, records, backup, outcome>>

\* The process dies; a container that migrates goes on.
Crash(p) ==
    /\ Fault
    /\ holder = p
    /\ \E asks \in BOOLEAN : (proc[p].pc # "begun" => asks) /\ End(p, "none", asks)
    /\ schema' \in IF proc[p].pc = "migrate" THEN schema .. Schema[Target(p)] ELSE {schema}
    /\ UNCHANGED <<writes, service, files, records, backup>>

-----------------------------------------------------------------------------
Command(p) ==
    \/ Preview(p) \/ AcquireOperation(p) \/ LockRefused(p) \/ BeginOperation(p)
    \/ CheckState(p) \/ Commit(p) \/ Fail(p)

Effect(p) ==
    \/ IntendEffect(p) \/ RecordEffect(p) \/ RecordUnproven(p) \/ Observe(p)
    \/ MakeDirectory(p) \/ NoDirectory(p) \/ Dump(p) \/ RestoreArchive(p)
    \/ RemoveDirectory(p) \/ WriteMetadata(p)
    \/ StopApplication(p) \/ Unpack(p) \/ WriteLauncher(p) \/ Migrate(p)
    \/ StartPrivately(p) \/ CompareEvidence(p) \/ StartInPublic(p) \/ RecordWritten(p)

Rollback(p) ==
    \/ HandleError(p) \/ Halt(p) \/ RestoreLauncher(p) \/ RestartPrior(p) \/ Settle(p)
    \/ RetainAssets(p)

Breaks(p) ==
    \/ AppendFails(p) \/ RecordFails(p) \/ CallFails(p) \/ DumpFails(p) \/ DirectoryStays(p)
    \/ StopFails(p) \/ MigrateFails(p) \/ StartFails(p) \/ RecordNotWritten(p)
    \/ HaltFails(p) \/ RollbackFails(p) \/ RetainFails(p)
    \/ BeginFails(p) \/ Abort(p) \/ Crash(p)

Next ==
    \/ \E p \in Procs : Command(p) \/ Effect(p) \/ Rollback(p) \/ Breaks(p)
    \/ Write \/ RemoveLauncher

Spec == Init /\ [][Next]_vars

-----------------------------------------------------------------------------
(***************************************************************************)
(* Properties                                                              *)
(***************************************************************************)
\* Every file, record and process is well formed.
TypeOK ==
    /\ schema \in Nat /\ writes \in Nat
    /\ app \in Releases \cup {0} /\ public \in BOOLEAN
    /\ launcher \in Releases \cup {0} /\ unpacked \subseteq Releases
    /\ active \in Releases /\ deployment \in Releases /\ installed \in Releases
    /\ ownership \in Ownership
    /\ backup \in [Backups -> Backup]
    /\ holder \in Procs \cup {None}
    /\ interrupted \in BOOLEAN
    /\ report \in {"none", "failed", "recovery-required", "upgraded", "backed-up"} \cup Verdicts
    /\ proc \in [Procs -> Process]
    /\ faults \in Nat

\* No application runs against a schema that is newer than it knows, private or not,
\* whatever failed, was cut short, or was tried again; and none serves the clients whose
\* release is neither selected nor in the deployment record.
SchemaIsKnown ==
    app # 0 => schema <= Schema[app] /\ (public => app \in {active, deployment})

\* The records, the launcher and the application are those of one release, and the
\* installation owns every finished backup, and no other.
Consistent ==
    /\ active = deployment /\ deployment = installed
    /\ launcher \in {0, installed} /\ installed \in unpacked
    /\ app = installed /\ public /\ schema = Schema[installed]
    /\ \A b \in Backups : backup[b].stage = "validated" <=> b \in ownership.backups

\* Whatever does not fit together while no command runs is on record in a journal: half
\* an upgrade, a stopped application, a backup that nobody owns.
DisagreementIsRecorded == holder = None /\ ~interrupted => Consistent

\* An upgrade that reports success leaves one release everywhere, and a backup of its own.
SuccessIsComplete ==
    holder = None /\ report = "upgraded" =>
        /\ active = deployment /\ deployment = installed /\ installed \in ownership.releases
        /\ app = installed /\ public /\ schema = Schema[installed]
        /\ \E b \in ownership.backups : backup[b].stage = "validated"

\* A migration begins with the application stopped, and with a validated backup of the
\* schema that it leaves.
MigratesDrainedAndBackedUp ==
    [][schema' # schema =>
          /\ app = 0
          /\ \E b \in Backups : backup[b].stage = "validated" /\ backup[b].schema <= schema]_vars
=============================================================================
