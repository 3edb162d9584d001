--------------------------- MODULE SecretRotation ---------------------------
(***************************************************************************)
(* Rotation of the database password of the self-hosted installation:      *)
(* rotateServiceSecret of                                                  *)
(* src/onboarding/application/service-secret-rotation.ts, with the effects *)
(* that rotateServiceSecretOperation of production-lifecycle.ts gives it.  *)
(*                                                                         *)
(* A rotation writes a candidate file, has PostgreSQL and the application  *)
(* use it, swaps it with the current file (whose content stays under a     *)
(* retained name), has the application use the current file, and publishes *)
(* the identity of the new secret in two state files.  When it fails it    *)
(* tries to go back.  It can fail or die anywhere, and be tried again.     *)
(*                                                                         *)
(* A secret stands for its value and for its identity, the hash of it.     *)
(* The files are names in one directory; every secret is written once, so  *)
(* two names with the same content are two links to one file.  Of the      *)
(* journal only what OperationJournal shows to matter is kept: whether an  *)
(* effect is on record that nothing settles.  The rollback's own line is   *)
(* that of another step, and settles none.                                 *)
(***************************************************************************)
EXTENDS Integers, FiniteSets

CONSTANTS
    Procs,      \* processes that run administrative commands
    None,       \* no process
    Secrets,    \* bound: secrets that are ever generated
    Absent,     \* the content of a name without a file
    Torn,       \* the content of a file of which only a part is written
    MaxOthers,  \* bound: changes of the ownership record by other commands
    MaxFaults   \* bound: crashes, failed calls, cancellations

ASSUME NobodyAssumption == None \notin Procs
ASSUME ContentsAssumption == Absent # Torn /\ Absent \notin Secrets /\ Torn \notin Secrets
ASSUME BoundsAssumption == MaxOthers \in Nat /\ MaxFaults \in Nat

VARIABLES
    file,        \* the content of each name in the directory of secrets
    used,        \* the secrets generated so far
    db,          \* the password of the database role
    app,         \* the name of the file that the application was started with
    published,   \* the identity in service-secret-set.json
    ownership,   \* ownership.json: the identity of the current secret, the
                 \* retained ones, and how often other assets have changed
    holder,      \* the process that holds the installation lock
    interrupted, \* the journal of some rotation asks for recovery
    report,      \* what the last command has reported
    proc,        \* where each process is
    faults       \* faults so far

service == <<db, app>>
records == <<published, ownership>>
outcome == <<holder, interrupted, report>>
vars == <<file, used, service, records, outcome, proc, faults>>

\* The operation id, and with it the name of both files, is the hash of the
\* identity that the rotation replaces.
Current == <<"current", Absent>>
Candidate(s) == <<"candidate", s>>
Retained(s) == <<"retained", s>>

Paths == {Current} \cup {Candidate(s) : s \in Secrets} \cup {Retained(s) : s \in Secrets}
Contents == Secrets \cup {Absent, Torn}

Ownership == [secret : Secrets, retained : SUBSET Secrets, others : Nat]

Stages == {"candidate", "candidate-readiness", "swap", "active-readiness", "publication",
           "done", "rollback"}

\* Mutant: the swapped file is published without a restart of its consumers.
AfterWithoutRestart(stage) == CASE stage = "candidate" -> "candidate-readiness"
                                [] stage = "candidate-readiness" -> "swap"
                                [] stage = "swap" -> "publication"
                                [] OTHER -> "done"

After(stage) == CASE stage = "candidate" -> "candidate-readiness"
                  [] stage = "candidate-readiness" -> "swap"
                  [] stage = "swap" -> "active-readiness"
                  [] stage = "active-readiness" -> "publication"
                  [] OTHER -> "done"

\* The first call of the action of each effect.
FirstCall(stage) == CASE stage = "candidate" -> "create"
                      [] stage = "swap" -> "link"
                      [] stage = "publication" -> "write-set"
                      [] OTHER -> "apply"

Pcs == {"idle", "previewing", "previewed", "begun", "check", "intend", "record", "unproven",
        "thrown", "create", "write", "apply", "deploy", "link", "rename", "sync", "unswap",
        "unlink", "write-set", "write-ownership", "restore", "restoring", "discard",
        "compensate", "catch"}

\* old, seen: what the preview has read.  fresh: the new secret.  owns: this
\* rotation has made the candidate file.  swapped: rotationState.swapped.
\* incomplete: hasIncompleteMutation of the journal.
Process == [pc : Pcs, stage : Stages, old : Secrets, seen : Ownership, fresh : Secrets,
            owns : BOOLEAN, swapped : BOOLEAN, incomplete : BOOLEAN, aborted : BOOLEAN]

Idle(s) == [pc |-> "idle", stage |-> "candidate", old |-> s,
            seen |-> [secret |-> s, retained |-> {}, others |-> 0], fresh |-> s,
            owns |-> FALSE, swapped |-> FALSE, incomplete |-> FALSE, aborted |-> FALSE]

\* ensureServiceSecrets and the first deployment have succeeded.
Init ==
    \E s \in Secrets :
        /\ file = [q \in Paths |-> IF q = Current THEN s ELSE Absent]
        /\ used = {s}
        /\ db = s
        /\ app = Current
        /\ published = s
        /\ ownership = [secret |-> s, retained |-> {}, others |-> 0]
        /\ holder = None
        /\ interrupted = FALSE
        /\ report = "none"
        /\ proc = [p \in Procs |-> Idle(s)]
        /\ faults = 0

Fault == faults < MaxFaults /\ faults' = faults + 1

Goto(p, pc) == proc' = [proc EXCEPT ![p].pc = pc]
Reset(p) == proc' = [proc EXCEPT ![p] = Idle(proc[p].old)]

\* A regular file with one name and the right size.
Valid(q) == file[q] \in Secrets /\ \A r \in Paths \ {q} : file[r] # file[q]

-----------------------------------------------------------------------------
\* The preview, before the lock is taken.

ReadOwnership(p) ==
    /\ proc[p].pc = "idle"
    /\ proc' = [proc EXCEPT ![p].pc = "previewing", ![p].seen = ownership]
    /\ UNCHANGED <<file, used, service, records, outcome, faults>>

\* "Matching service-secret ownership is unavailable" otherwise.
ReadSecretSet(p) ==
    /\ proc[p].pc = "previewing"
    /\ IF proc[p].seen.secret = published
       THEN proc' = [proc EXCEPT ![p].pc = "previewed", ![p].old = published]
       ELSE Reset(p)
    /\ UNCHANGED <<file, used, service, records, outcome, faults>>

\* The bound on secrets ends the rotations.
AcquireOperation(p) ==
    /\ proc[p].pc = "previewed"
    /\ holder = None
    /\ used # Secrets
    /\ holder' = p
    /\ report' = "none"
    /\ Goto(p, "begun")
    /\ UNCHANGED <<file, used, service, records, interrupted, faults>>

LockRefused(p) ==
    /\ proc[p].pc = "previewed"
    /\ holder # None
    /\ Reset(p)
    /\ UNCHANGED <<file, used, service, records, outcome, faults>>

BeginRotation(p) ==
    /\ proc[p].pc = "begun"
    /\ Goto(p, "check")
    /\ UNCHANGED <<file, used, service, records, outcome, faults>>

\* Mutant: the state is not read again under the lock.
NeverStale(p) == TRUE

\* lockedOwnership and lockedSet.
Unchanged(p) == ownership = proc[p].seen /\ published = proc[p].old

\* The state under the lock, and the checks before the first effect.
CheckState(p) ==
    /\ proc[p].pc = "check"
    /\ IF /\ Unchanged(p)
          /\ ~proc[p].aborted
          /\ Valid(Current) /\ file[Current] = proc[p].old
          /\ file[Retained(proc[p].old)] = Absent
       THEN \E s \in Secrets \ used :
               /\ used' = used \cup {s}
               /\ proc' = [proc EXCEPT ![p].pc = "intend", ![p].fresh = s]
       ELSE Goto(p, "catch") /\ UNCHANGED used
    /\ UNCHANGED <<file, service, records, outcome, faults>>

\* Commands that change other assets, also under the lock.
ChangeOtherAsset(p) ==
    /\ proc[p].pc = "idle"
    /\ holder = None
    /\ ownership.others < MaxOthers
    /\ ownership' = [ownership EXCEPT !.others = @ + 1]
    /\ UNCHANGED <<file, used, service, published, outcome, proc, faults>>

-----------------------------------------------------------------------------
\* runEffect, as SecretRotation sees it.

IntendEffect(p) ==
    /\ proc[p].pc = "intend" /\ proc[p].stage # "done"
    /\ Goto(p, IF proc[p].aborted THEN "thrown" ELSE FirstCall(proc[p].stage))
    /\ UNCHANGED <<file, used, service, records, outcome, faults>>

RecordEffect(p) ==
    /\ proc[p].pc = "record"
    /\ proc' = [proc EXCEPT ![p].pc = "intend", ![p].stage = After(@),
                            ![p].incomplete = TRUE]
    /\ UNCHANGED <<file, used, service, records, outcome, faults>>

RecordUnproven(p) ==
    /\ proc[p].pc = "unproven"
    /\ proc' = [proc EXCEPT ![p].pc = "thrown", ![p].incomplete = TRUE]
    /\ UNCHANGED <<file, used, service, records, outcome, faults>>

\* An append throws.
AppendFails(p) ==
    /\ Fault
    /\ CASE proc[p].pc = "intend" ->
               Goto(p, IF proc[p].stage = "done" THEN "catch" ELSE "thrown")
         [] proc[p].pc = "unproven" -> Goto(p, "thrown")
         [] proc[p].pc = "compensate" -> Goto(p, "catch")
         [] OTHER -> FALSE
    /\ UNCHANGED <<file, used, service, records, outcome>>

\* After the action it is an unproven effect, and the journal in memory has the
\* effect if only the line that verifies it is lost.
RecordFails(p) ==
    /\ Fault
    /\ proc[p].pc = "record"
    /\ \E effect \in BOOLEAN :
          proc' = [proc EXCEPT ![p].pc = "unproven", ![p].incomplete = @ \/ effect]
    /\ UNCHANGED <<file, used, service, records, outcome>>

\* A call throws: within an effect, or within the rollback.
Throws(p) == Goto(p, IF proc[p].stage = "rollback" THEN "catch" ELSE "unproven")

\* A call fails on its own, or because the command was aborted.
CallFault(p) ==
    \/ Fault
    \/ proc[p].aborted /\ proc[p].stage # "rollback" /\ UNCHANGED faults

-----------------------------------------------------------------------------
\* The candidate.

CreateCandidate(p) ==
    LET q == Candidate(proc[p].old)
    IN  /\ proc[p].pc = "create"
        /\ file[q] = Absent
        /\ file' = [file EXCEPT ![q] = Torn]
        /\ proc' = [proc EXCEPT ![p].pc = "write", ![p].owns = TRUE]
        /\ UNCHANGED <<used, service, records, outcome, faults>>

\* O_EXCL.
CandidateExists(p) ==
    /\ proc[p].pc = "create"
    /\ file[Candidate(proc[p].old)] # Absent
    /\ Throws(p)
    /\ UNCHANGED <<file, used, service, records, outcome, faults>>

WriteCandidate(p) ==
    /\ proc[p].pc = "write"
    /\ file' = [file EXCEPT ![Candidate(proc[p].old)] = proc[p].fresh]
    /\ Goto(p, "record")
    /\ UNCHANGED <<used, service, records, outcome, faults>>

\* The file is unlinked, if that succeeds.
WriteFails(p) ==
    /\ Fault
    /\ proc[p].pc = "write"
    /\ \E content \in {Absent, Torn} :
          file' = [file EXCEPT ![Candidate(proc[p].old)] = content]
    /\ proc' = [proc EXCEPT ![p].pc = "unproven", ![p].owns = FALSE]
    /\ UNCHANGED <<used, service, records, outcome>>

\* Mutant: the candidate is removed whoever has made it.
RemovesAlways(p) == TRUE

\* ownedCandidatePaths.
RemovesCandidate(p) == proc[p].owns

\* The catch block of the first effect; nobody hears of a failed unlink.
DropCandidate(p) ==
    /\ proc[p].pc = "thrown" /\ proc[p].stage = "candidate"
    /\ file' = [file EXCEPT ![Candidate(proc[p].old)] = IF RemovesCandidate(p) THEN Absent ELSE @]
    /\ Goto(p, "catch")
    /\ UNCHANGED <<used, service, records, outcome, faults>>

DropFails(p) ==
    /\ Fault
    /\ proc[p].pc = "thrown" /\ proc[p].stage = "candidate"
    /\ Goto(p, "catch")
    /\ UNCHANGED <<file, used, service, records, outcome>>

-----------------------------------------------------------------------------
\* apply and readiness, of the candidate, of the swapped file or of the old one.

Applied(p) == IF proc[p].stage = "candidate-readiness" THEN Candidate(proc[p].old) ELSE Current

\* ALTER ROLE, with the content of the file.
AlterRole(p) ==
    /\ proc[p].pc = "apply"
    /\ Valid(Applied(p))
    /\ db' = file[Applied(p)]
    /\ Goto(p, "deploy")
    /\ UNCHANGED <<file, used, app, records, outcome, faults>>

\* readValue throws.
SecretUnsafe(p) ==
    /\ proc[p].pc = "apply"
    /\ ~Valid(Applied(p))
    /\ Throws(p)
    /\ UNCHANGED <<file, used, service, records, outcome, faults>>

\* The command fails, having changed the role or not.
AlterFails(p) ==
    /\ CallFault(p)
    /\ proc[p].pc = "apply"
    /\ Valid(Applied(p))
    /\ db' \in {db, file[Applied(p)]}
    /\ Throws(p)
    /\ UNCHANGED <<file, used, app, records, outcome>>

\* deploy, and readiness unless this is the rollback.
Deploy(p) ==
    /\ proc[p].pc = "deploy"
    /\ app' = Applied(p)
    /\ Goto(p, IF proc[p].stage = "rollback" THEN "write-set" ELSE "record")
    /\ UNCHANGED <<file, used, db, records, outcome, faults>>

DeployFails(p) ==
    /\ CallFault(p)
    /\ proc[p].pc = "deploy"
    /\ app' \in {app, Applied(p)}
    /\ Throws(p)
    /\ UNCHANGED <<file, used, db, records, outcome>>

-----------------------------------------------------------------------------
\* The swap.

\* Mutant: the current file is replaced without a retained link.
LinkNothing(p) ==
    /\ proc[p].pc = "link"
    /\ Goto(p, "rename")
    /\ UNCHANGED <<file, used, service, records, outcome, faults>>

Link(p) ==
    LET q == Retained(proc[p].old)
    IN  /\ proc[p].pc = "link"
        /\ file[q] = Absent
        /\ file' = [file EXCEPT ![q] = file[Current]]
        /\ Goto(p, "rename")
        /\ UNCHANGED <<used, service, records, outcome, faults>>

Move(from, to) == file' = [file EXCEPT ![to] = file[from], ![from] = Absent]

RenameCandidate(p) ==
    /\ proc[p].pc = "rename"
    /\ Move(Candidate(proc[p].old), Current)
    /\ proc' = [proc EXCEPT ![p].pc = "sync", ![p].swapped = TRUE]
    /\ UNCHANGED <<used, service, records, outcome, faults>>

SyncDirectory(p) ==
    /\ proc[p].pc = "sync"
    /\ Goto(p, "record")
    /\ UNCHANGED <<file, used, service, records, outcome, faults>>

\* The current file gets its old name again: there is no current file then.
Unswap(p) ==
    /\ proc[p].pc = "unswap"
    /\ Move(Current, Candidate(proc[p].old))
    /\ proc' = [proc EXCEPT ![p].pc = "unlink", ![p].swapped = FALSE]
    /\ UNCHANGED <<used, service, records, outcome, faults>>

UnlinkRetained(p) ==
    /\ proc[p].pc = "unlink"
    /\ file' = [file EXCEPT ![Retained(proc[p].old)] = Absent]
    /\ Throws(p)
    /\ UNCHANGED <<used, service, records, outcome, faults>>

SwapFails(p) ==
    /\ Fault
    /\ CASE proc[p].pc = "link" -> Throws(p)
         [] proc[p].pc = "rename" -> Goto(p, "unlink")
         [] proc[p].pc = "sync" -> Goto(p, "unswap")
         [] proc[p].pc \in {"unswap", "unlink"} -> Throws(p)
         [] OTHER -> FALSE
    /\ UNCHANGED <<file, used, service, records, outcome>>

-----------------------------------------------------------------------------
\* publish, and the part of rollback that restores what it has written.

\* Mutant: the rollback forgets the identity.
NewSecretForgotten(p) == IF proc[p].stage = "rollback" THEN Absent ELSE proc[p].fresh

NewSecret(p) == IF proc[p].stage = "rollback" THEN proc[p].old ELSE proc[p].fresh

NewOwnership(p) ==
    IF proc[p].stage = "rollback" THEN proc[p].seen
    ELSE [proc[p].seen EXCEPT !.secret = proc[p].fresh, !.retained = @ \cup {proc[p].old}]

WriteSecretSet(p) ==
    /\ proc[p].pc = "write-set"
    /\ published' = NewSecret(p)
    /\ Goto(p, "write-ownership")
    /\ UNCHANGED <<file, used, service, ownership, outcome, faults>>

WriteOwnership(p) ==
    /\ proc[p].pc = "write-ownership"
    /\ ownership' = NewOwnership(p)
    /\ Goto(p, IF proc[p].stage = "rollback" THEN "discard" ELSE "record")
    /\ UNCHANGED <<file, used, service, published, outcome, faults>>

\* atomicWriteJson throws before it has replaced the file, or after.
PublishFails(p) ==
    /\ Fault
    /\ \/ /\ proc[p].pc = "write-set"
          /\ published' \in {published, NewSecret(p)}
          /\ UNCHANGED ownership
       \/ /\ proc[p].pc = "write-ownership"
          /\ ownership' \in {ownership, NewOwnership(p)}
          /\ UNCHANGED published
    /\ Throws(p)
    /\ UNCHANGED <<file, used, service, outcome>>

-----------------------------------------------------------------------------
\* The rollback.

StartRollback(p) ==
    /\ proc[p].pc = "thrown" /\ proc[p].stage # "candidate"
    /\ proc' = [proc EXCEPT ![p].stage = "rollback",
                            ![p].pc = IF proc[p].swapped THEN "restore" ELSE "apply"]
    /\ UNCHANGED <<file, used, service, records, outcome, faults>>

RestoreCandidate(p) ==
    /\ proc[p].pc = "restore"
    /\ Move(Current, Candidate(proc[p].old))
    /\ Goto(p, "restoring")
    /\ UNCHANGED <<used, service, records, outcome, faults>>

RestoreCurrent(p) ==
    /\ proc[p].pc = "restoring"
    /\ Move(Retained(proc[p].old), Current)
    /\ proc' = [proc EXCEPT ![p].pc = "apply", ![p].swapped = FALSE]
    /\ UNCHANGED <<used, service, records, outcome, faults>>

DiscardCandidate(p) ==
    /\ proc[p].pc = "discard"
    /\ file' = [file EXCEPT ![Candidate(proc[p].old)] = Absent]
    /\ Goto(p, "compensate")
    /\ UNCHANGED <<used, service, records, outcome, faults>>

\* "application rollback requires recovery".
RollbackFails(p) ==
    /\ Fault
    /\ proc[p].pc \in {"restore", "restoring", "discard"}
    /\ Goto(p, "catch")
    /\ UNCHANGED <<file, used, service, records, outcome>>

\* The synchronization after the second rename fails.
RestoreNotSynced(p) ==
    /\ Fault
    /\ proc[p].pc = "restoring"
    /\ Move(Retained(proc[p].old), Current)
    /\ proc' = [proc EXCEPT ![p].pc = "catch", ![p].swapped = FALSE]
    /\ UNCHANGED <<used, service, records, outcome>>

RecordRollback(p) ==
    /\ proc[p].pc = "compensate"
    /\ Goto(p, "catch")
    /\ UNCHANGED <<file, used, service, records, outcome, faults>>

-----------------------------------------------------------------------------
\* The end.

End(p, r, asks) ==
    /\ holder' = None
    /\ report' = r
    /\ interrupted' = (interrupted \/ asks)
    /\ Reset(p)

CommitRotation(p) ==
    /\ proc[p].pc = "intend" /\ proc[p].stage = "done"
    /\ End(p, "success", FALSE)
    /\ UNCHANGED <<file, used, service, records, faults>>

\* Mutant: a rotation that has failed asks for no recovery.
AsksNever(p) == FALSE

\* journalNeedsRecovery, once the last word is written.
Asks(p) == proc[p].incomplete

\* The last word may be lost, and the journal then asks for recovery; a commit
\* whose append failed may be in the file, and then it does not.
Fail(p) ==
    /\ proc[p].pc = "catch"
    /\ \E asks \in BOOLEAN :
          /\ Asks(p) /\ proc[p].stage # "done" => asks
          /\ End(p, IF proc[p].incomplete THEN "recovery-required" ELSE "failed", asks)
    /\ UNCHANGED <<file, used, service, records, faults>>

\* The first append is outside the try.
BeginFails(p) ==
    /\ Fault
    /\ proc[p].pc = "begun"
    /\ \E asks \in BOOLEAN : End(p, "failed", asks)
    /\ UNCHANGED <<file, used, service, records>>

\* SIGINT or SIGTERM.
Abort(p) ==
    /\ Fault
    /\ holder = p /\ ~proc[p].aborted
    /\ proc' = [proc EXCEPT ![p].aborted = TRUE]
    /\ UNCHANGED <<file, used, service, records, outcome>>

\* The process dies.  Its journal says so, unless it is empty.
Crash(p) ==
    /\ Fault
    /\ holder = p
    /\ \E asks \in BOOLEAN : (proc[p].pc # "begun" => asks) /\ End(p, "none", asks)
    /\ UNCHANGED <<file, used, service, records>>

-----------------------------------------------------------------------------
Command(p) ==
    \/ ReadOwnership(p) \/ ReadSecretSet(p) \/ AcquireOperation(p) \/ LockRefused(p)
    \/ BeginRotation(p) \/ CheckState(p) \/ ChangeOtherAsset(p)
    \/ CommitRotation(p) \/ Fail(p)

Effect(p) ==
    \/ IntendEffect(p) \/ RecordEffect(p) \/ RecordUnproven(p)
    \/ CreateCandidate(p) \/ CandidateExists(p) \/ WriteCandidate(p) \/ DropCandidate(p)
    \/ AlterRole(p) \/ SecretUnsafe(p) \/ Deploy(p)
    \/ Link(p) \/ RenameCandidate(p) \/ SyncDirectory(p) \/ Unswap(p) \/ UnlinkRetained(p)
    \/ WriteSecretSet(p) \/ WriteOwnership(p)

Rollback(p) ==
    \/ StartRollback(p) \/ RestoreCandidate(p) \/ RestoreCurrent(p)
    \/ DiscardCandidate(p) \/ RecordRollback(p)

Breaks(p) ==
    \/ AppendFails(p) \/ RecordFails(p) \/ WriteFails(p) \/ DropFails(p)
    \/ AlterFails(p) \/ DeployFails(p) \/ SwapFails(p) \/ PublishFails(p)
    \/ RollbackFails(p) \/ RestoreNotSynced(p)
    \/ BeginFails(p) \/ Abort(p) \/ Crash(p)

Next == \E p \in Procs : Command(p) \/ Effect(p) \/ Rollback(p) \/ Breaks(p)

Spec == Init /\ [][Next]_vars

-----------------------------------------------------------------------------
(***************************************************************************)
(* Properties                                                              *)
(***************************************************************************)
\* Every file, record and process is well formed.
TypeOK ==
    /\ file \in [Paths -> Contents]
    /\ used \subseteq Secrets
    /\ db \in Secrets
    /\ app \in Paths
    /\ published \in Secrets
    /\ ownership \in Ownership
    /\ holder \in Procs \cup {None}
    /\ interrupted \in BOOLEAN
    /\ report \in {"none", "success", "failed", "recovery-required"}
    /\ proc \in [Procs -> Process]
    /\ faults \in Nat

OnDisk(s) == \E q \in Paths : file[q] = s

\* The password that PostgreSQL wants is always in some file: no failure,
\* crash, rollback or retry removes the last copy of it.
DatabasePasswordIsKept == OnDisk(db)

\* Files, database, application and both records agree, and every retained
\* secret that the installation owns is where the record says.
Consistent ==
    /\ file[Current] = db /\ db = published /\ published = ownership.secret
    /\ app = Current
    /\ \A s \in ownership.retained : file[Retained(s)] = s

\* A rotation that reports success has left everything consistent, whatever
\* had gone wrong in the rotations before it.
SuccessIsComplete == holder = None /\ report = "success" => Consistent

\* Unless a journal asks for recovery, everything is consistent while no
\* command runs.
DisagreementIsRecorded == holder = None /\ ~interrupted => Consistent

\* No step removes the last file of the published secret, but one: after a
\* swap that could not be synchronized the retained name goes, and with it the
\* secret, since the candidate had taken its only other name.
PublishedIsKept ==
    [][\A s \in Secrets :
          s = published /\ OnDisk(s) =>
              OnDisk(s)' \/ \E p \in Procs : proc[p].pc = "unlink" /\ file[Current] = Absent]_vars

\* A rotation writes back the ownership record that it has read before it had
\* the lock; what other commands have recorded meanwhile is not lost.
NoLostOwnership == [][ownership'.others >= ownership.others]_vars

-----------------------------------------------------------------------------
\* administrative-cli.md: the prior secret is retained until all consumers
\* pass readiness and a durable commit is written.
PriorSecretRetained == OnDisk(published)
=============================================================================
