-------------------------- MODULE OperationJournal --------------------------
(***************************************************************************)
(* The operation journals of the self-hosted installation: what            *)
(* src/onboarding/domain/operation-journal.ts writes around every effect   *)
(* of an administrative command, and how the commands of                   *)
(* src/onboarding/application/production-lifecycle.ts and production-      *)
(* setup.ts use it; src/onboarding/application/recovery.ts, which reads    *)
(* the journals that an interruption left behind; and the installation     *)
(* lock.                                                                   *)
(*                                                                         *)
(* A process runs one command at a time.  A command that changes something *)
(* takes the lock, creates a journal, and runs its effects one after the   *)
(* other, each between an intent and a verification.  Every append is      *)
(* written and synced before the process goes on; it may fail, and the     *)
(* process may die anywhere, an append half written included.  The lock is *)
(* a kernel lock of a child process that ends with its parent.             *)
(***************************************************************************)
EXTENDS Integers, Sequences, FiniteSets, SequencesExt

CONSTANTS
    Procs,      \* processes that run administrative commands
    None,       \* no process
    Steps,      \* bound: effects of an operation
    Changes,    \* numbers of effects that a setup or a change may have
    Repairs,    \* numbers of effects that a repair may have
    MaxOps,     \* bound: operations, each with a journal of its own
    MaxFaults,  \* bound: crashes, failed effects and appends, cancellations
    Exact       \* whether recovery can tell the state of an effect: what
                \* recoverOperation is written for, but not what
                \* repairOperation gives it ("ambiguous", always)

ASSUME BoundsAssumption ==
    /\ Steps \in Nat \ {0}
    /\ MaxOps \in Nat
    /\ MaxFaults \in Nat
    /\ Exact \in BOOLEAN
    /\ Changes \subseteq 1 .. Steps
    /\ Repairs \subseteq 0 .. Steps

ASSUME NobodyAssumption == None \notin Procs

VARIABLES
    journal,    \* the lines of each operation's journal file
    damaged,    \* the file has a line that open rejects
    world,      \* how far each effect of an operation has come
    op,         \* the operations: command, effects, and what was reported
    holder,     \* the process that holds the installation lock
    proc,       \* where each process is
    faults      \* faults so far

vars == <<journal, damaged, world, op, holder, proc, faults>>

Ops == 1 .. MaxOps
Effects == 1 .. Steps
Command == 0    \* the step of an entry that is about the whole command

Phases == {"intent", "effect", "verify", "compensate", "commit", "cancel"}
Notes == {"none", "unproven", "settled", "success", "recovered", "failed",
          "recovery-required", "cancelled"}

Line == [phase : Phases, step : Effects \cup {Command}, note : Notes]
Entry(phase, step, note) == [phase |-> phase, step |-> step, note |-> note]

Operation == [command : {"none", "setup", "change", "repair"},
              effects : 0 .. Steps,
              report : {"none", "success", "failed", "recovery-required"},
              unrecorded : BOOLEAN]

Pcs == {"idle", "scanned", "begun", "effect", "intended", "acting", "acted",
        "recorded", "unproven", "not-started", "catch",
        "next", "examine", "settle", "adopt", "adopted", "blocked"}

Process == [pc : Pcs, op : Ops \cup {0}, step : 0 .. Steps + 1, aborted : BOOLEAN,
            mem : Seq(Line), scan : SUBSET Ops, target : Ops \cup {0},
            todo : SUBSET (Effects \cup {Command})]

Idle == [pc |-> "idle", op |-> 0, step |-> 0, aborted |-> FALSE, mem |-> <<>>,
         scan |-> {}, target |-> 0, todo |-> {}]

Init ==
    /\ journal = [o \in Ops |-> <<>>]
    /\ damaged = [o \in Ops |-> FALSE]
    /\ world = [o \in Ops |-> [k \in Effects |-> "absent"]]
    /\ op = [o \in Ops |-> [command |-> "none", effects |-> 0, report |-> "none",
                            unrecorded |-> FALSE]]
    /\ holder = None
    /\ proc = [p \in Procs |-> Idle]
    /\ faults = 0

Fault == faults < MaxFaults /\ faults' = faults + 1

-----------------------------------------------------------------------------
\* What a journal says.

Opens(e) == e.phase = "effect" \/ (e.phase = "compensate" /\ e.note = "unproven")
Settles(e) == e.phase = "compensate" /\ e.note # "unproven"

\* Mutant: only effects that were recorded count.
UnresolvedEffectsOnly(J) ==
    {k \in Effects \cup {Command} :
        \E i \in DOMAIN J :
            /\ J[i].phase = "effect" /\ J[i].step = k
            /\ \A j \in i + 1 .. Len(J) :
                  ~(Settles(J[j]) /\ J[j].step = k) /\ J[j].phase # "commit"}

\* unresolvedEffectBoundaries: an effect line, or an unproven compensation,
\* that no later compensation of the step settles.
Unresolved(J) ==
    {k \in Effects \cup {Command} :
        \E i \in DOMAIN J :
            /\ Opens(J[i]) /\ J[i].step = k
            /\ \A j \in i + 1 .. Len(J) :
                  ~(Settles(J[j]) /\ J[j].step = k) /\ J[j].phase # "commit"}

\* hasUnprovenEffect.
HasUnproven(J) ==
    \E i \in DOMAIN J :
        /\ J[i].phase = "compensate" /\ J[i].note = "unproven"
        /\ \A j \in i + 1 .. Len(J) : ~(Settles(J[j]) /\ J[j].step = J[i].step)

\* Mutant: an effect that is verified is not incomplete.
HasOnlyUnproven(J) == HasUnproven(J)

\* hasIncompleteMutation: like unresolvedEffectBoundaries, commits disregarded.
HasIncomplete(J) ==
    \E i \in DOMAIN J :
        /\ Opens(J[i])
        /\ \A j \in i + 1 .. Len(J) : ~(Settles(J[j]) /\ J[j].step = J[i].step)

\* journalNeedsRecovery.
NeedsRecovery(J) ==
    /\ J # <<>>
    /\ Last(J).phase # "commit"
    /\ Last(J).phase = "cancel" =>
          Last(J).note = "recovery-required" \/ Unresolved(J) # {}

\* The checks of append.
MayAppend(J, e) ==
    LET last == IF J = <<>> THEN Entry("none", 0, "none") ELSE Last(J)
        resuming == /\ last.phase = "cancel"
                    /\ last.note \in {"failed", "recovery-required"}
                    /\ e.phase = "compensate"
        recovered == /\ e.note = "recovered"
                     /\ last.phase = "compensate" /\ last.note # "unproven"
    IN  /\ last.phase # "commit"
        /\ last.phase = "cancel" => resuming
        /\ e.phase = "effect" => last.phase = "intent" /\ last.step = e.step
        /\ e.phase = "verify" => last.phase = "effect" /\ last.step = e.step
        /\ e.phase = "commit" =>
              /\ recovered \/ \E i \in DOMAIN J : J[i].phase = "verify"
              /\ e.note = "success" => last.phase = "verify"

\* The line reaches the file.  A writer that has missed a line of its own (its
\* sync failed) repeats a sequence number, which open rejects.
Written(o, mem, e) ==
    /\ journal' = [journal EXCEPT ![o] = Append(@, e)]
    /\ damaged' = [damaged EXCEPT ![o] = @ \/ Len(journal[o]) # Len(mem)]

\* The append throws: no byte was written, or the line is whole but its sync
\* failed, or the disk took a part of it.
NotWritten(o, mem, e) ==
    \/ UNCHANGED <<journal, damaged>>
    \/ Written(o, mem, e)
    \/ UNCHANGED journal /\ damaged' = [damaged EXCEPT ![o] = TRUE]

-----------------------------------------------------------------------------
\* A process.

Goto(p, pc) == proc' = [proc EXCEPT ![p].pc = pc]

\* Appends e to the journal of the process's own operation and goes on at pc.
Log(p, e, pc) ==
    /\ MayAppend(proc[p].mem, e)
    /\ Written(proc[p].op, proc[p].mem, e)
    /\ proc' = [proc EXCEPT ![p].mem = Append(@, e), ![p].pc = pc]

\* The command ends: the lock is released, and the administrator is told r.
End(p, r) ==
    /\ holder' = None
    /\ proc' = [proc EXCEPT ![p] = Idle]
    /\ op' = [op EXCEPT ![proc[p].op].report = r]

\* journalsRequiringRecovery, which repair calls before it has the lock; a
\* file that cannot be opened makes it throw.
ScanJournals(p) ==
    /\ proc[p].pc = "idle"
    /\ \A o \in Ops : ~damaged[o]
    /\ proc' = [proc EXCEPT ![p].pc = "scanned",
                            ![p].scan = {o \in Ops : NeedsRecovery(journal[o])}]
    /\ UNCHANGED <<journal, damaged, world, op, holder, faults>>

\* acquireOperation: the lock, then an empty journal.
AcquireOperation(p, o, c, n) ==
    /\ holder = None
    /\ op[o].command = "none" /\ \A q \in Ops : q < o => op[q].command # "none"
    /\ holder' = p
    /\ op' = [op EXCEPT ![o].command = c, ![o].effects = n]
    /\ proc' = [proc EXCEPT ![p].pc = "begun", ![p].op = o, ![p].step = 1]
    /\ UNCHANGED <<journal, damaged, world, faults>>

StartCommand(p) ==
    /\ proc[p].pc = "idle"
    /\ \E o \in Ops, c \in {"setup", "change"}, n \in Changes :
          AcquireOperation(p, o, c, n)

\* Mutant: a repair does not wait for the lock.
RepairUnlocked(p) ==
    /\ proc[p].pc = "scanned"
    /\ \E o \in Ops :
          /\ op[o].command = "none" /\ \A q \in Ops : q < o => op[q].command # "none"
          /\ holder' = p
          /\ op' = [op EXCEPT ![o].command = "repair"]
          /\ proc' = [proc EXCEPT ![p].pc = "begun", ![p].op = o, ![p].step = 1]
    /\ UNCHANGED <<journal, damaged, world, faults>>

\* A repair may find nothing to do besides the interrupted operations.
StartRepair(p) ==
    /\ proc[p].pc = "scanned"
    /\ \E o \in Ops, n \in Repairs : AcquireOperation(p, o, "repair", n)

\* The lock is held by a live process.
LockRefused(p) ==
    /\ proc[p].pc = "scanned"
    /\ holder # None
    /\ proc' = [proc EXCEPT ![p] = Idle]
    /\ UNCHANGED <<journal, damaged, world, op, holder, faults>>

BeginCommand(p) ==
    /\ proc[p].pc = "begun"
    /\ Log(p, Entry("intent", Command, "none"),
           IF op[proc[p].op].command = "repair" THEN "next" ELSE "effect")
    /\ UNCHANGED <<world, op, holder, faults>>

-----------------------------------------------------------------------------
\* runEffect.

\* Mutant: one effect too many.
MoreByOne(p) == proc[p].step <= op[proc[p].op].effects + 1

More(p) == proc[p].step <= op[proc[p].op].effects

IntendEffect(p) ==
    /\ proc[p].pc = "effect" /\ More(p)
    /\ Log(p, Entry("intent", proc[p].step, "none"), "intended")
    /\ UNCHANGED <<world, op, holder, faults>>

\* Aborted between the intent and the action: nothing else is recorded.
CancelledBeforeEffect(p) ==
    /\ proc[p].pc = "intended" /\ proc[p].aborted
    /\ Goto(p, "catch")
    /\ UNCHANGED <<journal, damaged, world, op, holder, faults>>

\* The action throws before it has changed anything, and the caller can tell
\* (effectNotStarted) or not.
ActionNotStarted(p) ==
    /\ Fault
    /\ proc[p].pc = "intended" /\ ~proc[p].aborted
    /\ \E pc \in {"not-started", "unproven"} : Goto(p, pc)
    /\ UNCHANGED <<journal, damaged, world, op, holder>>

World(p, state) == world' = [world EXCEPT ![proc[p].op][proc[p].step] = state]

StartAction(p) ==
    /\ proc[p].pc = "intended" /\ ~proc[p].aborted
    /\ World(p, "partial")
    /\ Goto(p, "acting")
    /\ UNCHANGED <<journal, damaged, op, holder, faults>>

FinishAction(p) ==
    /\ proc[p].pc = "acting"
    /\ World(p, "done")
    /\ Goto(p, "acted")
    /\ UNCHANGED <<journal, damaged, op, holder, faults>>

\* The action throws half way, or after it has done everything.
ActionFails(p) ==
    /\ Fault
    /\ proc[p].pc = "acting"
    /\ \E state \in {"partial", "done"} : World(p, state)
    /\ Goto(p, "unproven")
    /\ UNCHANGED <<journal, damaged, op, holder>>

RecordEffect(p) ==
    /\ proc[p].pc = "acted"
    /\ Log(p, Entry("effect", proc[p].step, "none"), "recorded")
    /\ UNCHANGED <<world, op, holder, faults>>

VerifyEffect(p) ==
    LET e == Entry("verify", proc[p].step, "none")
    IN  /\ proc[p].pc = "recorded"
        /\ MayAppend(proc[p].mem, e)
        /\ Written(proc[p].op, proc[p].mem, e)
        /\ proc' = [proc EXCEPT ![p].mem = Append(@, e), ![p].pc = "effect",
                                ![p].step = @ + 1]
        /\ UNCHANGED <<world, op, holder, faults>>

\* Mutant: runEffect swallows the error of an action.
UnprovenSwallowed(p) ==
    /\ proc[p].pc = "unproven"
    /\ proc' = [proc EXCEPT ![p].pc = "effect", ![p].step = @ + 1]
    /\ UNCHANGED <<journal, damaged, world, op, holder, faults>>

RecordUnproven(p) ==
    /\ proc[p].pc = "unproven"
    /\ Log(p, Entry("compensate", proc[p].step, "unproven"), "catch")
    /\ UNCHANGED <<world, op, holder, faults>>

RecordNotStarted(p) ==
    /\ proc[p].pc = "not-started"
    /\ Log(p, Entry("compensate", proc[p].step, "settled"), "catch")
    /\ UNCHANGED <<world, op, holder, faults>>

-----------------------------------------------------------------------------
\* The end of a command.

Success == Entry("commit", Command, "success")

CommitSuccess(p) ==
    /\ proc[p].pc = "effect" /\ ~More(p)
    /\ MayAppend(proc[p].mem, Success)
    /\ Written(proc[p].op, proc[p].mem, Success)
    /\ End(p, "success")
    /\ UNCHANGED <<world, faults>>

\* A repair without an action has nothing verified to report.
CommitRefused(p) ==
    /\ proc[p].pc = "effect" /\ ~More(p)
    /\ ~MayAppend(proc[p].mem, Success)
    /\ Goto(p, "catch")
    /\ UNCHANGED <<journal, damaged, world, op, holder, faults>>

\* What the catch block of the command writes.
LastWord(p) ==
    LET unproven == HasUnproven(proc[p].mem)
    IN  CASE op[proc[p].op].command # "setup" ->
               Entry("cancel", Command, IF unproven THEN "recovery-required" ELSE "failed")
          [] op[proc[p].op].command = "setup" /\ proc[p].aborted ->
               Entry("cancel", Command, IF unproven THEN "recovery-required" ELSE "cancelled")
          [] OTHER -> Entry("compensate", Command, "recovery-required")

\* failure: what the administrator is told depends on the lines in memory.
\* Setup words its report without the journal.
FailureReport(p) ==
    IF op[proc[p].op].command = "setup" THEN "none"
    ELSE IF HasIncomplete(proc[p].mem) THEN "recovery-required" ELSE "failed"

Fail(p) ==
    /\ proc[p].pc = "catch"
    /\ MayAppend(proc[p].mem, LastWord(p))
    /\ Written(proc[p].op, proc[p].mem, LastWord(p))
    /\ End(p, FailureReport(p))
    /\ UNCHANGED <<world, faults>>

-----------------------------------------------------------------------------
\* Recovery of the interrupted operations, at the start of a repair.

\* Every one the scan has found is opened again under the lock.
NextInterrupted(p) ==
    /\ proc[p].pc = "next"
    /\ \E o \in proc[p].scan :
          CASE damaged[o] -> Goto(p, "catch")
            [] ~damaged[o] /\ NeedsRecovery(journal[o]) ->
                  proc' = [proc EXCEPT ![p].scan = @ \ {o}, ![p].target = o, ![p].pc = "examine"]
            [] OTHER -> proc' = [proc EXCEPT ![p].scan = @ \ {o}]
    /\ UNCHANGED <<journal, damaged, world, op, holder, faults>>

AllExamined(p) ==
    /\ proc[p].pc = "next" /\ proc[p].scan = {}
    /\ Goto(p, "effect")
    /\ UNCHANGED <<journal, damaged, world, op, holder, faults>>

\* The steps that recoverOperation observes: the unresolved ones, or else the
\* step of an intent that is the last line.
Observed(J) ==
    IF Unresolved(J) # {} THEN Unresolved(J)
    ELSE IF Last(J).phase = "intent" THEN {Last(J).step} ELSE {}

State(o, k) == IF k = Command THEN "absent" ELSE world[o][k]

\* Nothing is left to observe, or all of it can be told.
Examine(p) ==
    LET o == proc[p].target
        J == journal[o]
        K == Observed(J)
    IN  /\ proc[p].pc = "examine" /\ ~proc[p].aborted
        /\ K # {} => Exact
        /\ K = {} => Last(J).phase # "cancel"
        /\ proc' = [proc EXCEPT ![p].todo = K,
                                ![p].pc = IF Unresolved(J) = {} /\ \E k \in K : State(o, k) = "done"
                                          THEN "adopt" ELSE "settle"]
        /\ UNCHANGED <<journal, damaged, world, op, holder, faults>>

\* An effect cannot be told, or the cancelled journal names none: recovery is
\* required, and the repair gives up.
ExamineBlocked(p) ==
    /\ proc[p].pc = "examine" /\ ~proc[p].aborted
    /\ Observed(journal[proc[p].target]) = {} => Last(journal[proc[p].target]).phase = "cancel"
    /\ Goto(p, "blocked")
    /\ UNCHANGED <<journal, damaged, world, op, holder, faults>>

RepairStops(p) ==
    LET e == Entry("cancel", Command, "failed")
    IN  /\ proc[p].pc = "blocked"
        /\ Written(proc[p].op, proc[p].mem, e)
        /\ End(p, "recovery-required")
        /\ UNCHANGED <<world, faults>>

\* requireActiveRecovery.
RecoveryCancelled(p) ==
    /\ proc[p].pc = "examine" /\ proc[p].aborted
    /\ Goto(p, "catch")
    /\ UNCHANGED <<journal, damaged, world, op, holder, faults>>

\* The boundary that is settled first is the one opened last.
IsLatest(J, K, k) ==
    \E i \in DOMAIN J : J[i].step = k /\ \A j \in i + 1 .. Len(J) : J[j].step \notin K

\* The boundary to settle next whose effect is there in part.
Remnants(p) ==
    {k \in proc[p].todo :
        /\ proc[p].pc = "settle"
        /\ IsLatest(journal[proc[p].target], proc[p].todo, k)
        /\ State(proc[p].target, k) = "partial"}

\* compensate undoes it.
UndoEffect(p) ==
    /\ \E k \in Remnants(p) : world' = [world EXCEPT ![proc[p].target][k] = "absent"]
    /\ UNCHANGED <<journal, damaged, op, holder, proc, faults>>

UndoFails(p) ==
    /\ Fault
    /\ Remnants(p) # {}
    /\ Goto(p, "catch")
    /\ UNCHANGED <<journal, damaged, world, op, holder>>

\* The line that recovery writes next, if it does.
RecoveryLines(p) ==
    CASE proc[p].pc = "adopt" -> {Entry("effect", k, "none") : k \in proc[p].todo}
      [] proc[p].pc = "adopted" -> {Entry("verify", k, "none") : k \in proc[p].todo}
      [] proc[p].pc = "settle" /\ proc[p].todo # {} ->
            {Entry("compensate", k, "settled") :
                k \in {q \in proc[p].todo \ Remnants(p) :
                          IsLatest(journal[proc[p].target], proc[p].todo, q)}}
      [] proc[p].pc = "settle" /\ proc[p].todo = {} -> {Entry("commit", Command, "recovered")}
      [] OTHER -> {}

RecordRecovery(p) ==
    \E e \in RecoveryLines(p) :
        /\ MayAppend(journal[proc[p].target], e)
        /\ Written(proc[p].target, journal[proc[p].target], e)
        /\ proc' = [proc EXCEPT
               ![p].todo = IF e.phase = "effect" THEN @ ELSE @ \ {e.step},
               ![p].target = IF e.phase = "commit" THEN 0 ELSE @,
               ![p].pc = CASE e.phase = "effect" -> "adopted"
                           [] e.phase = "commit" -> "next"
                           [] OTHER -> "settle"]
        /\ UNCHANGED <<world, op, holder, faults>>

RecoveryRefused(p) ==
    /\ \E e \in RecoveryLines(p) : ~MayAppend(journal[proc[p].target], e)
    /\ Goto(p, "catch")
    /\ UNCHANGED <<journal, damaged, world, op, holder, faults>>

-----------------------------------------------------------------------------
\* What goes wrong.

\* The line of its own journal that a process writes next, if it does.
Upcoming(p) ==
    CASE proc[p].pc = "begun" -> {Entry("intent", Command, "none")}
      [] proc[p].pc = "effect" /\ More(p) -> {Entry("intent", proc[p].step, "none")}
      [] proc[p].pc = "effect" /\ ~More(p) -> {Success}
      [] proc[p].pc = "acted" -> {Entry("effect", proc[p].step, "none")}
      [] proc[p].pc = "recorded" -> {Entry("verify", proc[p].step, "none")}
      [] proc[p].pc = "unproven" -> {Entry("compensate", proc[p].step, "unproven")}
      [] proc[p].pc = "not-started" -> {Entry("compensate", proc[p].step, "settled")}
      [] proc[p].pc = "blocked" -> {Entry("cancel", Command, "failed")}
      [] proc[p].pc = "catch" -> {LastWord(p)}
      [] OTHER -> {}

\* An append throws.  The first one is outside the try of every command but
\* setup; runEffect takes it for a failure of the effect once the action has
\* run; a failed last word is not heard of.
AppendFails(p) ==
    /\ Fault
    /\ \E e \in Upcoming(p) :
          /\ MayAppend(proc[p].mem, e)
          /\ NotWritten(proc[p].op, proc[p].mem, e)
    /\ CASE proc[p].pc = "begun" /\ op[proc[p].op].command # "setup" -> End(p, "failed")
         [] proc[p].pc = "catch" -> End(p, FailureReport(p))
         [] proc[p].pc \in {"acted", "recorded"} -> Goto(p, "unproven") /\ UNCHANGED <<holder, op>>
         [] proc[p].pc = "unproven" ->
               /\ Goto(p, "catch")
               /\ op' = [op EXCEPT ![proc[p].op].unrecorded = TRUE]
               /\ UNCHANGED holder
         [] OTHER -> Goto(p, "catch") /\ UNCHANGED <<holder, op>>
    /\ UNCHANGED world

RecoveryAppendFails(p) ==
    /\ Fault
    /\ \E e \in RecoveryLines(p) :
          /\ MayAppend(journal[proc[p].target], e)
          /\ NotWritten(proc[p].target, journal[proc[p].target], e)
    /\ Goto(p, "catch")
    /\ UNCHANGED <<world, op, holder>>

\* SIGINT or SIGTERM.
Abort(p) ==
    /\ holder = p
    /\ ~proc[p].aborted
    /\ Fault
    /\ proc' = [proc EXCEPT ![p].aborted = TRUE]
    /\ UNCHANGED <<journal, damaged, world, op, holder>>

\* The process dies, and its lock with it; of a line that it was writing, a
\* part may be in the file.
Crash(p) ==
    /\ holder = p
    /\ Fault
    /\ \/ UNCHANGED damaged
       \/ /\ Upcoming(p) # {}
          /\ damaged' = [damaged EXCEPT ![proc[p].op] = TRUE]
       \/ /\ RecoveryLines(p) # {}
          /\ damaged' = [damaged EXCEPT ![proc[p].target] = TRUE]
    /\ holder' = None
    /\ proc' = [proc EXCEPT ![p] = Idle]
    /\ UNCHANGED <<journal, world, op>>

-----------------------------------------------------------------------------
RunEffect(p) ==
    \/ IntendEffect(p) \/ CancelledBeforeEffect(p) \/ ActionNotStarted(p)
    \/ StartAction(p) \/ FinishAction(p) \/ ActionFails(p)
    \/ RecordEffect(p) \/ VerifyEffect(p)
    \/ RecordUnproven(p) \/ RecordNotStarted(p)

Recovery(p) ==
    \/ NextInterrupted(p) \/ AllExamined(p)
    \/ Examine(p) \/ ExamineBlocked(p) \/ RepairStops(p) \/ RecoveryCancelled(p)
    \/ UndoEffect(p) \/ UndoFails(p) \/ RecordRecovery(p) \/ RecoveryRefused(p)

CommandStep(p) ==
    \/ ScanJournals(p) \/ StartCommand(p) \/ StartRepair(p) \/ LockRefused(p)
    \/ BeginCommand(p) \/ CommitSuccess(p) \/ CommitRefused(p) \/ Fail(p)

Breaks(p) == AppendFails(p) \/ RecoveryAppendFails(p) \/ Abort(p) \/ Crash(p)

Next == \E p \in Procs : CommandStep(p) \/ RunEffect(p) \/ Recovery(p) \/ Breaks(p)

Spec == Init /\ [][Next]_vars

-----------------------------------------------------------------------------
(***************************************************************************)
(* Properties                                                              *)
(***************************************************************************)
\* Every file, operation and process is well formed.
TypeOK ==
    /\ journal \in [Ops -> Seq(Line)]
    /\ damaged \in [Ops -> BOOLEAN]
    /\ world \in [Ops -> [Effects -> {"absent", "partial", "done"}]]
    /\ op \in [Ops -> Operation]
    /\ holder \in Procs \cup {None}
    /\ proc \in [Procs -> Process]
    /\ faults \in Nat

\* Nobody runs the operation any more.
Over(o) == op[o].command # "none" /\ \A p \in Procs : proc[p].op # o

\* An operation reported as a success has done all of its effects, and its
\* journal says so: an effect that failed, a lost line or a cancellation on the
\* way never ends in a success.
SuccessIsProven ==
    \A o \in Ops : op[o].report = "success" =>
        /\ Last(journal[o]) = Success
        /\ \A k \in 1 .. op[o].effects : world[o][k] = "done"

\* A step whose intent is the last line of it, in a journal with other effects
\* to settle: recoverOperation settles those and commits.
Overlooked(o, k) ==
    LET J == journal[o]
    IN  /\ Last(J) = Entry("commit", Command, "recovered")
        /\ \A i \in DOMAIN J : J[i].step = k => J[i].phase = "intent"
        /\ \E i \in DOMAIN J : Opens(J[i])

\* An effect that may be there in part is never forgotten: whatever has failed
\* or died, and however often recovery was interrupted, the journal asks for
\* recovery until the effect was settled, or cannot be read.  The exceptions
\* are those the code makes: runEffect could not write that the effect is
\* unproven, or recovery overlooks the intent.
NothingForgotten ==
    \A o \in Ops, k \in Effects :
        /\ Over(o)
        /\ world[o][k] = "partial"
        => \/ NeedsRecovery(journal[o])
           \/ damaged[o]
           \/ op[o].unrecorded
           \/ Overlooked(o, k)

\* A command that reports a plain failure has left nothing behind, unless it
\* could not write that an effect is unproven.
PlainFailureIsClean ==
    \A o \in Ops, k \in Effects :
        op[o].report = "failed" => world[o][k] = "absent" \/ op[o].unrecorded

\* A journal is written by the process that runs its operation and, once that
\* is over, by the repair that holds the lock, whenever it has read the journal.
OneWriter ==
    [][\A o \in Ops : journal'[o] # journal[o] =>
          \E p \in Procs :
             /\ holder = p
             /\ proc[p].op = o \/ (proc[p].target = o /\ Over(o))]_vars
=============================================================================
