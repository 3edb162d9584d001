----------------------- MODULE OperationJournalProofs -----------------------
(***************************************************************************)
(* Proofs about OperationJournal, for any set of processes and any number  *)
(* of operations, effects and faults.                                      *)
(***************************************************************************)
EXTENDS OperationJournal, TLAPS

(***************************************************************************)
(* The inductive invariant.                                                *)
(***************************************************************************)
Unlocked == {"idle", "scanned"}
Executing == {"intended", "acting", "acted", "recorded", "unproven", "not-started"}
Recovering == {"examine", "settle", "adopt", "adopted"}

\* A process without the lock has no operation.  One that holds it runs an
\* operation that is not reported yet and whose effects before the present one
\* are done; the operations it recovers are others.
ProcOK(x) ==
    /\ x.pc \in Unlocked => x.op = 0 /\ x.target = 0
    /\ x.pc \notin Unlocked =>
          /\ x.op \in Ops
          /\ op[x.op].command # "none"
          /\ op[x.op].report = "none"
          /\ x.step \in 1 .. op[x.op].effects + 1
          /\ x.pc \in Executing => x.step <= op[x.op].effects
          /\ \A k \in 1 .. op[x.op].effects : k < x.step => world[x.op][k] = "done"
          /\ x.pc \in {"acted", "recorded"} => world[x.op][x.step] = "done"
    /\ \A o \in x.scan : op[o].command # "none" /\ o # x.op
    /\ x.target # 0 => op[x.target].command # "none" /\ x.target # x.op
    /\ x.pc \in Recovering => x.target \in Ops /\ journal[x.target] # <<>>

LockOK == \A p \in Procs : proc[p].pc \notin Unlocked <=> holder = p

ProcsOK == \A p \in Procs : ProcOK(proc[p])

\* An operation that has not begun has nothing in its journal.
OpsOK ==
    \A o \in Ops : /\ op[o].command = "none" => journal[o] = <<>> /\ op[o].report = "none"
                   /\ op[o].report = "success" => journal[o] # <<>>

IInv == TypeOK /\ LockOK /\ ProcsOK /\ OpsOK /\ SuccessIsProven

\* What a step does to the files and to the effects of ended operations: it
\* writes no journal of an operation that has not begun or was a success.
Respects ==
    /\ journal' \in [Ops -> Seq(Line)]
    /\ damaged' \in [Ops -> BOOLEAN]
    /\ world' \in [Ops -> [Effects -> {"absent", "partial", "done"}]]
    /\ \A o \in Ops : op[o].command = "none" => journal'[o] = journal[o]
    /\ \A o \in Ops : op[o].report = "success" => journal'[o] = journal[o]
    /\ \A o \in Ops, k \in Effects :
          op[o].report = "success" /\ world[o][k] = "done" => world'[o][k] = "done"

LEMMA IdleType == Idle \in Process
<1>1. <<>> \in Seq(Line) /\ 0 \in 0 .. Steps + 1
  BY BoundsAssumption
<1> QED
  BY <1>1 DEF Idle, Process, Pcs

LEMMA EffectsOfOperation ==
    ASSUME op \in [Ops -> Operation]
    PROVE  \A o \in Ops : 1 .. op[o].effects \subseteq Effects
<1>1. \A o \in Ops : op[o].effects \in 0 .. Steps
  BY DEF Operation
<1> QED
  BY <1>1, BoundsAssumption DEF Effects

\* Of a process that holds the lock.
LEMMA Holding ==
    ASSUME IInv, NEW p \in Procs, proc[p].pc \notin Unlocked
    PROVE  /\ holder = p
           /\ proc[p].op \in Ops
           /\ op[proc[p].op].command # "none"
           /\ op[proc[p].op].report = "none"
           /\ op[proc[p].op].effects \in 0 .. Steps
           /\ proc[p].step \in 1 .. op[proc[p].op].effects + 1
           /\ proc[p].pc \in Executing => proc[p].step \in Effects
           /\ More(p) => proc[p].step \in Effects
<1>1. holder = p /\ ProcOK(proc[p])
  BY DEF IInv, LockOK, ProcsOK
<1>2. op[proc[p].op].effects \in 0 .. Steps
  BY <1>1 DEF ProcOK, IInv, TypeOK, Operation
<1>3. proc[p].step \in 1 .. op[proc[p].op].effects + 1
  BY <1>1 DEF ProcOK
<1>4. More(p) => proc[p].step \in Effects
  BY <1>2, <1>3, BoundsAssumption DEF More, Effects
<1>5. proc[p].pc \in Executing => proc[p].step <= op[proc[p].op].effects
  BY <1>1 DEF ProcOK
<1> QED
  BY <1>1, <1>2, <1>3, <1>4, <1>5 DEF ProcOK, More

\* A process that keeps the lock, and its operation, through its step.
LEMMA HeldStep ==
    ASSUME IInv, NEW p \in Procs, proc[p].pc \notin Unlocked,
           proc' \in [Procs -> Process],
           \A q \in Procs : q # p => proc'[q] = proc[q],
           proc'[p].pc \notin Unlocked,
           proc'[p].op = proc[p].op,
           proc'[p].scan \subseteq proc[p].scan,
           proc'[p].target \in {0, proc[p].target} \cup proc[p].scan,
           proc'[p].pc \in Recovering => /\ proc'[p].target \in Ops
                                         /\ journal'[proc'[p].target] # <<>>,
           proc'[p].pc \in Executing => More(p),
           \/ proc'[p].step = proc[p].step
           \/ /\ proc[p].pc = "recorded" /\ proc'[p].pc = "effect"
              /\ proc'[p].step = proc[p].step + 1
              /\ UNCHANGED world,
           \A k \in Effects : k # proc[p].step => world'[proc[p].op][k] = world[proc[p].op][k],
           proc'[p].pc \in {"acted", "recorded"} => world'[proc[p].op][proc[p].step] = "done",
           holder' = holder, faults' \in Nat, Respects,
           op' \in [Ops -> Operation],
           \A o \in Ops : /\ op'[o].command = op[o].command
                          /\ op'[o].report = op[o].report
                          /\ op'[o].effects = op[o].effects
    PROVE  IInv'
<1>1. TypeOK'
  BY DEF IInv, TypeOK, Respects
<1>2. proc \in [Procs -> Process] /\ op \in [Ops -> Operation]
  BY DEF IInv, TypeOK
<1>3. LockOK'
  BY <1>2 DEF IInv, LockOK
<1>4. ASSUME NEW q \in Procs PROVE ProcOK(proc[q])'
  <2>1. proc[q].scan \subseteq Ops /\ proc[q].target \in Ops \cup {0} /\ 0 \notin Ops
    BY <1>2 DEF Process, Ops
  <2>2. CASE q = p
    <3> DEFINE o == proc[p].op
    <3>1. ProcOK(proc[p])
      BY DEF IInv, ProcsOK
    <3>2. /\ o \in Ops /\ op'[o].command # "none" /\ op'[o].report = "none"
      BY Holding
    <3>3. /\ proc[p].step \in Nat /\ op[o].effects \in Nat /\ op'[o].effects = op[o].effects
          /\ 1 .. op[o].effects \subseteq Effects
          /\ proc[p].step \in 1 .. op[o].effects + 1
      BY <1>2, Holding, EffectsOfOperation
    <3>4. proc'[p].step \in 1 .. op'[o].effects + 1
      BY <3>1, <3>3, Holding DEF ProcOK, Executing
    <3>5. proc'[p].pc \in Executing => proc'[p].step = proc[p].step /\ proc'[p].step <= op'[o].effects
      BY <3>3 DEF More, Executing
    <3>6. ASSUME NEW k \in 1 .. op'[o].effects, k < proc'[p].step PROVE world'[o][k] = "done"
      BY <3>1, <3>2, <3>3, <3>6 DEF ProcOK, Unlocked
    <3>7. proc'[p].pc \in {"acted", "recorded"} => world'[o][proc'[p].step] = "done"
      OBVIOUS
    <3>8. \A i \in proc'[p].scan : op'[i].command # "none" /\ i # o
      BY <2>1, <2>2, <3>1 DEF ProcOK
    <3>9. proc'[p].target # 0 => op'[proc'[p].target].command # "none" /\ proc'[p].target # o
      BY <2>1, <2>2, <3>1 DEF ProcOK
    <3> QED
      BY <2>2, <3>2, <3>4, <3>5, <3>6, <3>7, <3>8, <3>9 DEF ProcOK
  <2>3. CASE q # p
    <3>1. proc'[q] = proc[q] /\ proc[q].pc \in Unlocked
      BY <2>3, <1>2, Holding DEF IInv, LockOK
    <3>2. ProcOK(proc[q])
      BY DEF IInv, ProcsOK
    <3> QED
      BY <2>1, <3>1, <3>2 DEF ProcOK, Unlocked, Recovering
  <2> QED
    BY <2>2, <2>3
<1>5. OpsOK'
  <2> SUFFICES ASSUME NEW o \in Ops
               PROVE  /\ op'[o].command = "none" => journal'[o] = <<>> /\ op'[o].report = "none"
                      /\ op'[o].report = "success" => journal'[o] # <<>>
    BY DEF OpsOK
  <2>1. op'[o].command = op[o].command /\ op'[o].report = op[o].report
    OBVIOUS
  <2> QED
    BY ZenonT(60), <2>1 DEF IInv, OpsOK, Respects
<1>6. SuccessIsProven'
  <2> SUFFICES ASSUME NEW o \in Ops, op'[o].report = "success"
               PROVE  /\ Last(journal'[o]) = Success
                      /\ \A k \in 1 .. op'[o].effects : world'[o][k] = "done"
    BY DEF SuccessIsProven
  <2>1. op[o].report = "success" /\ op'[o].effects = op[o].effects
    OBVIOUS
  <2>2. Last(journal[o]) = Success /\ \A k \in 1 .. op[o].effects : world[o][k] = "done"
    BY <2>1 DEF IInv, SuccessIsProven
  <2>3. journal'[o] = journal[o]
    BY <2>1 DEF Respects
  <2>4. \A k \in 1 .. op[o].effects : world'[o][k] = "done"
    BY <1>2, <2>1, <2>2, EffectsOfOperation DEF Respects
  <2> QED
    BY <2>1, <2>2, <2>3, <2>4
<1> QED
  BY <1>1, <1>3, <1>4, <1>5, <1>6 DEF IInv, ProcsOK

\* A process that gives up the lock: its operation is over.
LEMMA EndStep ==
    ASSUME IInv, NEW p \in Procs, holder = p,
           proc' = [proc EXCEPT ![p] = Idle], holder' = None,
           faults' \in Nat, Respects,
           op' \in [Ops -> Operation],
           \A o \in Ops : /\ op'[o].command = op[o].command
                          /\ op'[o].effects = op[o].effects
                          /\ \/ op'[o].report = op[o].report
                             \/ op'[o].report # "success" /\ op[o].command # "none"
                             \/ /\ o = proc[p].op
                                /\ journal'[o] # <<>>
                                /\ Last(journal'[o]) = Success
                                /\ op[o].command # "none"
                                /\ \A k \in 1 .. op[o].effects : world'[o][k] = "done"
    PROVE  IInv'
<1>1. TypeOK'
  BY IdleType DEF IInv, TypeOK, Respects
<1>2. proc \in [Procs -> Process] /\ op \in [Ops -> Operation]
  BY DEF IInv, TypeOK
<1>3. LockOK'
  BY <1>2, NobodyAssumption DEF IInv, LockOK, Idle, Unlocked
<1>4. ASSUME NEW q \in Procs PROVE ProcOK(proc[q])'
  <2>1. CASE q = p
    BY <2>1, <1>2 DEF ProcOK, Idle, Unlocked, Recovering
  <2>2. CASE q # p
    <3>1. proc'[q] = proc[q] /\ proc[q].pc \in Unlocked
      BY <2>2, <1>2 DEF IInv, LockOK
    <3>2. ProcOK(proc[q]) /\ proc[q].scan \subseteq Ops
      BY <1>2 DEF IInv, ProcsOK, Process
    <3> QED
      BY <3>1, <3>2 DEF ProcOK, Unlocked, Recovering
  <2> QED
    BY <2>1, <2>2
<1>5. OpsOK'
  <2> SUFFICES ASSUME NEW o \in Ops
               PROVE  /\ op'[o].command = "none" => journal'[o] = <<>> /\ op'[o].report = "none"
                      /\ op'[o].report = "success" => journal'[o] # <<>>
    BY DEF OpsOK
  <2>1. /\ op[o].command = "none" => journal[o] = <<>> /\ op[o].report = "none"
        /\ op[o].report = "success" => journal[o] # <<>>
    BY DEF IInv, OpsOK
  <2>2. /\ op[o].command = "none" => journal'[o] = journal[o]
        /\ op[o].report = "success" => journal'[o] = journal[o]
    BY DEF Respects
  <2>3. /\ op'[o].command = op[o].command
        /\ \/ op'[o].report = op[o].report
           \/ op'[o].report # "success" /\ op[o].command # "none"
           \/ journal'[o] # <<>> /\ op[o].command # "none"
    OBVIOUS
  <2> QED
    BY <2>1, <2>2, <2>3
<1>6. SuccessIsProven'
  <2> SUFFICES ASSUME NEW o \in Ops, op'[o].report = "success"
               PROVE  /\ Last(journal'[o]) = Success
                      /\ \A k \in 1 .. op'[o].effects : world'[o][k] = "done"
    BY DEF SuccessIsProven
  <2>1. op'[o].effects = op[o].effects
    OBVIOUS
  <2>2. CASE op[o].report = "success"
    <3>1. Last(journal[o]) = Success /\ \A k \in 1 .. op[o].effects : world[o][k] = "done"
      BY <2>2 DEF IInv, SuccessIsProven
    <3>2. journal'[o] = journal[o]
      BY <2>2 DEF Respects
    <3>3. \A k \in 1 .. op[o].effects : world'[o][k] = "done"
      BY <1>2, <2>2, <3>1, EffectsOfOperation DEF Respects
    <3> QED
      BY <2>1, <3>1, <3>2, <3>3
  <2>3. CASE op[o].report # "success"
    BY <2>1, <2>3
  <2> QED
    BY <2>2, <2>3
<1> QED
  BY <1>1, <1>3, <1>4, <1>5, <1>6 DEF IInv, ProcsOK

\* What the appends of a process do to the files: nothing to a journal that has
\* not begun or ended in a success.
LEMMA AppendRespects ==
    ASSUME IInv, NEW o \in Ops, NEW mem \in Seq(Line), NEW e \in Line,
           op[o].command # "none", op[o].report # "success",
           NotWritten(o, mem, e), UNCHANGED world
    PROVE  Respects
<1>1. journal \in [Ops -> Seq(Line)] /\ damaged \in [Ops -> BOOLEAN]
  BY DEF IInv, TypeOK
<1>2. /\ journal' \in [Ops -> Seq(Line)]
      /\ \A q \in Ops : q # o => journal'[q] = journal[q]
  <2>1. Append(journal[o], e) \in Seq(Line)
    BY <1>1
  <2>2. journal' = journal \/ journal' = [journal EXCEPT ![o] = Append(journal[o], e)]
    BY <1>1 DEF NotWritten, Written
  <2>3. CASE journal' = journal
    BY <1>1, <2>3
  <2>4. CASE journal' = [journal EXCEPT ![o] = Append(journal[o], e)]
    BY <1>1, <2>1, <2>4
  <2> QED
    BY <2>2, <2>3, <2>4
<1>3. damaged' \in [Ops -> BOOLEAN]
  <2>1. CASE UNCHANGED damaged
    BY <1>1, <2>1
  <2>2. CASE damaged' = [damaged EXCEPT ![o] = TRUE]
    BY <1>1, <2>2
  <2>3. CASE Written(o, mem, e)
    <3>1. (damaged[o] \/ Len(journal[o]) # Len(mem)) \in BOOLEAN
      BY <1>1
    <3> QED
      BY <1>1, <2>3, <3>1 DEF Written
  <2> QED
    BY <2>1, <2>2, <2>3 DEF NotWritten
<1> QED
  BY <1>2, <1>3 DEF IInv, TypeOK, Respects

\* A step that writes nothing.
LEMMA QuietRespects ==
    ASSUME IInv, UNCHANGED <<journal, damaged, world>>
    PROVE  Respects
BY DEF IInv, TypeOK, Respects

\* A step of an effect of an operation that is not over.
LEMMA EffectRespects ==
    ASSUME IInv, NEW o \in Ops, NEW k \in Effects, NEW state \in {"absent", "partial", "done"},
           UNCHANGED <<journal, damaged>>,
           world' = [world EXCEPT ![o][k] = state],
           op[o].report # "success" \/ world[o][k] # "done"
    PROVE  Respects
<1>1. world' \in [Ops -> [Effects -> {"absent", "partial", "done"}]]
  BY DEF IInv, TypeOK
<1>2. \A q \in Ops, j \in Effects : q # o \/ j # k => world'[q][j] = world[q][j]
  BY DEF IInv, TypeOK
<1> QED
  BY <1>1, <1>2 DEF IInv, TypeOK, Respects

\* An append that the checks allow does not follow a success.
LEMMA AllowedRespects ==
    ASSUME IInv, NEW o \in Ops, NEW e \in Line, MayAppend(journal[o], e)
    PROVE  op[o].report # "success"
<1> SUFFICES ASSUME op[o].report = "success" PROVE FALSE
  OBVIOUS
<1>1. journal[o] # <<>> /\ Last(journal[o]) = Success
  BY DEF IInv, OpsOK, SuccessIsProven
<1>2. Last(journal[o]).phase # "commit"
  BY <1>1 DEF MayAppend
<1> QED
  BY <1>1, <1>2 DEF Success, Entry
-----------------------------------------------------------------------------
(***************************************************************************)
(* The steps.                                                              *)
(***************************************************************************)
LEMMA FaultType == ASSUME IInv, Fault PROVE faults' \in Nat
BY DEF IInv, TypeOK, Fault

LEMMA EntryType ==
    ASSUME NEW phase \in Phases, NEW k \in Effects \cup {Command}, NEW note \in Notes
    PROVE  Entry(phase, k, note) \in Line
BY DEF Entry, Line

\* A process that goes on elsewhere in its command.
LEMMA GotoInv ==
    ASSUME IInv, NEW p \in Procs, proc[p].pc \notin Unlocked,
           NEW pc \in Pcs \ (Unlocked \cup Recovering), Goto(p, pc),
           pc \in Executing => More(p),
           \A k \in Effects : k # proc[p].step => world'[proc[p].op][k] = world[proc[p].op][k],
           pc \in {"acted", "recorded"} => world'[proc[p].op][proc[p].step] = "done",
           holder' = holder, faults' \in Nat, Respects,
           op' \in [Ops -> Operation],
           \A o \in Ops : /\ op'[o].command = op[o].command
                          /\ op'[o].report = op[o].report
                          /\ op'[o].effects = op[o].effects
    PROVE  IInv'
<1>1. proc \in [Procs -> Process]
  BY DEF IInv, TypeOK
<1>2. proc' = [proc EXCEPT ![p] = [proc[p] EXCEPT !.pc = pc]]
  BY <1>1 DEF Goto, Process
<1>3. [proc[p] EXCEPT !.pc = pc] \in Process
  BY ZenonT(60), <1>1 DEF Process
<1>4. proc' \in [Procs -> Process] /\ \A q \in Procs : q # p => proc'[q] = proc[q]
  BY <1>1, <1>2, <1>3
<1>5. /\ proc'[p].pc = pc /\ proc'[p].op = proc[p].op /\ proc'[p].scan = proc[p].scan
      /\ proc'[p].target = proc[p].target /\ proc'[p].step = proc[p].step
  BY <1>1, <1>2 DEF Process
<1> QED
  BY <1>4, <1>5, HeldStep

\* A process that appends to its own journal and goes on elsewhere.
LEMMA LogInv ==
    ASSUME IInv, NEW p \in Procs, proc[p].pc \notin Unlocked,
           NEW pc \in Pcs \ (Unlocked \cup Recovering), NEW e \in Line, Log(p, e, pc),
           pc \in Executing => More(p),
           pc \in {"acted", "recorded"} => world[proc[p].op][proc[p].step] = "done",
           UNCHANGED <<world, op, holder, faults>>
    PROVE  IInv'
<1>1. proc \in [Procs -> Process] /\ op \in [Ops -> Operation] /\ faults \in Nat
  BY DEF IInv, TypeOK
<1> DEFINE x == [proc[p] EXCEPT !.mem = Append(proc[p].mem, e), !.pc = pc]
<1>2. proc[p].mem \in Seq(Line) /\ Append(proc[p].mem, e) \in Seq(Line)
  BY <1>1 DEF Process
<1>3. proc' = [proc EXCEPT ![p] = x]
  BY <1>1 DEF Log, Process
<1>4. x \in Process
  BY <1>1, <1>2 DEF Process
<1>5. proc' \in [Procs -> Process] /\ \A q \in Procs : q # p => proc'[q] = proc[q]
  BY <1>1, <1>3, <1>4
<1>6. /\ proc'[p].pc = pc /\ proc'[p].op = proc[p].op /\ proc'[p].scan = proc[p].scan
      /\ proc'[p].target = proc[p].target /\ proc'[p].step = proc[p].step
  BY <1>1, <1>3 DEF Process
<1>7. NotWritten(proc[p].op, proc[p].mem, e)
  BY DEF Log, NotWritten
<1>8. Respects
  BY <1>2, <1>7, Holding, AppendRespects
<1> QED
  BY <1>1, <1>5, <1>6, <1>8, HeldStep

\* What an executing process knows of its own effect.
LEMMA ExecutingFacts ==
    ASSUME IInv, NEW p \in Procs, proc[p].pc \in Executing
    PROVE  /\ proc[p].pc \notin Unlocked /\ More(p)
           /\ proc[p].op \in Ops /\ proc[p].step \in Effects
           /\ op[proc[p].op].command # "none" /\ op[proc[p].op].report = "none"
           /\ proc[p].pc \in {"acted", "recorded"} => world[proc[p].op][proc[p].step] = "done"
<1>1. ProcOK(proc[p])
  BY DEF IInv, ProcsOK
<1>2. proc[p].pc \notin Unlocked
  BY DEF Executing, Unlocked
<1> QED
  BY <1>1, <1>2, Holding DEF ProcOK, More

LEMMA RunEffectInv ==
    ASSUME IInv, NEW p \in Procs, RunEffect(p)
    PROVE  IInv'
<1> USE DEF Unlocked, Recovering, Executing, Pcs
<1>1. /\ op \in [Ops -> Operation] /\ faults \in Nat
      /\ proc \in [Procs -> Process]
      /\ world \in [Ops -> [Effects -> {"absent", "partial", "done"}]]
  BY DEF IInv, TypeOK
<1>2. CASE IntendEffect(p)
  <2>1. Entry("intent", proc[p].step, "none") \in Line
    BY <1>2, Holding, EntryType DEF IntendEffect, Phases, Notes
  <2> QED
    BY <1>2, <2>1, LogInv DEF IntendEffect
<1>3. CASE CancelledBeforeEffect(p)
  BY <1>1, <1>3, GotoInv, QuietRespects DEF CancelledBeforeEffect
<1>4. CASE ActionNotStarted(p)
  <2>1. PICK pc \in {"not-started", "unproven"} : Goto(p, pc)
    BY <1>4 DEF ActionNotStarted
  <2>2. More(p)
    BY <1>4, ExecutingFacts DEF ActionNotStarted
  <2> QED
    BY <1>1, <1>4, <2>1, <2>2, GotoInv, QuietRespects, FaultType DEF ActionNotStarted
<1>5. CASE StartAction(p)
  <2>1. More(p) /\ proc[p].op \in Ops /\ proc[p].step \in Effects /\ op[proc[p].op].report = "none"
    BY <1>5, ExecutingFacts DEF StartAction
  <2>2. Respects
    BY <1>5, <2>1, EffectRespects DEF StartAction, World
  <2>3. \A k \in Effects : k # proc[p].step => world'[proc[p].op][k] = world[proc[p].op][k]
    BY <1>1, <1>5, <2>1 DEF StartAction, World
  <2> QED
    BY <1>1, <1>5, <2>1, <2>2, <2>3, GotoInv DEF StartAction
<1>6. CASE FinishAction(p)
  <2>1. More(p) /\ proc[p].op \in Ops /\ proc[p].step \in Effects /\ op[proc[p].op].report = "none"
    BY <1>6, ExecutingFacts DEF FinishAction
  <2>2. Respects
    BY <1>6, <2>1, EffectRespects DEF FinishAction, World
  <2>3. /\ \A k \in Effects : k # proc[p].step => world'[proc[p].op][k] = world[proc[p].op][k]
        /\ world'[proc[p].op][proc[p].step] = "done"
    BY <1>1, <1>6, <2>1 DEF FinishAction, World
  <2> QED
    BY <1>1, <1>6, <2>1, <2>2, <2>3, GotoInv DEF FinishAction
<1>7. CASE ActionFails(p)
  <2>1. More(p) /\ proc[p].op \in Ops /\ proc[p].step \in Effects /\ op[proc[p].op].report = "none"
    BY <1>7, ExecutingFacts DEF ActionFails
  <2>2. PICK state \in {"partial", "done"} : World(p, state)
    BY <1>7 DEF ActionFails
  <2>3. Respects
    BY <1>7, <2>1, <2>2, EffectRespects DEF ActionFails, World
  <2>4. \A k \in Effects : k # proc[p].step => world'[proc[p].op][k] = world[proc[p].op][k]
    BY <1>1, <2>1, <2>2 DEF World
  <2> QED
    BY <1>1, <1>7, <2>1, <2>3, <2>4, GotoInv, FaultType DEF ActionFails
<1>8. CASE RecordEffect(p)
  <2>1. /\ More(p) /\ proc[p].step \in Effects
        /\ world[proc[p].op][proc[p].step] = "done"
    BY <1>8, ExecutingFacts DEF RecordEffect
  <2>2. Entry("effect", proc[p].step, "none") \in Line
    BY <2>1, EntryType DEF Phases, Notes
  <2> QED
    BY <1>8, <2>1, <2>2, LogInv DEF RecordEffect
<1>9. CASE VerifyEffect(p)
  <2> DEFINE e == Entry("verify", proc[p].step, "none")
             x == [proc[p] EXCEPT !.mem = Append(proc[p].mem, e), !.pc = "effect",
                                  !.step = proc[p].step + 1]
  <2>1. /\ More(p) /\ proc[p].op \in Ops /\ proc[p].step \in Effects
        /\ op[proc[p].op].command # "none" /\ op[proc[p].op].report = "none"
    BY <1>9, ExecutingFacts DEF VerifyEffect
  <2>2. e \in Line
    BY <2>1, EntryType DEF Phases, Notes
  <2>3. proc[p].mem \in Seq(Line) /\ Append(proc[p].mem, e) \in Seq(Line)
    BY <1>1, <2>2 DEF Process
  <2>4. proc' = [proc EXCEPT ![p] = x]
    BY <1>1, <1>9 DEF VerifyEffect, Process
  <2>5. proc[p].step + 1 \in 0 .. Steps + 1
    BY <2>1, BoundsAssumption DEF Effects
  <2>6. x \in Process
    BY ZenonT(60), <1>1, <2>3, <2>5 DEF Process
  <2>7. proc' \in [Procs -> Process] /\ \A q \in Procs : q # p => proc'[q] = proc[q]
    BY <1>1, <2>4, <2>6
  <2>8. /\ proc'[p].pc = "effect" /\ proc'[p].op = proc[p].op /\ proc'[p].scan = proc[p].scan
        /\ proc'[p].target = proc[p].target /\ proc'[p].step = proc[p].step + 1
    BY <1>1, <2>4 DEF Process
  <2>9. NotWritten(proc[p].op, proc[p].mem, e) /\ UNCHANGED <<world, op, holder, faults>>
    BY <1>9 DEF VerifyEffect, NotWritten
  <2>10. Respects
    BY <2>1, <2>2, <2>3, <2>9, AppendRespects
  <2>11. proc[p].pc = "recorded"
    BY <1>9 DEF VerifyEffect
  <2> QED
    BY <1>1, <2>7, <2>8, <2>9, <2>10, <2>11, HeldStep
<1>10. CASE RecordUnproven(p)
  <2>1. Entry("compensate", proc[p].step, "unproven") \in Line
    BY <1>10, ExecutingFacts, EntryType DEF RecordUnproven, Phases, Notes
  <2> QED
    BY <1>10, <2>1, LogInv DEF RecordUnproven
<1>11. CASE RecordNotStarted(p)
  <2>1. Entry("compensate", proc[p].step, "settled") \in Line
    BY <1>11, ExecutingFacts, EntryType DEF RecordNotStarted, Phases, Notes
  <2> QED
    BY <1>11, <2>1, LogInv DEF RecordNotStarted
<1> QED
  BY <1>2, <1>3, <1>4, <1>5, <1>6, <1>7, <1>8, <1>9, <1>10, <1>11 DEF RunEffect

\* A process that has no lock, before and after its step.
LEMMA UnlockedInv ==
    ASSUME IInv, NEW p \in Procs, ScanJournals(p) \/ LockRefused(p)
    PROVE  IInv'
<1>1. /\ proc \in [Procs -> Process]
      /\ UNCHANGED <<journal, damaged, world, op, holder, faults>>
  BY DEF IInv, TypeOK, ScanJournals, LockRefused
<1>2. proc[p].pc \in Unlocked /\ proc[p].op = 0 /\ proc[p].target = 0
  BY DEF IInv, ProcsOK, ProcOK, Unlocked, ScanJournals, LockRefused
<1>3. PICK x \in Process : /\ proc' = [proc EXCEPT ![p] = x]
                           /\ x.pc \in Unlocked /\ x.op = 0 /\ x.target = 0
                           /\ \A o \in x.scan : o \in Ops /\ op[o].command # "none"
  <2>1. CASE ScanJournals(p)
    <3> DEFINE S == {o \in Ops : NeedsRecovery(journal[o])}
               y == [proc[p] EXCEPT !.pc = "scanned", !.scan = S]
    <3>1. y \in Process
      <4>1. proc[p] \in Process /\ S \in SUBSET Ops /\ "scanned" \in Pcs
        BY <1>1 DEF Pcs
      <4> HIDE DEF S
      <4> QED
        BY <4>1, ZenonT(60) DEF Process
    <3>2. \A o \in S : op[o].command # "none"
      BY DEF IInv, OpsOK, NeedsRecovery
    <3>3. proc' = [proc EXCEPT ![p] = y]
      BY <1>1, <2>1 DEF ScanJournals, Process
    <3>4. y.pc \in Unlocked /\ y.op = 0 /\ y.target = 0 /\ y.scan = S
      BY <1>1, <1>2 DEF Process, Unlocked
    <3> QED
      BY <3>1, <3>2, <3>3, <3>4
  <2>2. CASE LockRefused(p)
    BY <2>2, IdleType DEF LockRefused, Idle, Unlocked
  <2> QED
    BY <2>1, <2>2
<1>4. TypeOK'
  BY <1>1, <1>3 DEF IInv, TypeOK
<1>5. LockOK'
  BY <1>1, <1>2, <1>3 DEF IInv, LockOK
<1>6. ASSUME NEW q \in Procs PROVE ProcOK(proc[q])'
  <2>1. CASE q = p
    BY <1>1, <1>3, <2>1 DEF ProcOK, Unlocked, Recovering, Ops
  <2>2. CASE q # p
    BY <1>1, <1>3, <2>2 DEF IInv, ProcsOK, ProcOK
  <2> QED
    BY <2>1, <2>2
<1>7. OpsOK' /\ SuccessIsProven'
  BY <1>1 DEF IInv, OpsOK, SuccessIsProven
<1> QED
  BY <1>4, <1>5, <1>6, <1>7 DEF IInv, ProcsOK

\* A process that takes the lock: nobody has it, and the operation is new.
LEMMA AcquireInv ==
    ASSUME IInv, NEW p \in Procs, NEW o \in Ops, NEW c \in {"setup", "change", "repair"},
           NEW n \in 0 .. Steps, proc[p].pc \in Unlocked, AcquireOperation(p, o, c, n)
    PROVE  IInv'
<1>1. /\ proc \in [Procs -> Process] /\ op \in [Ops -> Operation]
      /\ UNCHANGED <<journal, damaged, world, faults>>
      /\ holder = None /\ holder' = p /\ op[o].command = "none"
  BY DEF IInv, TypeOK, AcquireOperation
<1>2. journal[o] = <<>> /\ op[o].report = "none"
  BY <1>1 DEF IInv, OpsOK
<1> DEFINE x == [proc[p] EXCEPT !.pc = "begun", !.op = o, !.step = 1]
           w == [op[o] EXCEPT !.command = c, !.effects = n]
<1>3. proc' = [proc EXCEPT ![p] = x] /\ op' = [op EXCEPT ![o] = w]
  BY <1>1 DEF AcquireOperation, Process, Operation
<1>4. x \in Process /\ w \in Operation
  <2>1. 1 \in 0 .. Steps + 1
    BY BoundsAssumption
  <2>2. op[o] \in Operation /\ proc[p] \in Process
    BY <1>1
  <2>3. w \in Operation
    BY <2>2 DEF Operation
  <2>4. x \in Process
    BY <2>1, <2>2 DEF Process, Pcs
  <2> QED
    BY <2>3, <2>4
<1>5. /\ x.pc = "begun" /\ x.op = o /\ x.step = 1 /\ x.scan = proc[p].scan
      /\ x.target = proc[p].target
      /\ w.command = c /\ w.effects = n /\ w.report = "none"
  BY <1>1, <1>2 DEF Process, Operation
<1>6. TypeOK'
  BY <1>1, <1>3, <1>4 DEF IInv, TypeOK
<1>7. \A q \in Procs : proc[q].pc \in Unlocked
  BY <1>1, NobodyAssumption DEF IInv, LockOK
<1>8. LockOK'
  <2>1. \A q \in Procs : q # p => proc'[q] = proc[q]
    BY <1>1, <1>3
  <2>2. proc'[p].pc = "begun"
    BY <1>1, <1>3, <1>5
  <2> QED
    BY <1>1, <1>7, <2>1, <2>2 DEF LockOK, Unlocked
<1>9. \A i \in Ops : i # o => op'[i] = op[i]
  BY <1>1, <1>3
<1>10. op'[o].command = c /\ op'[o].effects = n /\ op'[o].report = "none"
  BY <1>1, <1>3, <1>5
<1>11. ASSUME NEW q \in Procs PROVE ProcOK(proc[q])'
  <2>1. ProcOK(proc[q]) /\ proc[q].scan \subseteq Ops /\ 0 \notin Ops
    BY <1>1 DEF IInv, ProcsOK, Process, Ops
  <2>2. \A i \in proc[q].scan : op'[i].command # "none" /\ i # o
    BY <1>1, <1>9, <2>1 DEF ProcOK
  <2>3. CASE q = p
    <3>1. proc'[q] = x
      BY <1>1, <1>3, <2>3
    <3>2. x.target = 0
      BY <1>5, <2>1, <2>3 DEF ProcOK
    <3>3. 1 \in 1 .. n + 1 /\ \A k \in 1 .. n : ~(k < 1)
      OBVIOUS
    <3> QED
      BY <1>5, <1>10, <2>2, <2>3, <3>1, <3>2, <3>3 DEF ProcOK, Unlocked, Executing, Recovering
  <2>4. CASE q # p
    <3>1. proc'[q] = proc[q] /\ proc[q].pc \in Unlocked
      BY <1>1, <1>3, <1>7, <2>4
    <3> QED
      BY <2>1, <2>2, <3>1 DEF ProcOK, Unlocked, Recovering
  <2> QED
    BY <2>3, <2>4
<1>12. OpsOK'
  BY <1>1, <1>2, <1>9, <1>10 DEF IInv, OpsOK
<1>13. SuccessIsProven'
  BY <1>1, <1>9, <1>10 DEF IInv, SuccessIsProven
<1> QED
  BY <1>6, <1>8, <1>11, <1>12, <1>13 DEF IInv, ProcsOK

\* The last words of a command are well formed lines and reports.
LEMMA LastWordType ==
    ASSUME NEW p \in Procs
    PROVE  /\ LastWord(p) \in Line
           /\ FailureReport(p) \in {"none", "failed", "recovery-required"}
<1>1. \A phase \in {"cancel", "compensate"}, note \in {"recovery-required", "failed", "cancelled"} :
          Entry(phase, Command, note) \in Line
  BY EntryType DEF Phases, Notes
<1> QED
  BY <1>1 DEF LastWord, FailureReport

\* A process that writes its last word, or fails to, and reports a failure.
LEMMA FailedInv ==
    ASSUME IInv, NEW p \in Procs, proc[p].pc \notin Unlocked, NEW e \in Line,
           NEW r \in {"none", "failed", "recovery-required"},
           NotWritten(proc[p].op, proc[p].mem, e), End(p, r),
           UNCHANGED world, faults' \in Nat
    PROVE  IInv'
<1>1. proc \in [Procs -> Process] /\ op \in [Ops -> Operation]
  BY DEF IInv, TypeOK
<1>2. proc[p].mem \in Seq(Line)
  BY <1>1 DEF Process
<1>3. Respects
  BY <1>2, Holding, AppendRespects
<1>4. op' = [op EXCEPT ![proc[p].op] = [op[proc[p].op] EXCEPT !.report = r]]
  BY <1>1 DEF End, Operation
<1>5. [op[proc[p].op] EXCEPT !.report = r] \in Operation
  BY <1>1, Holding DEF Operation
<1>6. op' \in [Ops -> Operation]
  BY <1>1, <1>4, <1>5
<1>7. \A o \in Ops : /\ op'[o].command = op[o].command /\ op'[o].effects = op[o].effects
                     /\ \/ op'[o].report = op[o].report
                        \/ op'[o].report # "success" /\ op[o].command # "none"
  BY <1>1, <1>4, Holding DEF Operation
<1> QED
  BY <1>3, <1>6, <1>7, Holding, EndStep DEF End

\* A success follows the last effect.
LEMMA CommitSuccessInv ==
    ASSUME IInv, NEW p \in Procs, CommitSuccess(p)
    PROVE  IInv'
<1> DEFINE o == proc[p].op
<1>1. /\ proc \in [Procs -> Process] /\ op \in [Ops -> Operation]
      /\ journal \in [Ops -> Seq(Line)] /\ faults \in Nat
  BY DEF IInv, TypeOK
<1>2. proc[p].pc \notin Unlocked /\ UNCHANGED <<world, faults>> /\ End(p, "success")
  BY DEF CommitSuccess, Unlocked
<1>3. Success \in Line
  BY EntryType DEF Success, Phases, Notes
<1>4. proc[p].mem \in Seq(Line) /\ NotWritten(o, proc[p].mem, Success)
  BY <1>1 DEF Process, CommitSuccess, NotWritten
<1>5. Respects
  BY <1>2, <1>3, <1>4, Holding, AppendRespects
<1>6. journal'[o] # <<>> /\ Last(journal'[o]) = Success
  <2>1. journal'[o] = Append(journal[o], Success)
    BY <1>1, <1>2, Holding DEF CommitSuccess, Written
  <2>2. journal[o] \in Seq(Line)
    BY <1>1, <1>2, Holding
  <2> QED
    BY <1>3, <2>1, <2>2 DEF Last
<1>7. \A k \in 1 .. op[o].effects : world'[o][k] = "done"
  <2>1. op[o].effects \in Nat /\ proc[p].step \in Nat
    BY <1>2, Holding
  <2>2. op[o].effects < proc[p].step
    BY <2>1 DEF CommitSuccess, More
  <2> QED
    BY <1>2, <2>1, <2>2 DEF IInv, ProcsOK, ProcOK
<1>8. op' = [op EXCEPT ![o] = [op[o] EXCEPT !.report = "success"]]
  BY <1>1, <1>2 DEF End, Operation
<1>9. [op[o] EXCEPT !.report = "success"] \in Operation
  BY ZenonT(60), <1>1, <1>2, Holding DEF Operation
<1>10. op' \in [Ops -> Operation]
  BY <1>1, <1>8, <1>9
<1>11. \A q \in Ops : /\ op'[q].command = op[q].command /\ op'[q].effects = op[q].effects
                      /\ op'[q].report = op[q].report \/ q = o
  BY <1>1, <1>8 DEF Operation
<1>12. \A q \in Ops :
          /\ op'[q].command = op[q].command
          /\ op'[q].effects = op[q].effects
          /\ \/ op'[q].report = op[q].report
             \/ op'[q].report # "success" /\ op[q].command # "none"
             \/ /\ q = o
                /\ journal'[q] # <<>>
                /\ Last(journal'[q]) = Success
                /\ op[q].command # "none"
                /\ \A k \in 1 .. op[q].effects : world'[q][k] = "done"
  BY <1>2, <1>6, <1>7, <1>11, Holding
<1>13. holder = p /\ holder' = None /\ proc' = [proc EXCEPT ![p] = Idle] /\ faults' \in Nat
  BY <1>1, <1>2, Holding DEF End
<1> QED
  BY <1>5, <1>10, <1>12, <1>13, EndStep

LEMMA CommandStepInv ==
    ASSUME IInv, NEW p \in Procs, CommandStep(p)
    PROVE  IInv'
<1> USE DEF Unlocked, Recovering, Executing, Pcs
<1>1. op \in [Ops -> Operation] /\ faults \in Nat
  BY DEF IInv, TypeOK
<1>2. CASE ScanJournals(p) \/ LockRefused(p)
  BY <1>2, UnlockedInv
<1>3. CASE StartCommand(p)
  <2>1. PICK o \in Ops, c \in {"setup", "change"}, n \in Changes : AcquireOperation(p, o, c, n)
    BY <1>3 DEF StartCommand
  <2>2. n \in 0 .. Steps
    BY BoundsAssumption
  <2> QED
    BY <1>3, <2>1, <2>2, AcquireInv DEF StartCommand
<1>4. CASE StartRepair(p)
  <2>1. PICK o \in Ops, n \in Repairs : AcquireOperation(p, o, "repair", n)
    BY <1>4 DEF StartRepair
  <2>2. n \in 0 .. Steps
    BY BoundsAssumption
  <2> QED
    BY <1>4, <2>1, <2>2, AcquireInv DEF StartRepair
<1>5. CASE BeginCommand(p)
  <2>1. Entry("intent", Command, "none") \in Line
    BY EntryType DEF Phases, Notes
  <2>2. PICK pc \in {"next", "effect"} : Log(p, Entry("intent", Command, "none"), pc)
    BY <1>5 DEF BeginCommand
  <2> QED
    BY <1>5, <2>1, <2>2, LogInv DEF BeginCommand
<1>6. CASE CommitSuccess(p)
  BY <1>6, CommitSuccessInv
<1>7. CASE CommitRefused(p)
  BY <1>1, <1>7, GotoInv, QuietRespects DEF CommitRefused
<1>8. CASE Fail(p)
  <2>1. NotWritten(proc[p].op, proc[p].mem, LastWord(p))
    BY <1>8 DEF Fail, NotWritten
  <2> QED
    BY <1>1, <1>8, <2>1, LastWordType, FailedInv DEF Fail
<1> QED
  BY <1>2, <1>3, <1>4, <1>5, <1>6, <1>7, <1>8 DEF CommandStep

\* A process that recovers an operation.
LEMMA RecoveringFacts ==
    ASSUME IInv, NEW p \in Procs, proc[p].pc \in Recovering
    PROVE  /\ proc[p].pc \notin Unlocked
           /\ proc[p].target \in Ops /\ proc[p].target # proc[p].op /\ 0 \notin Ops
           /\ op[proc[p].target].command # "none"
           /\ journal[proc[p].target] \in Seq(Line) /\ journal[proc[p].target] # <<>>
           /\ proc[p].todo \subseteq Effects \cup {Command}
<1>1. ProcOK(proc[p]) /\ proc \in [Procs -> Process] /\ journal \in [Ops -> Seq(Line)]
  BY DEF IInv, ProcsOK, TypeOK
<1>2. 0 \notin Ops
  BY DEF Ops
<1> QED
  BY <1>1, <1>2 DEF ProcOK, Process, Recovering, Unlocked

\* The lines that a process is about to write.
LEMMA UpcomingType ==
    ASSUME IInv, NEW p \in Procs, NEW e \in Upcoming(p)
    PROVE  e \in Line /\ proc[p].pc \notin Unlocked
<1> USE DEF Unlocked, Executing
<1>1. CASE proc[p].pc \in {"acted", "recorded", "unproven", "not-started"}
  <2>1. proc[p].step \in Effects
    BY <1>1, ExecutingFacts
  <2>2. \A phase \in {"effect", "verify", "compensate"}, note \in {"none", "unproven", "settled"} :
           Entry(phase, proc[p].step, note) \in Line
    BY <2>1, EntryType DEF Phases, Notes
  <2> QED
    BY <1>1, <2>2 DEF Upcoming
<1>2. CASE proc[p].pc = "effect"
  <2>1. More(p) => Entry("intent", proc[p].step, "none") \in Line
    BY <1>2, Holding, EntryType DEF Phases, Notes
  <2>2. Success \in Line
    BY EntryType DEF Success, Phases, Notes
  <2> QED
    BY <1>2, <2>1, <2>2 DEF Upcoming
<1>3. CASE proc[p].pc \in {"begun", "blocked", "catch"}
  <2>1. Entry("intent", Command, "none") \in Line /\ Entry("cancel", Command, "failed") \in Line
    BY EntryType DEF Phases, Notes
  <2> QED
    BY <1>3, <2>1, LastWordType DEF Upcoming
<1>4. CASE proc[p].pc \notin {"acted", "recorded", "unproven", "not-started", "effect",
                             "begun", "blocked", "catch"}
  BY <1>4 DEF Upcoming
<1> QED
  BY <1>1, <1>2, <1>3, <1>4

LEMMA RecoveryLineType ==
    ASSUME IInv, NEW p \in Procs, NEW e \in RecoveryLines(p)
    PROVE  /\ e \in Line /\ proc[p].pc \in {"settle", "adopt", "adopted"}
           /\ e.step \in Effects \cup {Command}
<1> USE DEF Recovering
<1>1. CASE proc[p].pc \in {"settle", "adopt", "adopted"}
  <2>1. proc[p].todo \subseteq Effects \cup {Command}
    BY <1>1, RecoveringFacts
  <2>2. \A k \in proc[p].todo :
           /\ Entry("effect", k, "none") \in Line
           /\ Entry("verify", k, "none") \in Line
           /\ Entry("compensate", k, "settled") \in Line
    BY <2>1, EntryType DEF Phases, Notes
  <2>3. Entry("commit", Command, "recovered") \in Line
    BY EntryType DEF Phases, Notes
  <2>4. e \in Line
    BY <1>1, <2>2, <2>3 DEF RecoveryLines
  <2> QED
    BY <1>1, <2>4 DEF Line
<1>2. CASE proc[p].pc \notin {"settle", "adopt", "adopted"}
  BY <1>2 DEF RecoveryLines
<1> QED
  BY <1>1, <1>2

\* The steps that recovery observes are steps of the operation.
LEMMA ObservedType ==
    ASSUME NEW J \in Seq(Line), J # <<>>
    PROVE  Observed(J) \subseteq Effects \cup {Command}
<1>1. Last(J) \in Line
  BY DEF Last
<1> QED
  BY <1>1 DEF Observed, Unresolved, Line

LEMMA NextInterruptedInv ==
    ASSUME IInv, NEW p \in Procs, NextInterrupted(p)
    PROVE  IInv'
<1> USE DEF Unlocked, Recovering, Executing, Pcs
<1>1. /\ proc \in [Procs -> Process] /\ op \in [Ops -> Operation] /\ faults \in Nat
      /\ proc[p].pc = "next" /\ UNCHANGED <<journal, damaged, world, op, holder, faults>>
  BY DEF IInv, TypeOK, NextInterrupted
<1>2. PICK o \in proc[p].scan :
          \/ Goto(p, "catch")
          \/ /\ NeedsRecovery(journal[o])
             /\ proc' = [proc EXCEPT ![p].scan = @ \ {o}, ![p].target = o, ![p].pc = "examine"]
          \/ proc' = [proc EXCEPT ![p].scan = @ \ {o}]
  BY DEF NextInterrupted
<1>3. o \in Ops
  BY <1>1 DEF Process
<1>4. Respects
  BY <1>1, QuietRespects
<1>5. CASE Goto(p, "catch")
  BY <1>1, <1>4, <1>5, GotoInv
<1>6. CASE /\ NeedsRecovery(journal[o])
           /\ proc' = [proc EXCEPT ![p].scan = @ \ {o}, ![p].target = o, ![p].pc = "examine"]
  <2> DEFINE x == [proc[p] EXCEPT !.scan = proc[p].scan \ {o}, !.target = o, !.pc = "examine"]
  <2>1. proc' = [proc EXCEPT ![p] = x]
    BY <1>1, <1>6 DEF Process
  <2>2. x \in Process
    BY ZenonT(60), <1>1, <1>3 DEF Process
  <2>3. proc' \in [Procs -> Process] /\ \A q \in Procs : q # p => proc'[q] = proc[q]
    BY <1>1, <2>1, <2>2
  <2>4. /\ proc'[p].pc = "examine" /\ proc'[p].op = proc[p].op /\ proc'[p].step = proc[p].step
        /\ proc'[p].scan = proc[p].scan \ {o} /\ proc'[p].target = o
    BY <1>1, <2>1 DEF Process
  <2>5. journal'[o] # <<>>
    BY <1>1, <1>6 DEF NeedsRecovery
  <2> QED
    BY <1>1, <1>3, <1>4, <2>3, <2>4, <2>5, HeldStep
<1>7. CASE proc' = [proc EXCEPT ![p].scan = @ \ {o}]
  <2> DEFINE x == [proc[p] EXCEPT !.scan = proc[p].scan \ {o}]
  <2>1. proc' = [proc EXCEPT ![p] = x]
    BY <1>1, <1>7 DEF Process
  <2>2. x \in Process
    BY ZenonT(60), <1>1, <1>3 DEF Process
  <2>3. proc' \in [Procs -> Process] /\ \A q \in Procs : q # p => proc'[q] = proc[q]
    BY <1>1, <2>1, <2>2
  <2>4. /\ proc'[p].pc = "next" /\ proc'[p].op = proc[p].op /\ proc'[p].step = proc[p].step
        /\ proc'[p].scan = proc[p].scan \ {o} /\ proc'[p].target = proc[p].target
    BY <1>1, <2>1 DEF Process
  <2> QED
    BY <1>1, <1>4, <2>3, <2>4, HeldStep
<1> QED
  BY <1>2, <1>5, <1>6, <1>7

LEMMA ExamineInv ==
    ASSUME IInv, NEW p \in Procs, Examine(p)
    PROVE  IInv'
<1> USE DEF Unlocked, Recovering, Executing, Pcs
<1> DEFINE K == Observed(journal[proc[p].target])
<1>1. /\ proc \in [Procs -> Process] /\ op \in [Ops -> Operation] /\ faults \in Nat
      /\ proc[p].pc = "examine" /\ UNCHANGED <<journal, damaged, world, op, holder, faults>>
  BY DEF IInv, TypeOK, Examine
<1>2. K \subseteq Effects \cup {Command} /\ proc[p].target \in Ops
      /\ journal[proc[p].target] # <<>>
  BY <1>1, RecoveringFacts, ObservedType
<1>3. PICK pc \in {"adopt", "settle"} : proc' = [proc EXCEPT ![p].todo = K, ![p].pc = pc]
  BY DEF Examine
<1> DEFINE x == [proc[p] EXCEPT !.todo = K, !.pc = pc]
<1>4. proc' = [proc EXCEPT ![p] = x]
  BY <1>1, <1>3 DEF Process
<1>5. x \in Process
  BY ZenonT(60), <1>1, <1>2 DEF Process
<1>6. proc' \in [Procs -> Process] /\ \A q \in Procs : q # p => proc'[q] = proc[q]
  BY <1>1, <1>4, <1>5
<1>7. /\ proc'[p].pc = pc /\ proc'[p].op = proc[p].op /\ proc'[p].step = proc[p].step
      /\ proc'[p].scan = proc[p].scan /\ proc'[p].target = proc[p].target
  BY <1>1, <1>4 DEF Process
<1> QED
  BY <1>1, <1>2, <1>6, <1>7, QuietRespects, HeldStep

\* Undoing what is there of an effect of another operation.
LEMMA UndoEffectInv ==
    ASSUME IInv, NEW p \in Procs, UndoEffect(p)
    PROVE  IInv'
<1> USE DEF Recovering
<1>1. /\ proc \in [Procs -> Process] /\ op \in [Ops -> Operation] /\ faults \in Nat
      /\ world \in [Ops -> [Effects -> {"absent", "partial", "done"}]]
      /\ UNCHANGED <<journal, damaged, op, holder, proc, faults>>
  BY DEF IInv, TypeOK, UndoEffect
<1> DEFINE o == proc[p].target
<1>2. PICK k \in Remnants(p) : world' = [world EXCEPT ![o][k] = "absent"]
  BY DEF UndoEffect
<1>3. proc[p].pc = "settle" /\ k \in proc[p].todo /\ State(o, k) = "partial"
  BY DEF Remnants
<1>4. k \in Effects /\ world[o][k] = "partial"
  BY <1>3, RecoveringFacts DEF State
<1>5. Respects
  BY <1>1, <1>2, <1>3, <1>4, RecoveringFacts, EffectRespects
<1>6. /\ proc[p].pc \notin Unlocked /\ o \in Ops /\ o # proc[p].op /\ journal[o] # <<>>
  BY <1>3, RecoveringFacts
<1>7. \A j \in Effects : world'[proc[p].op][j] = world[proc[p].op][j]
  BY <1>1, <1>2, <1>6, Holding
<1> QED
  BY <1>1, <1>3, <1>5, <1>6, <1>7, HeldStep DEF Executing

\* A line that recovery appends, or fails to append, to another journal.
LEMMA RecoveryAppend ==
    ASSUME IInv, NEW p \in Procs, NEW e \in RecoveryLines(p),
           MayAppend(journal[proc[p].target], e),
           NotWritten(proc[p].target, journal[proc[p].target], e), UNCHANGED world
    PROVE  Respects
<1>1. e \in Line /\ proc[p].pc \in Recovering
  BY RecoveryLineType DEF Recovering
<1> QED
  BY <1>1, RecoveringFacts, AllowedRespects, AppendRespects

LEMMA RecordRecoveryInv ==
    ASSUME IInv, NEW p \in Procs, RecordRecovery(p)
    PROVE  IInv'
<1> USE DEF Unlocked, Recovering, Executing, Pcs
<1> DEFINE o == proc[p].target
<1>1. /\ proc \in [Procs -> Process] /\ op \in [Ops -> Operation] /\ faults \in Nat
      /\ journal \in [Ops -> Seq(Line)]
  BY DEF IInv, TypeOK
<1>2. PICK e \in RecoveryLines(p), todo \in SUBSET proc[p].todo, target \in {0, o},
           pc \in {"adopted", "settle", "next"} :
          /\ MayAppend(journal[o], e)
          /\ Written(o, journal[o], e)
          /\ UNCHANGED <<world, op, holder, faults>>
          /\ proc' = [proc EXCEPT ![p].todo = todo, ![p].target = target, ![p].pc = pc]
          /\ pc \in Recovering => target = o
  <2>1. PICK e \in RecoveryLines(p) :
          /\ MayAppend(journal[o], e)
          /\ Written(o, journal[o], e)
          /\ UNCHANGED <<world, op, holder, faults>>
          /\ proc' = [proc EXCEPT
               ![p].todo = IF e.phase = "effect" THEN @ ELSE @ \ {e.step},
               ![p].target = IF e.phase = "commit" THEN 0 ELSE @,
               ![p].pc = CASE e.phase = "effect" -> "adopted"
                           [] e.phase = "commit" -> "next"
                           [] OTHER -> "settle"]
    BY DEF RecordRecovery
  <2> DEFINE todo == IF e.phase = "effect" THEN proc[p].todo ELSE proc[p].todo \ {e.step}
             target == IF e.phase = "commit" THEN 0 ELSE o
             pc == CASE e.phase = "effect" -> "adopted"
                     [] e.phase = "commit" -> "next"
                     [] OTHER -> "settle"
  <2>2. proc' = [proc EXCEPT ![p].todo = todo, ![p].target = target, ![p].pc = pc]
    BY <1>1, <2>1 DEF Process
  <2>3. /\ todo \in SUBSET proc[p].todo /\ target \in {0, o}
        /\ pc \in {"adopted", "settle", "next"} /\ (pc \in Recovering => target = o)
    OBVIOUS
  <2> QED
    BY <2>1, <2>2, <2>3
<1>3. /\ proc[p].pc \notin Unlocked /\ o \in Ops /\ proc[p].todo \subseteq Effects \cup {Command}
  BY RecoveryLineType, RecoveringFacts
<1> DEFINE x == [proc[p] EXCEPT !.todo = todo, !.target = target, !.pc = pc]
<1>4. proc' = [proc EXCEPT ![p] = x]
  BY <1>1, <1>2 DEF Process
<1>5. x \in Process
  BY ZenonT(60), <1>1, <1>3 DEF Process
<1>6. proc' \in [Procs -> Process] /\ \A q \in Procs : q # p => proc'[q] = proc[q]
  BY <1>1, <1>4, <1>5
<1>7. /\ proc'[p].pc = pc /\ proc'[p].op = proc[p].op /\ proc'[p].step = proc[p].step
      /\ proc'[p].scan = proc[p].scan /\ proc'[p].target = target
  BY <1>1, <1>4 DEF Process
<1>8. Respects
  BY <1>2, RecoveryAppend DEF NotWritten
<1>9. journal'[o] # <<>>
  <2>1. journal'[o] = Append(journal[o], e) /\ e \in Line /\ journal[o] \in Seq(Line)
    BY <1>1, <1>2, <1>3, RecoveryLineType DEF Written
  <2> QED
    BY <2>1
<1> QED
  BY <1>1, <1>2, <1>3, <1>6, <1>7, <1>8, <1>9, HeldStep

LEMMA RecoveryInv ==
    ASSUME IInv, NEW p \in Procs, Recovery(p)
    PROVE  IInv'
<1> USE DEF Unlocked, Recovering, Executing, Pcs
<1>1. op \in [Ops -> Operation] /\ faults \in Nat
  BY DEF IInv, TypeOK
<1>2. CASE NextInterrupted(p)
  BY <1>2, NextInterruptedInv
<1>3. CASE AllExamined(p)
  BY <1>1, <1>3, GotoInv, QuietRespects DEF AllExamined
<1>4. CASE Examine(p)
  BY <1>4, ExamineInv
<1>5. CASE ExamineBlocked(p)
  BY <1>1, <1>5, GotoInv, QuietRespects DEF ExamineBlocked
<1>6. CASE RepairStops(p)
  <2>1. Entry("cancel", Command, "failed") \in Line
    BY EntryType DEF Phases, Notes
  <2>2. NotWritten(proc[p].op, proc[p].mem, Entry("cancel", Command, "failed"))
    BY <1>6 DEF RepairStops, NotWritten
  <2> QED
    BY <1>1, <1>6, <2>1, <2>2, FailedInv DEF RepairStops
<1>7. CASE RecoveryCancelled(p)
  BY <1>1, <1>7, GotoInv, QuietRespects DEF RecoveryCancelled
<1>8. CASE UndoEffect(p)
  BY <1>8, UndoEffectInv
<1>9. CASE UndoFails(p)
  <2>1. proc[p].pc = "settle"
    BY <1>9 DEF UndoFails, Remnants
  <2> QED
    BY <1>1, <1>9, <2>1, GotoInv, QuietRespects, FaultType DEF UndoFails
<1>10. CASE RecordRecovery(p)
  BY <1>10, RecordRecoveryInv
<1>11. CASE RecoveryRefused(p)
  <2>1. proc[p].pc \in {"settle", "adopt", "adopted"}
    BY <1>11, RecoveryLineType DEF RecoveryRefused
  <2> QED
    BY <1>1, <1>11, <2>1, GotoInv, QuietRespects DEF RecoveryRefused
<1> QED
  BY <1>2, <1>3, <1>4, <1>5, <1>6, <1>7, <1>8, <1>9, <1>10, <1>11 DEF Recovery

-----------------------------------------------------------------------------
(***************************************************************************)
(* What goes wrong.                                                        *)
(***************************************************************************)
LEMMA AppendFailsInv ==
    ASSUME IInv, NEW p \in Procs, AppendFails(p)
    PROVE  IInv'
<1> USE DEF Unlocked, Recovering, Executing, Pcs
<1>1. /\ op \in [Ops -> Operation] /\ proc \in [Procs -> Process]
      /\ faults' \in Nat /\ UNCHANGED world
  BY FaultType DEF IInv, TypeOK, AppendFails
<1>2. PICK e \in Upcoming(p) : NotWritten(proc[p].op, proc[p].mem, e)
  BY DEF AppendFails
<1>3. e \in Line /\ proc[p].pc \notin Unlocked
  BY UpcomingType
<1>4. Respects
  BY <1>1, <1>2, <1>3, Holding, AppendRespects DEF Process
<1>5. CASE \E r \in {"none", "failed", "recovery-required"} : End(p, r)
  BY <1>1, <1>2, <1>3, <1>5, FailedInv
<1>6. CASE /\ proc[p].pc \in {"acted", "recorded"}
           /\ Goto(p, "unproven")
           /\ UNCHANGED <<holder, op>>
  <2>1. More(p)
    BY <1>6, ExecutingFacts
  <2> QED
    BY <1>1, <1>3, <1>4, <1>6, <2>1, GotoInv
<1>7. CASE Goto(p, "catch") /\ op' = [op EXCEPT ![proc[p].op].unrecorded = TRUE] /\ UNCHANGED holder
  <2>1. op' = [op EXCEPT ![proc[p].op] = [op[proc[p].op] EXCEPT !.unrecorded = TRUE]]
    BY <1>1, <1>7 DEF Operation
  <2>2. [op[proc[p].op] EXCEPT !.unrecorded = TRUE] \in Operation
    BY ZenonT(60), <1>1, <1>3, Holding DEF Operation
  <2>3. op' \in [Ops -> Operation]
    BY <1>1, <2>1, <2>2
  <2>4. \A o \in Ops : /\ op'[o].command = op[o].command
                       /\ op'[o].report = op[o].report
                       /\ op'[o].effects = op[o].effects
    BY <1>1, <2>1 DEF Operation
  <2> QED
    BY <1>1, <1>3, <1>4, <1>7, <2>3, <2>4, GotoInv
<1>8. CASE Goto(p, "catch") /\ UNCHANGED <<holder, op>>
  BY <1>1, <1>3, <1>4, <1>8, GotoInv
<1> QED
  BY <1>5, <1>6, <1>7, <1>8, LastWordType DEF AppendFails

LEMMA BreaksInv ==
    ASSUME IInv, NEW p \in Procs, Breaks(p)
    PROVE  IInv'
<1> USE DEF Recovering
<1>1. /\ op \in [Ops -> Operation] /\ faults \in Nat /\ proc \in [Procs -> Process]
      /\ damaged \in [Ops -> BOOLEAN]
  BY DEF IInv, TypeOK
<1>2. CASE AppendFails(p)
  BY <1>2, AppendFailsInv
<1>3. CASE RecoveryAppendFails(p)
  <2>1. PICK e \in RecoveryLines(p) :
           /\ MayAppend(journal[proc[p].target], e)
           /\ NotWritten(proc[p].target, journal[proc[p].target], e)
    BY <1>3 DEF RecoveryAppendFails
  <2>2. Respects
    BY <1>3, <2>1, RecoveryAppend DEF RecoveryAppendFails
  <2>3. proc[p].pc \in {"settle", "adopt", "adopted"}
    BY <2>1, RecoveryLineType
  <2> QED
    BY <1>1, <1>3, <2>2, <2>3, GotoInv, FaultType
       DEF RecoveryAppendFails, Unlocked, Executing, Pcs
<1>4. CASE Abort(p)
  <2> DEFINE x == [proc[p] EXCEPT !.aborted = TRUE]
  <2>1. proc' = [proc EXCEPT ![p] = x] /\ x \in Process
    BY <1>1, <1>4 DEF Abort, Process
  <2>2. proc' \in [Procs -> Process] /\ \A q \in Procs : q # p => proc'[q] = proc[q]
    BY <1>1, <2>1
  <2>3. /\ proc'[p].pc = proc[p].pc /\ proc'[p].op = proc[p].op /\ proc'[p].step = proc[p].step
        /\ proc'[p].scan = proc[p].scan /\ proc'[p].target = proc[p].target
    BY <1>1, <2>1 DEF Process
  <2>4. proc[p].pc \notin Unlocked /\ ProcOK(proc[p])
    BY <1>4 DEF Abort, IInv, LockOK, ProcsOK
  <2>5. proc[p].pc \in Executing => More(p)
    BY ExecutingFacts
  <2>6. faults' \in Nat /\ UNCHANGED <<journal, damaged, world, op, holder>>
    BY <1>4, FaultType DEF Abort
  <2> QED
    BY <1>1, <2>2, <2>3, <2>4, <2>5, <2>6, QuietRespects, HeldStep DEF ProcOK
<1>5. CASE Crash(p)
  <2>1. /\ proc' = [proc EXCEPT ![p] = Idle] /\ holder = p /\ holder' = None
        /\ faults' \in Nat /\ UNCHANGED <<journal, world, op>>
    BY <1>5, FaultType DEF Crash
  <2>2. damaged' \in [Ops -> BOOLEAN]
    BY <1>1, <1>5 DEF Crash
  <2>3. Respects
    BY <2>1, <2>2 DEF IInv, TypeOK, Respects
  <2> QED
    BY <1>1, <2>1, <2>3, EndStep
<1> QED
  BY <1>2, <1>3, <1>4, <1>5 DEF Breaks

-----------------------------------------------------------------------------
(***************************************************************************)
(* The theorems.                                                           *)
(***************************************************************************)
LEMMA InvInit == Init => IInv
<1> SUFFICES ASSUME Init PROVE IInv
  OBVIOUS
<1>1. TypeOK
  <2>1. <<>> \in Seq(Line) /\ 0 \in 0 .. Steps
    BY BoundsAssumption
  <2>2. [command |-> "none", effects |-> 0, report |-> "none", unrecorded |-> FALSE] \in Operation
    BY <2>1 DEF Operation
  <2> QED
    BY <2>1, <2>2, IdleType DEF Init, TypeOK
<1>2. LockOK
  BY NobodyAssumption DEF Init, LockOK, Idle, Unlocked
<1>3. ProcsOK
  BY DEF Init, ProcsOK, ProcOK, Idle, Unlocked, Recovering
<1>4. OpsOK /\ SuccessIsProven
  BY DEF Init, OpsOK, SuccessIsProven
<1> QED
  BY <1>1, <1>2, <1>3, <1>4 DEF IInv

LEMMA InvNext == IInv /\ [Next]_vars => IInv'
<1> SUFFICES ASSUME IInv, [Next]_vars PROVE IInv'
  OBVIOUS
<1>1. CASE UNCHANGED vars
  <2> USE <1>1 DEF vars
  <2>1. TypeOK' /\ LockOK'
    BY DEF IInv, TypeOK, LockOK
  <2>2. ProcsOK'
    BY DEF IInv, ProcsOK, ProcOK
  <2>3. OpsOK' /\ SuccessIsProven'
    BY DEF IInv, OpsOK, SuccessIsProven
  <2> QED
    BY <2>1, <2>2, <2>3 DEF IInv
<1>2. ASSUME NEW p \in Procs, CommandStep(p) \/ RunEffect(p) \/ Recovery(p) \/ Breaks(p)
      PROVE  IInv'
  BY <1>2, CommandStepInv, RunEffectInv, RecoveryInv, BreaksInv
<1> QED
  BY <1>1, <1>2 DEF Next

\* The inductive invariant: a process has an operation of its own exactly as
\* long as it holds the installation lock.
THEOREM Invariance == Spec => []IInv
<1> QED
  BY InvInit, InvNext, PTL DEF Spec

\* Journals, operations and processes stay well formed.
THEOREM TypeCorrect == Spec => []TypeOK
<1>1. IInv => TypeOK
  BY DEF IInv
<1> QED
  BY <1>1, Invariance, PTL

\* A command that reports success has done every effect, and its journal ends
\* in the success, whatever failed, died or was cancelled, and however many
\* repairs ran since.
THEOREM SuccessIsProvenAlways == Spec => []SuccessIsProven
<1>1. IInv => SuccessIsProven
  BY DEF IInv
<1> QED
  BY <1>1, Invariance, PTL

\* Whose journal a step writes.
LEMMA JournalMoves ==
    ASSUME IInv, NEW p \in Procs, NEW o \in Ops,
           CommandStep(p) \/ RunEffect(p) \/ Recovery(p) \/ Breaks(p),
           journal'[o] # journal[o]
    PROVE  \/ proc[p].pc \notin Unlocked /\ proc[p].op = o
           \/ proc[p].pc \in Recovering /\ proc[p].target = o
<1> USE DEF Unlocked, Recovering
<1>1. journal \in [Ops -> Seq(Line)]
  BY DEF IInv, TypeOK
<1>2. \A q \in Ops : \A mem, e : NotWritten(q, mem, e) => q = o
  BY <1>1 DEF NotWritten, Written
<1>3. \A q \in Ops : \A mem, e : Written(q, mem, e) => q = o
  BY <1>2 DEF NotWritten
<1>4. proc[p].pc \notin Unlocked => proc[p].op \in Ops
  BY Holding
<1>5. proc[p].pc \in Recovering => proc[p].target \in Ops
  BY RecoveringFacts
<1>6. CASE CommandStep(p)
  BY <1>3, <1>4, <1>6
     DEF CommandStep, ScanJournals, StartCommand, StartRepair, AcquireOperation, LockRefused,
         BeginCommand, Log, CommitSuccess, CommitRefused, Fail
<1>7. CASE RunEffect(p)
  BY <1>3, <1>4, <1>7
     DEF RunEffect, IntendEffect, CancelledBeforeEffect, ActionNotStarted, StartAction,
         FinishAction, ActionFails, RecordEffect, VerifyEffect, RecordUnproven,
         RecordNotStarted, Log
<1>8. CASE Recovery(p)
  <2>1. CASE RecordRecovery(p)
    BY <1>3, <1>5, <2>1, RecoveryLineType DEF RecordRecovery
  <2>2. CASE RepairStops(p)
    BY <1>3, <1>4, <2>2 DEF RepairStops
  <2> QED
    BY <1>8, <2>1, <2>2
       DEF Recovery, NextInterrupted, AllExamined, Examine, ExamineBlocked, RecoveryCancelled,
           UndoEffect, UndoFails, RecoveryRefused
<1>9. CASE Breaks(p)
  <2>1. CASE AppendFails(p)
    BY <1>2, <1>4, <2>1, UpcomingType DEF AppendFails
  <2>2. CASE RecoveryAppendFails(p)
    BY <1>2, <1>5, <2>2, RecoveryLineType DEF RecoveryAppendFails
  <2> QED
    BY <1>9, <2>1, <2>2 DEF Breaks, Abort, Crash
<1> QED
  BY <1>6, <1>7, <1>8, <1>9

\* No journal ever has two writers: a repair writes to the journal of another
\* operation only when nobody runs that operation any more.
THEOREM OneWriterAlways == Spec => OneWriter
<1>1. IInv /\ [Next]_vars =>
         [\A o \in Ops : journal'[o] # journal[o] =>
             \E p \in Procs :
                /\ holder = p
                /\ proc[p].op = o \/ (proc[p].target = o /\ Over(o))]_vars
  <2> SUFFICES ASSUME IInv, [Next]_vars, NEW o \in Ops, journal'[o] # journal[o]
               PROVE  \E p \in Procs :
                         /\ holder = p
                         /\ proc[p].op = o \/ (proc[p].target = o /\ Over(o))
    OBVIOUS
  <2>1. PICK p \in Procs : CommandStep(p) \/ RunEffect(p) \/ Recovery(p) \/ Breaks(p)
    BY DEF Next, vars
  <2>2. \/ proc[p].pc \notin Unlocked /\ proc[p].op = o
        \/ proc[p].pc \in Recovering /\ proc[p].target = o
    BY <2>1, JournalMoves
  <2>3. CASE proc[p].pc \notin Unlocked /\ proc[p].op = o
    BY <2>3, Holding
  <2>4. CASE proc[p].pc \in Recovering /\ proc[p].target = o
    <3>1. /\ proc[p].pc \notin Unlocked /\ o # proc[p].op /\ o # 0 /\ op[o].command # "none"
      BY <2>4, RecoveringFacts
    <3>2. holder = p
      BY <3>1, Holding
    <3>3. ASSUME NEW q \in Procs PROVE proc[q].op # o
      <4>1. ProcOK(proc[q]) /\ (proc[q].pc \notin Unlocked => q = p)
        BY <3>2 DEF IInv, ProcsOK, LockOK
      <4> QED
        BY <3>1, <4>1 DEF ProcOK
    <3> QED
      BY <2>4, <3>1, <3>2, <3>3 DEF Over
  <2> QED
    BY <2>2, <2>3, <2>4
<1> QED
  BY <1>1, Invariance, PTL DEF Spec, OneWriter

-----------------------------------------------------------------------------
(***************************************************************************)
(* Nothing is forgotten, and a plain failure is clean.                     *)
(***************************************************************************)
\* An effect whose line no later line settles: what HasIncomplete looks for.
Marked(J, k) ==
    \E i \in DOMAIN J : /\ Opens(J[i]) /\ J[i].step = k
                        /\ \A j \in i + 1 .. Len(J) : ~(Settles(J[j]) /\ J[j].step = k)

OnlyIntended(J, k) == \A i \in DOMAIN J : J[i].step = k => J[i].phase = "intent"

HasOpened(J) == \E i \in DOMAIN J : Opens(J[i])

\* A journal whose writer died in the action of step k, and that was not
\* recovered to its end since.
Pending(J, k) ==
    /\ J # <<>> /\ Last(J).phase \notin {"commit", "cancel"}
    /\ OnlyIntended(J, k)
    /\ (Last(J).phase = "intent" /\ Last(J).step = k) \/ HasOpened(J)

\* The places at which the present step has no line yet, those at which its
\* action has not begun, and those at which its effect may have no line.
Fresh == {"begun", "next", "effect"} \cup Recovering
Blank == Fresh \cup {"intended", "not-started", "blocked"}
Unmarked == {"acting", "acted", "unproven"}

\* Of the operation that a process runs: nothing of the effects to come is
\* there, nor in its journal.
AbsentOK(x) ==
    \A k \in Effects :
        k > x.step \/ (k = x.step /\ x.pc \in Blank) => world[x.op][k] = "absent"

LinesOK(x) ==
    \A i \in DOMAIN journal[x.op] :
        /\ journal[x.op][i].step <= x.step
        /\ x.pc \in Fresh => journal[x.op][i].step < x.step

\* As long as an action may have done a part, its intent is the last line.
IntentOK(x) ==
    LET J == journal[x.op]
    IN  \/ x.pc \in {"intended", "acting"}
        \/ x.pc = "unproven" /\ world[x.op][x.step] = "partial"
        => /\ J # <<>> /\ Last(J).phase = "intent" /\ Last(J).step = x.step
           /\ OnlyIntended(J, x.step)

\* What is there is marked in memory, and what is there in part is unresolved
\* in the file, but for the effect at hand.
MarksOK(x) ==
    \A k \in Effects :
        world[x.op][k] # "absent" =>
            op[x.op].unrecorded \/ Marked(x.mem, k) \/ (k = x.step /\ x.pc \in Unmarked)

PartsOK(x) ==
    \A k \in Effects :
        world[x.op][k] = "partial" =>
            \/ op[x.op].unrecorded \/ k \in Unresolved(journal[x.op])
            \/ k = x.step /\ x.pc \in {"acting", "unproven"}

RunOK(x) ==
    /\ x.pc = "begun" => x.mem = <<>>
    /\ AbsentOK(x) /\ LinesOK(x) /\ IntentOK(x) /\ MarksOK(x) /\ PartsOK(x)

\* Of the operation that a process recovers: what is there in part is still to
\* be undone, or will be overlooked.
TargetOK(x) ==
    LET t == x.target
        J == journal[x.target]
    IN  /\ \A k \in Effects :
              world[t][k] = "partial" =>
                  \/ op[t].unrecorded
                  \/ x.pc = "settle" /\ k \in x.todo
                  \/ OnlyIntended(J, k) /\ HasOpened(J)
        /\ x.pc = "settle" =>
              HasOpened(J) \/ \E k \in Effects \cup {Command} : x.todo \subseteq {k}
        /\ x.pc # "settle" => \A k \in x.todo : k \in Effects /\ world[t][k] = "done"

Settling == {"settle", "adopt", "adopted"}

\* Of an operation that nobody runs.
OverOK(o) ==
    \A k \in Effects :
        world[o][k] = "partial" =>
            \/ op[o].unrecorded
            \/ k \in Unresolved(journal[o]) \/ Pending(journal[o], k) \/ Overlooked(o, k)

NoteInv ==
    /\ \A p \in Procs : proc[p].pc \in Unlocked => proc[p].mem = <<>>
    /\ \A p \in Procs : proc[p].pc \notin Unlocked => RunOK(proc[p])
    /\ \A p \in Procs : proc[p].pc \in Settling => TargetOK(proc[p])
    /\ \A o \in Ops : op[o].command = "none" => \A k \in Effects : world[o][k] = "absent"
    /\ \A o \in Ops : Over(o) => OverOK(o)
    /\ PlainFailureIsClean

\* What one more line changes of what a journal says.
LEMMA OneMore ==
    ASSUME NEW J \in Seq(Line), NEW e \in Line
    PROVE  /\ Append(J, e) # <<>> /\ Last(Append(J, e)) = e
           /\ Len(Append(J, e)) = Len(J) + 1 /\ DOMAIN Append(J, e) = 1 .. Len(J) + 1
           /\ DOMAIN J = 1 .. Len(J) /\ Len(J) \in Nat
           /\ Append(J, e)[Len(J) + 1] = e
           /\ \A i \in 1 .. Len(J) : Append(J, e)[i] = J[i]
BY DEF Last

LEMMA MarkedMore ==
    ASSUME NEW J \in Seq(Line), NEW e \in Line, NEW k \in Effects \cup {Command},
           ~(Settles(e) /\ e.step = k)
    PROVE  /\ Marked(J, k) => Marked(Append(J, e), k)
           /\ Opens(e) /\ e.step = k => Marked(Append(J, e), k)
<1> DEFINE n == Len(J) + 1
           M == Append(J, e)
<1>1. /\ Len(M) = n /\ DOMAIN M = 1 .. n /\ DOMAIN J = 1 .. Len(J) /\ Len(J) \in Nat
      /\ M[n] = e /\ \A i \in 1 .. Len(J) : M[i] = J[i]
  BY OneMore
<1> HIDE DEF M
<1>2. ASSUME Marked(J, k) PROVE Marked(M, k)
  <2>1. PICK i \in 1 .. Len(J) :
           /\ Opens(J[i]) /\ J[i].step = k
           /\ \A j \in i + 1 .. Len(J) : ~(Settles(J[j]) /\ J[j].step = k)
    BY <1>1, <1>2 DEF Marked
  <2>2. i \in 1 .. n /\ Opens(M[i]) /\ M[i].step = k
    BY <1>1, <2>1
  <2>3. ASSUME NEW j \in i + 1 .. n PROVE ~(Settles(M[j]) /\ M[j].step = k)
    <3>1. CASE j = n
      BY <1>1, <3>1
    <3>2. CASE j # n
      <4>1. j \in i + 1 .. Len(J) /\ j \in 1 .. Len(J)
        BY <1>1, <2>1, <2>3, <3>2
      <4> QED
        BY <1>1, <2>1, <4>1
    <3> QED
      BY <3>1, <3>2
  <2> QED
    BY <1>1, <2>2, <2>3 DEF Marked
<1>3. ASSUME Opens(e), e.step = k PROVE Marked(M, k)
  <2>1. n \in 1 .. n /\ n + 1 .. n = {}
    BY <1>1
  <2> QED
    BY <1>1, <1>3, <2>1 DEF Marked
<1> QED
  BY <1>2, <1>3 DEF M

LEMMA UnresolvedMore ==
    ASSUME NEW J \in Seq(Line), NEW e \in Line, NEW k \in Effects \cup {Command},
           ~(Settles(e) /\ e.step = k), e.phase # "commit"
    PROVE  /\ k \in Unresolved(J) => k \in Unresolved(Append(J, e))
           /\ Opens(e) /\ e.step = k => k \in Unresolved(Append(J, e))
<1> DEFINE n == Len(J) + 1
           M == Append(J, e)
<1>1. /\ Len(M) = n /\ DOMAIN M = 1 .. n /\ DOMAIN J = 1 .. Len(J) /\ Len(J) \in Nat
      /\ M[n] = e /\ \A i \in 1 .. Len(J) : M[i] = J[i]
  BY OneMore
<1> HIDE DEF M
<1>2. ASSUME k \in Unresolved(J) PROVE k \in Unresolved(M)
  <2>1. PICK i \in 1 .. Len(J) :
           /\ Opens(J[i]) /\ J[i].step = k
           /\ \A j \in i + 1 .. Len(J) :
                 ~(Settles(J[j]) /\ J[j].step = k) /\ J[j].phase # "commit"
    BY <1>1, <1>2 DEF Unresolved
  <2>2. i \in 1 .. n /\ Opens(M[i]) /\ M[i].step = k
    BY <1>1, <2>1
  <2>3. ASSUME NEW j \in i + 1 .. n
        PROVE  ~(Settles(M[j]) /\ M[j].step = k) /\ M[j].phase # "commit"
    <3>1. CASE j = n
      BY <1>1, <3>1
    <3>2. CASE j # n
      <4>1. j \in i + 1 .. Len(J) /\ j \in 1 .. Len(J)
        BY <1>1, <2>1, <2>3, <3>2
      <4> QED
        BY <1>1, <2>1, <4>1
    <3> QED
      BY <3>1, <3>2
  <2> QED
    BY <1>1, <2>2, <2>3 DEF Unresolved
<1>3. ASSUME Opens(e), e.step = k PROVE k \in Unresolved(M)
  <2>1. n \in 1 .. n /\ n + 1 .. n = {}
    BY <1>1
  <2> QED
    BY <1>1, <1>3, <2>1 DEF Unresolved
<1> QED
  BY <1>2, <1>3 DEF M

LEMMA IntendedMore ==
    ASSUME NEW J \in Seq(Line), NEW e \in Line, NEW k
    PROVE  /\ OnlyIntended(J, k) /\ (e.step = k => e.phase = "intent")
                 => OnlyIntended(Append(J, e), k)
           /\ HasOpened(J) \/ Opens(e) => HasOpened(Append(J, e))
<1> DEFINE n == Len(J) + 1
           M == Append(J, e)
<1>1. /\ DOMAIN M = 1 .. n /\ DOMAIN J = 1 .. Len(J) /\ Len(J) \in Nat
      /\ M[n] = e /\ \A i \in 1 .. Len(J) : M[i] = J[i]
  BY OneMore
<1> HIDE DEF M
<1>2. ASSUME NEW i \in 1 .. n PROVE i = n \/ i \in 1 .. Len(J)
  BY <1>1
<1>3. OnlyIntended(J, k) /\ (e.step = k => e.phase = "intent") => OnlyIntended(M, k)
  BY <1>1, <1>2 DEF OnlyIntended
<1>4. HasOpened(J) \/ Opens(e) => HasOpened(M)
  <2>1. n \in 1 .. n /\ \A i \in 1 .. Len(J) : i \in 1 .. n
    BY <1>1
  <2> QED
    BY <1>1, <2>1 DEF HasOpened
<1> QED
  BY <1>3, <1>4 DEF M

\* An unresolved effect, or one cut short, asks for recovery.
LEMMA UnresolvedAsks ==
    ASSUME NEW J \in Seq(Line), NEW k \in Unresolved(J)
    PROVE  J # <<>> /\ Last(J).phase # "commit" /\ NeedsRecovery(J) /\ HasOpened(J)
<1>1. PICK i \in DOMAIN J :
         /\ Opens(J[i])
         /\ \A j \in i + 1 .. Len(J) : J[j].phase # "commit"
  BY DEF Unresolved
<1>2. J # <<>> /\ Len(J) \in Nat /\ i \in 1 .. Len(J) /\ Last(J) = J[Len(J)]
  BY <1>1 DEF Last
<1>3. Last(J).phase # "commit"
  <2>1. CASE i = Len(J)
    BY <1>1, <1>2, <2>1 DEF Opens
  <2>2. CASE i # Len(J)
    BY <1>1, <1>2, <2>2
  <2> QED
    BY <2>1, <2>2
<1> QED
  BY <1>1, <1>2, <1>3 DEF NeedsRecovery, HasOpened

LEMMA PendingAsks == \A J, k : Pending(J, k) => NeedsRecovery(J)
BY DEF Pending, NeedsRecovery

LEMMA MarkedIsIncomplete == \A J, k : Marked(J, k) => HasIncomplete(J)
<1> SUFFICES ASSUME NEW J, NEW k, Marked(J, k) PROVE HasIncomplete(J)
  OBVIOUS
<1>1. PICK i \in DOMAIN J :
         /\ Opens(J[i]) /\ J[i].step = k
         /\ \A j \in i + 1 .. Len(J) : ~(Settles(J[j]) /\ J[j].step = k)
  BY DEF Marked
<1>2. \A j \in i + 1 .. Len(J) : ~(Settles(J[j]) /\ J[j].step = J[i].step)
  BY <1>1
<1> QED
  BY <1>1, <1>2 DEF HasIncomplete

\* The operation of a process that holds the lock has ended or begun no other.
LEMMA RunFacts ==
    ASSUME IInv, NEW p \in Procs, proc[p].pc \notin Unlocked
    PROVE  /\ proc[p].op \in Ops /\ journal[proc[p].op] \in Seq(Line)
           /\ proc[p].mem \in Seq(Line) /\ proc[p].step \in Nat /\ proc[p].step >= 1
           /\ \A k \in Effects : k \in Nat /\ k >= 1
           /\ \A k \in Effects : world[proc[p].op][k] \in {"absent", "partial", "done"}
           /\ proc[p].pc \in {"acted", "recorded"} => world[proc[p].op][proc[p].step] = "done"
<1>1. proc[p] \in Process /\ ProcOK(proc[p])
  BY DEF IInv, TypeOK, ProcsOK
<1>2. proc[p].op \in Ops /\ op[proc[p].op].effects \in 0 .. Steps
      /\ proc[p].step \in 1 .. op[proc[p].op].effects + 1
  BY Holding
<1>3. journal[proc[p].op] \in Seq(Line)
      /\ \A k \in Effects : world[proc[p].op][k] \in {"absent", "partial", "done"}
  BY <1>2 DEF IInv, TypeOK
<1> QED
  BY <1>1, <1>2, <1>3, BoundsAssumption DEF Process, ProcOK, Effects

\* A line leaves an effect marked and unresolved, but for the effect that it
\* settles.
LEMMA LineKeeps ==
    ASSUME IInv, NEW p \in Procs, proc[p].pc \notin Unlocked, NEW e \in Line,
           NEW k \in Effects, ~(Settles(e) /\ e.step = k)
    PROVE  /\ Marked(proc[p].mem, k) => Marked(Append(proc[p].mem, e), k)
           /\ Opens(e) /\ e.step = k => Marked(Append(proc[p].mem, e), k)
           /\ e.phase # "commit" /\ k \in Unresolved(journal[proc[p].op])
                 => k \in Unresolved(Append(journal[proc[p].op], e))
           /\ e.phase # "commit" /\ Opens(e) /\ e.step = k
                 => k \in Unresolved(Append(journal[proc[p].op], e))
BY RunFacts, MarkedMore, UnresolvedMore

\* A process that goes on with its operation, or appends a line to its journal,
\* its memory or both.
LEMMA RunMoves ==
    ASSUME IInv, NEW p \in Procs, proc[p].pc \notin Unlocked, RunOK(proc[p]), NEW e \in Line,
           proc'[p].op = proc[p].op, proc'[p].step = proc[p].step,
           proc'[p].mem \in {proc[p].mem, Append(proc[p].mem, e)},
           journal'[proc[p].op] \in {journal[proc[p].op], Append(journal[proc[p].op], e)},
           world'[proc[p].op] = world[proc[p].op],
           op[proc[p].op].unrecorded => op'[proc[p].op].unrecorded,
           e.step <= proc[p].step,
           e.phase = "commit" => \A k \in Effects : world[proc[p].op][k] # "partial",
           Settles(e) => e.step = Command \/ (e.step = proc[p].step /\ proc[p].pc = "not-started"),
           proc'[p].pc \notin {"begun", "acting"},
           proc'[p].pc \in Blank => proc[p].pc \in Blank,
           proc'[p].pc \in Fresh => proc[p].pc \in Fresh /\ e.step < proc[p].step,
           proc'[p].pc = "intended" =>
              /\ journal'[proc[p].op] = Append(journal[proc[p].op], e)
              /\ e.phase = "intent" /\ e.step = proc[p].step /\ proc[p].pc \in Fresh,
           proc'[p].pc = "unproven" => proc[p].pc \in {"intended", "acted", "recorded"},
           proc[p].pc \in Unmarked =>
              \/ proc'[p].pc = "unproven"
              \/ op'[proc[p].op].unrecorded
              \/ /\ Opens(e) /\ e.step = proc[p].step
                 /\ proc'[p].mem = Append(proc[p].mem, e)
                 /\ journal'[proc[p].op] = Append(journal[proc[p].op], e)
    PROVE  RunOK(proc[p])'
<1> DEFINE o == proc[p].op
           s == proc[p].step
           J == journal[o]
<1>1. /\ o \in Ops /\ J \in Seq(Line) /\ s \in Nat /\ s >= 1 /\ proc[p].mem \in Seq(Line)
      /\ \A k \in Effects : k \in Nat /\ k >= 1
  BY RunFacts
<1>2. AbsentOK(proc[p])'
  BY DEF RunOK, AbsentOK
<1>3. LinesOK(proc[p])'
  <2> SUFFICES ASSUME NEW i \in DOMAIN journal'[o]
               PROVE  /\ journal'[o][i].step <= s
                      /\ proc'[p].pc \in Fresh => journal'[o][i].step < s
    BY DEF LinesOK
  <2>1. \A j \in DOMAIN J : J[j].step <= s /\ (proc[p].pc \in Fresh => J[j].step < s)
    BY DEF RunOK, LinesOK
  <2>2. (i \in DOMAIN J /\ journal'[o][i] = J[i]) \/ journal'[o][i] = e
    <3>1. CASE journal'[o] = J
      BY <3>1
    <3>2. CASE journal'[o] = Append(J, e)
      BY <1>1, <3>2, OneMore
    <3> QED
      BY <3>1, <3>2
  <2> QED
    BY <2>1, <2>2
<1>4. IntentOK(proc[p])'
  <2>1. CASE proc'[p].pc = "intended"
    <3>1. journal'[o] = Append(J, e) /\ e.phase = "intent" /\ e.step = s /\ proc[p].pc \in Fresh
      BY <2>1
    <3>2. journal'[o] # <<>> /\ Last(journal'[o]) = e
      <4>1. Append(J, e) # <<>> /\ Last(Append(J, e)) = e
        BY <1>1, OneMore
      <4> QED
        BY <3>1, <4>1
    <3>3. OnlyIntended(J, s)
      <4>1. \A i \in DOMAIN J : J[i] \in Line /\ J[i].step < s
        BY <1>1, <3>1 DEF RunOK, LinesOK
      <4>2. \A i \in DOMAIN J : J[i].step # s
        BY <1>1, <4>1, BoundsAssumption DEF Line, Effects, Command
      <4> QED
        BY <4>2 DEF OnlyIntended
    <3>4. OnlyIntended(journal'[o], s)
      BY <1>1, <3>1, <3>3, IntendedMore
    <3> QED
      BY <3>1, <3>2, <3>4 DEF IntentOK
  <2>2. CASE proc'[p].pc = "unproven"
    <3>1. world[o][s] # "partial"
      <4>1. CASE proc[p].pc = "intended"
        <5>1. s \in Effects
          BY <4>1, Holding DEF Executing
        <5> QED
          BY <4>1, <5>1 DEF RunOK, AbsentOK, Blank
      <4>2. CASE proc[p].pc \in {"acted", "recorded"}
        BY <4>2, RunFacts
      <4> QED
        BY <2>2, <4>1, <4>2
    <3> QED
      BY <2>2, <3>1 DEF IntentOK
  <2>3. CASE proc'[p].pc \notin {"intended", "unproven"}
    BY <2>3 DEF IntentOK
  <2> QED
    BY <2>1, <2>2, <2>3
<1>5. ASSUME NEW k \in Effects, world[o][k] # "absent" PROVE ~(Settles(e) /\ e.step = k)
  BY <1>1, <1>5 DEF RunOK, AbsentOK, Blank, Command
<1>6. MarksOK(proc[p])'
  <2> SUFFICES ASSUME NEW k \in Effects, world[o][k] # "absent"
               PROVE  \/ op'[o].unrecorded \/ Marked(proc'[p].mem, k)
                      \/ k = s /\ proc'[p].pc \in Unmarked
    BY DEF MarksOK
  <2>1. \/ op[o].unrecorded \/ Marked(proc[p].mem, k)
        \/ k = s /\ proc[p].pc \in Unmarked
    BY DEF RunOK, MarksOK
  <2>2. ~(Settles(e) /\ e.step = k)
    BY <1>5
  <2>3. /\ Marked(proc[p].mem, k) => Marked(Append(proc[p].mem, e), k)
        /\ Opens(e) /\ e.step = k => Marked(Append(proc[p].mem, e), k)
    BY <2>2, LineKeeps
  <2>4. CASE Marked(proc[p].mem, k)
    BY <2>3, <2>4
  <2>5. CASE k = s /\ proc[p].pc \in Unmarked
    BY <2>3, <2>5 DEF Unmarked
  <2> QED
    BY <2>1, <2>4, <2>5
<1>7. PartsOK(proc[p])'
  <2> SUFFICES ASSUME NEW k \in Effects, world[o][k] = "partial"
               PROVE  \/ op'[o].unrecorded \/ k \in Unresolved(journal'[o])
                      \/ k = s /\ proc'[p].pc \in {"acting", "unproven"}
    BY DEF PartsOK
  <2>1. \/ op[o].unrecorded \/ k \in Unresolved(J)
        \/ k = s /\ proc[p].pc \in {"acting", "unproven"}
    BY DEF RunOK, PartsOK
  <2>2. ~(Settles(e) /\ e.step = k) /\ e.phase # "commit"
    BY <1>5
  <2>3. /\ k \in Unresolved(J) => k \in Unresolved(Append(J, e))
        /\ Opens(e) /\ e.step = k => k \in Unresolved(Append(J, e))
    BY <2>2, LineKeeps
  <2>4. CASE k \in Unresolved(J)
    BY <2>3, <2>4
  <2>5. CASE k = s /\ proc[p].pc \in {"acting", "unproven"}
    BY <2>3, <2>5 DEF Unmarked
  <2> QED
    BY <2>1, <2>4, <2>5
<1> QED
  BY <1>2, <1>3, <1>4, <1>6, <1>7 DEF RunOK

\* The action of the present step.
LEMMA RunActs ==
    ASSUME IInv, NEW p \in Procs, RunOK(proc[p]),
           StartAction(p) \/ FinishAction(p) \/ ActionFails(p)
    PROVE  RunOK(proc[p])'
<1> DEFINE o == proc[p].op
           s == proc[p].step
<1>1. /\ proc \in [Procs -> Process] /\ proc[p].pc \notin Unlocked
      /\ proc[p].pc \in {"intended", "acting"} /\ UNCHANGED journal
  BY DEF IInv, TypeOK, StartAction, FinishAction, ActionFails, Unlocked
<1>2. o \in Ops /\ s \in Effects /\ \A k \in Effects : k \in Nat
  BY <1>1, Holding, RunFacts DEF Executing
<1>3. PICK pc \in {"acting", "acted", "unproven"}, state \in {"partial", "done"} :
         World(p, state) /\ Goto(p, pc) /\ (pc = "acted" => state = "done")
  BY DEF StartAction, FinishAction, ActionFails
<1>4. /\ proc'[p].pc = pc /\ proc'[p].op = o /\ proc'[p].step = s
      /\ proc'[p].mem = proc[p].mem
  BY <1>1, <1>3 DEF Goto, Process
<1>5. /\ world'[o][s] = state /\ \A k \in Effects : k # s => world'[o][k] = world[o][k]
  BY <1>2, <1>3 DEF World, IInv, TypeOK
<1>6. op' = op
  BY DEF StartAction, FinishAction, ActionFails
<1>7. /\ pc \notin Blank /\ pc \notin Fresh /\ pc \in Unmarked /\ pc # "begun"
      /\ proc[p].pc \notin Unmarked \/ proc[p].pc = "acting"
  BY <1>1 DEF Blank, Fresh, Recovering, Unmarked
<1>8. AbsentOK(proc[p])'
  BY <1>2, <1>4, <1>5, <1>7 DEF RunOK, AbsentOK
<1>9. LinesOK(proc[p])'
  BY <1>1, <1>4, <1>7 DEF RunOK, LinesOK
<1>10. IntentOK(proc[p])'
  BY <1>1, <1>4 DEF RunOK, IntentOK
<1>11. MarksOK(proc[p])'
  BY <1>4, <1>5, <1>6, <1>7 DEF RunOK, MarksOK
<1>12. PartsOK(proc[p])'
  BY <1>1, <1>3, <1>4, <1>5, <1>6 DEF RunOK, PartsOK
<1> QED
  BY <1>4, <1>7, <1>8, <1>9, <1>10, <1>11, <1>12 DEF RunOK

\* On to the next step.
LEMMA RunVerified ==
    ASSUME IInv, NEW p \in Procs, RunOK(proc[p]), VerifyEffect(p)
    PROVE  RunOK(proc[p])'
<1> DEFINE o == proc[p].op
           s == proc[p].step
           J == journal[o]
           e == Entry("verify", s, "none")
<1>1. /\ proc \in [Procs -> Process] /\ proc[p].pc = "recorded" /\ proc[p].pc \notin Unlocked
      /\ world' = world /\ op' = op
  BY DEF IInv, TypeOK, VerifyEffect, Unlocked
<1>2. /\ o \in Ops /\ s \in Effects /\ J \in Seq(Line) /\ \A k \in Effects : k \in Nat
      /\ proc[p].mem \in Seq(Line)
  BY <1>1, Holding, RunFacts DEF Executing
<1>3. /\ e \in Line /\ e.step = s /\ e.phase = "verify" /\ ~Settles(e)
  BY <1>2, EntryType DEF Phases, Notes, Entry, Settles
<1>4. /\ proc'[p].pc = "effect" /\ proc'[p].op = o /\ proc'[p].step = s + 1
      /\ proc'[p].mem = Append(proc[p].mem, e) /\ journal'[o] = Append(J, e)
  BY <1>1, <1>2 DEF VerifyEffect, Process, Written, IInv, TypeOK
<1> HIDE DEF e
<1>5. AbsentOK(proc[p])'
  BY <1>1, <1>2, <1>4 DEF RunOK, AbsentOK
<1>6. LinesOK(proc[p])'
  <2> SUFFICES ASSUME NEW i \in DOMAIN journal'[o]
               PROVE  journal'[o][i].step < s + 1 /\ journal'[o][i].step <= s + 1
    BY <1>4 DEF LinesOK
  <2>1. \A j \in DOMAIN J : J[j] \in Line /\ J[j].step <= s
    BY <1>2 DEF RunOK, LinesOK
  <2>2. (i \in DOMAIN J /\ journal'[o][i] = J[i]) \/ journal'[o][i] = e
    BY <1>2, <1>3, <1>4, OneMore
  <2>3. journal'[o][i].step <= s /\ journal'[o][i].step \in Effects \cup {Command}
    BY <1>2, <1>3, <2>1, <2>2 DEF Line
  <2> QED
    BY <1>2, <2>3 DEF Command
<1>7. IntentOK(proc[p])'
  BY <1>4 DEF IntentOK
<1>8. \A k \in Effects :
         /\ Marked(proc[p].mem, k) => Marked(Append(proc[p].mem, e), k)
         /\ k \in Unresolved(J) => k \in Unresolved(Append(J, e))
  BY <1>1, <1>3, LineKeeps
<1>9. MarksOK(proc[p])'
  BY <1>1, <1>4, <1>8 DEF RunOK, MarksOK, Unmarked
<1>10. PartsOK(proc[p])'
  BY <1>1, <1>4, <1>8 DEF RunOK, PartsOK
<1> QED
  BY <1>4, <1>5, <1>6, <1>7, <1>9, <1>10 DEF RunOK

\* While a process holds the lock, nobody else runs an operation.
LEMMA OthersIdle ==
    ASSUME IInv, NEW p \in Procs, holder = p, NEW q \in Procs, q # p
    PROVE  proc[q].pc \in Unlocked /\ proc[q].op = 0 /\ 0 \notin Ops
BY DEF IInv, LockOK, ProcsOK, ProcOK, Ops

\* A process that keeps the lock: what its step does to its own operation and
\* to the one it recovers.
LEMMA NoteHeld ==
    ASSUME IInv, NoteInv, NEW p \in Procs, proc[p].pc \notin Unlocked,
           \A q \in Procs : q # p => proc'[q] = proc[q],
           proc'[p].pc \notin Unlocked, proc'[p].op = proc[p].op,
           RunOK(proc[p])', proc'[p].pc \in Settling => TargetOK(proc[p])',
           \A o \in Ops : op'[o].command = op[o].command /\ op'[o].report = op[o].report,
           \A o \in Ops : o # proc[p].op =>
              /\ op'[o] = op[o]
              /\ \A k \in Effects : world'[o][k] \in {world[o][k], "absent"}
              /\ \/ journal'[o] = journal[o] /\ world'[o] = world[o]
                 \/ OverOK(o)'
    PROVE  NoteInv'
<1>1. holder = p /\ proc[p].op \in Ops /\ op[proc[p].op].command # "none"
      /\ op[proc[p].op].report = "none"
  BY Holding
<1>2. ASSUME NEW q \in Procs
      PROVE  /\ (proc'[q].pc \in Unlocked => proc'[q].mem = <<>>)
             /\ (proc'[q].pc \notin Unlocked => RunOK(proc[q])')
             /\ (proc'[q].pc \in Settling => TargetOK(proc[q])')
  <2>1. CASE q = p
    BY <2>1
  <2>2. CASE q # p
    <3>1. proc'[q] = proc[q] /\ proc[q].pc \in Unlocked
      BY <1>1, <2>2, OthersIdle
    <3> QED
      BY <3>1 DEF NoteInv, Unlocked, Settling
  <2> QED
    BY <2>1, <2>2
<1>3. ASSUME NEW o \in Ops, op'[o].command = "none", NEW k \in Effects
      PROVE  world'[o][k] = "absent"
  BY <1>1, <1>3 DEF NoteInv
<1>4. ASSUME NEW o \in Ops, Over(o)' PROVE OverOK(o)'
  <2>1. o # proc[p].op
    BY <1>4 DEF Over
  <2>2. Over(o)
    BY <1>1, <1>4, <2>1 DEF Over
  <2>3. OverOK(o)
    BY <2>2 DEF NoteInv
  <2>4. CASE journal'[o] = journal[o] /\ world'[o] = world[o]
    BY <2>1, <2>3, <2>4 DEF OverOK, Overlooked
  <2> QED
    BY <2>1, <2>4
<1>5. PlainFailureIsClean'
  <2> SUFFICES ASSUME NEW o \in Ops, NEW k \in Effects, op'[o].report = "failed"
               PROVE  world'[o][k] = "absent" \/ op'[o].unrecorded
    BY DEF PlainFailureIsClean
  <2>1. o # proc[p].op
    BY <1>1
  <2>2. op[o].report = "failed"
    OBVIOUS
  <2>3. world[o][k] = "absent" \/ op[o].unrecorded
    BY <2>2 DEF NoteInv, PlainFailureIsClean
  <2> QED
    BY <2>1, <2>3
<1> QED
  BY <1>2, <1>3, <1>4, <1>5 DEF NoteInv

\* A process that ends its command, or dies.
LEMMA NoteEnd ==
    ASSUME IInv, NoteInv, NEW p \in Procs, proc[p].pc \notin Unlocked,
           NEW r \in Ops, r = proc[p].op,
           proc' = [proc EXCEPT ![p] = Idle], world' = world,
           \A o \in Ops : op'[o].command = op[o].command,
           \A o \in Ops : o # r => op'[o] = op[o] /\ journal'[o] = journal[o],
           OverOK(r)',
           op'[r].report = "failed" =>
              \A k \in Effects :
                 world[r][k] = "absent" \/ op'[r].unrecorded
    PROVE  NoteInv'
<1>1. holder = p /\ proc[p].op \in Ops /\ op[proc[p].op].command # "none"
  BY Holding
<1>2. proc \in [Procs -> Process]
  BY DEF IInv, TypeOK
<1>3. \A q \in Procs : proc'[q].pc \in Unlocked /\ proc'[q].mem = <<>>
  <2> SUFFICES ASSUME NEW q \in Procs PROVE proc'[q].pc \in Unlocked /\ proc'[q].mem = <<>>
    OBVIOUS
  <2>1. CASE q = p
    BY <1>2, <2>1 DEF Idle, Unlocked
  <2>2. CASE q # p
    <3>1. proc'[q] = proc[q] /\ proc[q].pc \in Unlocked
      BY <1>1, <1>2, <2>2, OthersIdle
    <3> QED
      BY <3>1 DEF NoteInv
  <2> QED
    BY <2>1, <2>2
<1>4. ASSUME NEW o \in Ops, Over(o)' PROVE OverOK(o)'
  <2>1. CASE o = r
    BY <2>1
  <2>2. CASE o # r
    <3>1. op'[o] = op[o] /\ journal'[o] = journal[o]
      BY <2>2
    <3>2. \A q \in Procs : proc[q].op # o
      BY <1>1, <2>2, OthersIdle
    <3>3. OverOK(o)
      BY <1>4, <3>1, <3>2 DEF NoteInv, Over
    <3> QED
      BY <3>1, <3>3 DEF OverOK, Overlooked
  <2> QED
    BY <2>1, <2>2
<1>5. PlainFailureIsClean'
  <2> SUFFICES ASSUME NEW o \in Ops, NEW k \in Effects, op'[o].report = "failed"
               PROVE  world'[o][k] = "absent" \/ op'[o].unrecorded
    BY DEF PlainFailureIsClean
  <2>1. CASE o = r
    BY <2>1
  <2>2. CASE o # r
    BY <2>2 DEF NoteInv, PlainFailureIsClean
  <2> QED
    BY <2>1, <2>2
<1> QED
  BY <1>3, <1>4, <1>5 DEF NoteInv, Unlocked, Settling

\* The journal of an operation that ends asks for recovery, if recovery has
\* something to do.
LEMMA EndOver ==
    ASSUME IInv, NEW p \in Procs, proc[p].pc \notin Unlocked, RunOK(proc[p]), NEW e \in Line,
           NEW o \in Ops, o = proc[p].op,
           \/ journal'[o] = journal[o]
           \/ /\ journal'[o] = Append(journal[o], e)
              /\ proc[p].pc \notin Unmarked
              /\ Settles(e) => e.step = Command
              /\ e.phase = "commit" => \A k \in Effects : world[o][k] # "partial",
           world' = world,
           op'[o].unrecorded = op[o].unrecorded
    PROVE  OverOK(o)'
<1> DEFINE J == journal[o]
<1> SUFFICES ASSUME NEW k \in Effects, world[o][k] = "partial"
             PROVE  \/ op'[o].unrecorded \/ k \in Unresolved(journal'[o])
                    \/ Pending(journal'[o], k) \/ Overlooked(o, k)'
  BY DEF OverOK
<1>1. \/ op[o].unrecorded \/ k \in Unresolved(J)
      \/ k = proc[p].step /\ proc[p].pc \in {"acting", "unproven"}
  BY DEF RunOK, PartsOK
<1>2. CASE journal'[o] = J
  <2>1. CASE k = proc[p].step /\ proc[p].pc \in {"acting", "unproven"}
    <3>1. J # <<>> /\ Last(J).phase = "intent" /\ Last(J).step = k /\ OnlyIntended(J, k)
      BY <2>1 DEF RunOK, IntentOK
    <3> QED
      BY <1>2, <3>1 DEF Pending
  <2> QED
    BY <1>1, <1>2, <2>1
<1>3. CASE /\ journal'[o] = Append(J, e)
           /\ proc[p].pc \notin Unmarked
           /\ Settles(e) => e.step = Command
           /\ e.phase = "commit" => \A j \in Effects : world[o][j] # "partial"
  <2>1. ~(Settles(e) /\ e.step = k) /\ e.phase # "commit"
    BY <1>3, RunFacts DEF Command
  <2>2. k \in Unresolved(J) => k \in Unresolved(Append(J, e))
    BY <2>1, LineKeeps
  <2> QED
    BY <1>1, <1>3, <2>2 DEF Unmarked
<1> QED
  BY <1>2, <1>3

\* An operation whose memory is complete, and with no effect at hand, has left
\* nothing behind.
LEMMA CleanMemory ==
    ASSUME NEW p \in Procs, RunOK(proc[p]), proc[p].pc \notin Unmarked,
           ~HasIncomplete(proc[p].mem)
    PROVE  \A k \in Effects : world[proc[p].op][k] = "absent" \/ op[proc[p].op].unrecorded
<1>1. \A k : ~Marked(proc[p].mem, k)
  BY MarkedIsIncomplete
<1> QED
  BY <1>1 DEF RunOK, MarksOK

-----------------------------------------------------------------------------
(***************************************************************************)
(* The steps keep the notes.                                               *)
(***************************************************************************)
LEMMA RunHolds ==
    ASSUME NoteInv, NEW p \in Procs, proc[p].pc \notin Unlocked
    PROVE  RunOK(proc[p])
BY DEF NoteInv

\* What an append to the own journal does to the files.
LEMMA OwnLine ==
    ASSUME IInv, NEW p \in Procs, proc[p].pc \notin Unlocked, NEW e,
           NotWritten(proc[p].op, proc[p].mem, e)
    PROVE  /\ journal'[proc[p].op] \in {journal[proc[p].op], Append(journal[proc[p].op], e)}
           /\ \A o \in Ops : o # proc[p].op => journal'[o] = journal[o]
           /\ Written(proc[p].op, proc[p].mem, e) =>
                 journal'[proc[p].op] = Append(journal[proc[p].op], e)
BY RunFacts DEF NotWritten, Written, IInv, TypeOK

\* A step that leaves the own operation alone: a move from one place to
\* another, or one of recovery.
LEMMA QuietNote ==
    ASSUME IInv, NoteInv, NEW p \in Procs, proc[p].pc \notin Unlocked,
           \A q \in Procs : q # p => proc'[q] = proc[q],
           proc'[p].op = proc[p].op, proc'[p].step = proc[p].step,
           proc'[p].mem = proc[p].mem,
           proc'[p].pc \notin Unlocked \cup {"begun", "acting", "intended"},
           proc'[p].pc \in Blank => proc[p].pc \in Blank,
           proc'[p].pc \in Fresh => proc[p].pc \in Fresh,
           proc'[p].pc = "unproven" => proc[p].pc = "intended",
           proc[p].pc \notin Unmarked,
           op' = op, journal'[proc[p].op] = journal[proc[p].op],
           world'[proc[p].op] = world[proc[p].op],
           proc'[p].pc \in Settling => TargetOK(proc[p])',
           \A o \in Ops : o # proc[p].op =>
              /\ \A k \in Effects : world'[o][k] \in {world[o][k], "absent"}
              /\ \/ journal'[o] = journal[o] /\ world'[o] = world[o]
                 \/ OverOK(o)'
    PROVE  NoteInv'
<1> DEFINE e == Entry("intent", Command, "none")
<1>1. e \in Line /\ e.step = 0 /\ e.phase = "intent" /\ ~Settles(e)
  BY EntryType DEF Phases, Notes, Entry, Settles, Command
<1>2. proc[p].step >= 1 /\ proc[p].step \in Nat
  BY RunFacts
<1> HIDE DEF e
<1>3. RunOK(proc[p])'
  BY <1>1, <1>2, RunHolds, RunMoves, SMTT(30)
<1> HIDE DEF NoteInv, IInv
<1> QED
  BY <1>3, NoteHeld

\* A step that may append a line to the own journal.
LEMMA LineNote ==
    ASSUME IInv, NoteInv, NEW p \in Procs, proc[p].pc \notin Unlocked, NEW e \in Line,
           \A q \in Procs : q # p => proc'[q] = proc[q],
           proc'[p].op = proc[p].op, proc'[p].step = proc[p].step,
           proc'[p].mem \in {proc[p].mem, Append(proc[p].mem, e)},
           NotWritten(proc[p].op, proc[p].mem, e), UNCHANGED world,
           \A o \in Ops : /\ op'[o].command = op[o].command /\ op'[o].report = op[o].report
                          /\ op'[o] = op[o] \/ (o = proc[p].op /\ op'[o].unrecorded),
           e.step <= proc[p].step,
           e.phase = "commit" => \A k \in Effects : world[proc[p].op][k] # "partial",
           Settles(e) => e.step = Command \/ (e.step = proc[p].step /\ proc[p].pc = "not-started"),
           proc'[p].pc \notin Unlocked \cup Settling \cup {"begun", "acting"},
           proc'[p].pc \in Blank => proc[p].pc \in Blank,
           proc'[p].pc \in Fresh => proc[p].pc \in Fresh /\ e.step < proc[p].step,
           proc'[p].pc = "intended" =>
              /\ journal'[proc[p].op] = Append(journal[proc[p].op], e)
              /\ e.phase = "intent" /\ e.step = proc[p].step /\ proc[p].pc \in Fresh,
           proc'[p].pc = "unproven" => proc[p].pc \in {"intended", "acted", "recorded"},
           proc[p].pc \in Unmarked =>
              \/ proc'[p].pc = "unproven"
              \/ op'[proc[p].op].unrecorded
              \/ /\ Opens(e) /\ e.step = proc[p].step
                 /\ proc'[p].mem = Append(proc[p].mem, e)
                 /\ journal'[proc[p].op] = Append(journal[proc[p].op], e)
    PROVE  NoteInv'
<1>1. /\ journal'[proc[p].op] \in {journal[proc[p].op], Append(journal[proc[p].op], e)}
      /\ \A o \in Ops : o # proc[p].op => journal'[o] = journal[o]
  BY OwnLine
<1>2. proc[p].op \in Ops
  BY RunFacts
<1>3. op[proc[p].op].unrecorded => op'[proc[p].op].unrecorded
  BY <1>2
<1>4. RunOK(proc[p])'
  BY <1>1, <1>3, RunHolds, RunMoves
<1> HIDE DEF NoteInv, IInv
<1> QED
  BY <1>1, <1>4, NoteHeld

\* A line that is written, and where it leads.
LEMMA LogNote ==
    ASSUME IInv, NoteInv, NEW p \in Procs, proc[p].pc \notin Unlocked, NEW e \in Line,
           NEW pc, Log(p, e, pc), UNCHANGED <<world, op>>,
           e.step <= proc[p].step, e.phase # "commit",
           Settles(e) => e.step = proc[p].step /\ proc[p].pc = "not-started",
           \/ proc[p].pc = "begun" /\ pc \in {"next", "effect"} /\ e.step = Command
           \/ proc[p].pc = "effect" /\ pc = "intended" /\ e.phase = "intent"
                 /\ e.step = proc[p].step
           \/ proc[p].pc \in {"acted", "unproven"} /\ pc \in {"recorded", "catch"}
                 /\ Opens(e) /\ e.step = proc[p].step
           \/ proc[p].pc = "not-started" /\ pc = "catch"
    PROVE  NoteInv'
<1>1. proc \in [Procs -> Process]
  BY DEF IInv, TypeOK
<1>2. /\ proc'[p].op = proc[p].op /\ proc'[p].step = proc[p].step /\ proc'[p].pc = pc
      /\ proc'[p].mem = Append(proc[p].mem, e)
      /\ \A q \in Procs : q # p => proc'[q] = proc[q]
  BY <1>1 DEF Log, Process
<1>3. NotWritten(proc[p].op, proc[p].mem, e)
      /\ journal'[proc[p].op] = Append(journal[proc[p].op], e)
  BY OwnLine DEF Log, NotWritten
<1>4. proc[p].step \in Nat /\ proc[p].step >= 1
  BY RunFacts
<1>5. /\ pc \notin Unlocked \cup Settling \cup {"begun", "acting"}
      /\ pc \in Blank => proc[p].pc \in Blank
      /\ pc \in Fresh => proc[p].pc \in Fresh /\ e.step < proc[p].step
      /\ pc = "intended" => /\ e.phase = "intent" /\ e.step = proc[p].step
                            /\ proc[p].pc \in Fresh
      /\ pc # "unproven"
      /\ proc[p].pc \in Unmarked => Opens(e) /\ e.step = proc[p].step
  BY <1>4 DEF Unlocked, Settling, Blank, Fresh, Recovering, Unmarked, Command
<1> HIDE DEF NoteInv, IInv
<1> QED
  BY <1>2, <1>3, <1>5, LineNote

LEMMA RunEffectNote ==
    ASSUME IInv, NoteInv, NEW p \in Procs, RunEffect(p)
    PROVE  NoteInv'
<1>1. /\ proc \in [Procs -> Process] /\ op \in [Ops -> Operation]
      /\ world \in [Ops -> [Effects -> {"absent", "partial", "done"}]]
  BY DEF IInv, TypeOK
<1>2. CASE IntendEffect(p)
  <2> DEFINE e == Entry("intent", proc[p].step, "none")
  <2>1. proc[p].pc = "effect" /\ proc[p].pc \notin Unlocked /\ Log(p, e, "intended")
        /\ UNCHANGED <<world, op>>
    BY <1>2 DEF IntendEffect, Unlocked
  <2>2. proc[p].step \in Effects /\ proc[p].step \in Nat
    BY <1>2, <2>1, Holding, RunFacts DEF IntendEffect
  <2>3. e \in Line /\ e.phase = "intent" /\ e.step = proc[p].step /\ ~Settles(e)
    BY <2>2, EntryType DEF Phases, Notes, Entry, Settles
  <2> HIDE DEF e
  <2> QED
    BY <2>1, <2>2, <2>3, LogNote
<1>3. CASE CancelledBeforeEffect(p) \/ ActionNotStarted(p)
  <2>1. /\ proc[p].pc = "intended" /\ UNCHANGED <<journal, world, op>>
        /\ \E pc \in {"catch", "not-started", "unproven"} : Goto(p, pc)
    BY <1>3 DEF CancelledBeforeEffect, ActionNotStarted
  <2>2. PICK pc \in {"catch", "not-started", "unproven"} : Goto(p, pc)
    BY <2>1
  <2>3. /\ proc'[p].op = proc[p].op /\ proc'[p].step = proc[p].step /\ proc'[p].pc = pc
        /\ proc'[p].mem = proc[p].mem
        /\ \A q \in Procs : q # p => proc'[q] = proc[q]
    BY <1>1, <2>2 DEF Goto, Process
  <2> QED
    BY <2>1, <2>2, <2>3, QuietNote
       DEF Unlocked, Blank, Fresh, Recovering, Unmarked, Settling
<1>4. CASE StartAction(p) \/ FinishAction(p) \/ ActionFails(p)
  <2>1. /\ proc[p].pc \in {"intended", "acting"} /\ UNCHANGED <<journal, op>>
        /\ \E pc \in {"acting", "acted", "unproven"} : Goto(p, pc)
        /\ \E state \in {"partial", "done"} : World(p, state)
    BY <1>4 DEF StartAction, FinishAction, ActionFails
  <2>2. PICK pc \in {"acting", "acted", "unproven"} : Goto(p, pc)
    BY <2>1
  <2>3. /\ proc'[p].op = proc[p].op /\ proc'[p].pc = pc
        /\ \A q \in Procs : q # p => proc'[q] = proc[q]
    BY <1>1, <2>2 DEF Goto, Process
  <2>4. proc[p].pc \notin Unlocked /\ pc \notin Unlocked /\ pc \notin Settling
    BY <2>1 DEF Unlocked, Settling
  <2>5. RunOK(proc[p])'
    BY <1>4, <2>4, RunHolds, RunActs
  <2>6. proc[p].op \in Ops /\ \A o \in Ops : o # proc[p].op => world'[o] = world[o]
    BY <1>1, <2>1, <2>4, RunFacts DEF World
  <2> QED
    BY <2>1, <2>3, <2>4, <2>5, <2>6, NoteHeld
<1>5. CASE RecordEffect(p)
  <2> DEFINE e == Entry("effect", proc[p].step, "none")
  <2>1. proc[p].pc = "acted" /\ proc[p].pc \notin Unlocked /\ Log(p, e, "recorded")
        /\ UNCHANGED <<world, op>>
    BY <1>5 DEF RecordEffect, Unlocked
  <2>2. proc[p].step \in Effects /\ proc[p].step \in Nat
    BY <2>1, Holding, RunFacts DEF Executing
  <2>3. /\ e \in Line /\ e.phase = "effect" /\ e.step = proc[p].step /\ ~Settles(e)
        /\ Opens(e)
    BY <2>2, EntryType DEF Phases, Notes, Entry, Settles, Opens
  <2> HIDE DEF e
  <2> QED
    BY <2>1, <2>2, <2>3, LogNote
<1>6. CASE VerifyEffect(p)
  <2>1. /\ proc[p].pc \notin Unlocked
        /\ Written(proc[p].op, proc[p].mem, Entry("verify", proc[p].step, "none"))
        /\ UNCHANGED <<world, op>>
    BY <1>6 DEF VerifyEffect, Unlocked
  <2>2. /\ proc'[p].op = proc[p].op /\ proc'[p].pc = "effect"
        /\ \A q \in Procs : q # p => proc'[q] = proc[q]
    BY <1>1, <1>6 DEF VerifyEffect, Process
  <2>3. RunOK(proc[p])'
    BY <1>6, <2>1, RunHolds, RunVerified
  <2>4. \A o \in Ops : o # proc[p].op => journal'[o] = journal[o]
    BY <2>1, OwnLine DEF NotWritten
  <2> QED
    BY <2>1, <2>2, <2>3, <2>4, NoteHeld DEF Unlocked, Settling
<1>7. CASE RecordUnproven(p)
  <2> DEFINE e == Entry("compensate", proc[p].step, "unproven")
  <2>1. proc[p].pc = "unproven" /\ proc[p].pc \notin Unlocked /\ Log(p, e, "catch")
        /\ UNCHANGED <<world, op>>
    BY <1>7 DEF RecordUnproven, Unlocked
  <2>2. proc[p].step \in Effects /\ proc[p].step \in Nat
    BY <2>1, Holding, RunFacts DEF Executing
  <2>3. /\ e \in Line /\ e.phase = "compensate" /\ e.step = proc[p].step /\ ~Settles(e)
        /\ Opens(e)
    BY <2>2, EntryType DEF Phases, Notes, Entry, Settles, Opens
  <2> HIDE DEF e
  <2> QED
    BY <2>1, <2>2, <2>3, LogNote
<1>8. CASE RecordNotStarted(p)
  <2> DEFINE e == Entry("compensate", proc[p].step, "settled")
  <2>1. proc[p].pc = "not-started" /\ proc[p].pc \notin Unlocked /\ Log(p, e, "catch")
        /\ UNCHANGED <<world, op>>
    BY <1>8 DEF RecordNotStarted, Unlocked
  <2>2. proc[p].step \in Effects /\ proc[p].step \in Nat
    BY <2>1, Holding, RunFacts DEF Executing
  <2>3. e \in Line /\ e.phase = "compensate" /\ e.step = proc[p].step
    BY <2>2, EntryType DEF Phases, Notes, Entry
  <2> HIDE DEF e
  <2> QED
    BY <2>1, <2>2, <2>3, LogNote
<1> QED
  BY <1>2, <1>3, <1>4, <1>5, <1>6, <1>7, <1>8 DEF RunEffect

\* A process that ends its command, with its last line written or lost.
LEMMA LastNote ==
    ASSUME IInv, NoteInv, NEW p \in Procs, proc[p].pc \notin Unlocked \cup Unmarked,
           NEW e \in Line, NEW r, NotWritten(proc[p].op, proc[p].mem, e), End(p, r),
           UNCHANGED world,
           Settles(e) => e.step = Command,
           e.phase = "commit" => \A k \in Effects : world[proc[p].op][k] # "partial",
           r = "failed" => ~HasIncomplete(proc[p].mem)
    PROVE  NoteInv'
<1> DEFINE o == proc[p].op
<1>1. /\ proc \in [Procs -> Process] /\ op \in [Ops -> Operation] /\ o \in Ops
  BY RunFacts DEF IInv, TypeOK
<1>2. RunOK(proc[p])
  BY RunHolds
<1>3. /\ journal'[o] \in {journal[o], Append(journal[o], e)}
      /\ \A q \in Ops : q # o => journal'[q] = journal[q]
  BY OwnLine
<1>4. /\ op'[o].unrecorded = op[o].unrecorded /\ op'[o].report = r
      /\ \A q \in Ops : op'[q].command = op[q].command
      /\ \A q \in Ops : q # o => op'[q] = op[q]
      /\ proc' = [proc EXCEPT ![p] = Idle] /\ world' = world
  BY <1>1 DEF End, Operation
<1>5. PICK t \in Ops : t = o
  BY <1>1
<1>6. OverOK(t)'
  BY <1>2, <1>3, <1>4, <1>5, EndOver
<1>7. r = "failed" => \A k \in Effects : world[o][k] = "absent" \/ op[o].unrecorded
  BY <1>2, CleanMemory
<1> HIDE DEF NoteInv, IInv
<1> QED
  BY <1>3, <1>4, <1>5, <1>6, <1>7, NoteEnd

\* What the catch block writes and reports.
LEMMA LastWordFacts ==
    ASSUME NEW p \in Procs
    PROVE  /\ LastWord(p).phase \in {"cancel", "compensate"} /\ LastWord(p).step = Command
           /\ FailureReport(p) = "failed" => ~HasIncomplete(proc[p].mem)
BY DEF LastWord, FailureReport, Entry

\* Nothing has happened yet, and nothing is remembered.
LEMMA BegunClean ==
    ASSUME NEW p \in Procs, RunOK(proc[p]), proc[p].pc = "begun"
    PROVE  ~HasIncomplete(proc[p].mem)
BY DEF RunOK, HasIncomplete

\* Past the last effect, none is there in part.
LEMMA AllDone ==
    ASSUME IInv, NEW p \in Procs, RunOK(proc[p]), proc[p].pc = "effect", ~More(p)
    PROVE  \A k \in Effects : world[proc[p].op][k] # "partial"
<1>1. ProcOK(proc[p]) /\ proc[p].pc \notin Unlocked
  BY DEF IInv, ProcsOK, Unlocked
<1>2. op[proc[p].op].effects \in Nat /\ proc[p].step = op[proc[p].op].effects + 1
  BY <1>1, Holding DEF More
<1> SUFFICES ASSUME NEW k \in Effects PROVE world[proc[p].op][k] # "partial"
  OBVIOUS
<1>3. k \in Nat /\ k >= 1
  BY BoundsAssumption DEF Effects
<1>4. CASE k < proc[p].step
  <2>1. k \in 1 .. op[proc[p].op].effects
    BY <1>2, <1>3, <1>4
  <2> QED
    BY <1>1, <1>4, <2>1 DEF ProcOK
<1>5. CASE k >= proc[p].step
  <2>1. k > proc[p].step \/ (k = proc[p].step /\ proc[p].pc \in Blank)
    BY <1>2, <1>3, <1>5 DEF Blank, Fresh
  <2> QED
    BY <2>1 DEF RunOK, AbsentOK
<1> QED
  BY <1>2, <1>3, <1>4, <1>5

\* A process without the lock runs nothing.
LEMMA UnlockedNote ==
    ASSUME IInv, NoteInv, NEW p \in Procs, ScanJournals(p) \/ LockRefused(p)
    PROVE  NoteInv'
<1>1. /\ proc \in [Procs -> Process] /\ UNCHANGED <<journal, world, op>>
      /\ proc[p].pc \in Unlocked /\ proc[p].op = 0
  BY DEF IInv, TypeOK, ScanJournals, LockRefused, Unlocked, ProcsOK, ProcOK
<1>2. proc'[p].pc \in Unlocked /\ proc'[p].op = 0 /\ proc'[p].mem = <<>>
      /\ \A q \in Procs : q # p => proc'[q] = proc[q]
  BY <1>1 DEF ScanJournals, LockRefused, Process, Unlocked, Idle, NoteInv
<1>3. ASSUME NEW q \in Procs
      PROVE  /\ (proc'[q].pc \in Unlocked => proc'[q].mem = <<>>)
             /\ (proc'[q].pc \notin Unlocked => RunOK(proc[q])')
             /\ (proc'[q].pc \in Settling => TargetOK(proc[q])')
  <2>1. CASE q = p
    BY <1>2, <2>1 DEF Unlocked, Settling
  <2>2. CASE q # p
    <3>1. proc'[q] = proc[q]
      BY <1>2, <2>2
    <3>2. proc'[q].pc \notin Unlocked => RunOK(proc[q])'
      <4> SUFFICES ASSUME RunOK(proc[q]) PROVE RunOK(proc[q])'
        BY <3>1 DEF NoteInv
      <4>1. AbsentOK(proc[q])' /\ LinesOK(proc[q])'
        BY <1>1, <3>1 DEF RunOK, AbsentOK, LinesOK
      <4>2. IntentOK(proc[q])' /\ MarksOK(proc[q])' /\ PartsOK(proc[q])'
        BY <1>1, <3>1 DEF RunOK, IntentOK, MarksOK, PartsOK
      <4> QED
        BY <3>1, <4>1, <4>2 DEF RunOK
    <3>3. proc'[q].pc \in Settling => TargetOK(proc[q])'
      BY <1>1, <3>1 DEF NoteInv, TargetOK
    <3> QED
      BY <3>1, <3>2, <3>3 DEF NoteInv
  <2> QED
    BY <2>1, <2>2
<1>4. ASSUME NEW o \in Ops, Over(o)' PROVE OverOK(o)'
  <2>1. Over(o)
    BY <1>1, <1>2, <1>4 DEF Over
  <2> QED
    BY <1>1, <2>1 DEF NoteInv, OverOK, Overlooked
<1>5. /\ \A o \in Ops : op'[o].command = "none" => \A k \in Effects : world'[o][k] = "absent"
      /\ PlainFailureIsClean'
  BY <1>1 DEF NoteInv, PlainFailureIsClean
<1> QED
  BY <1>3, <1>4, <1>5 DEF NoteInv

\* A process that takes the lock for a new operation.
LEMMA AcquireNote ==
    ASSUME IInv, NoteInv, NEW p \in Procs, NEW o \in Ops,
           NEW c \in {"setup", "change", "repair"}, NEW n,
           proc[p].pc \in Unlocked, AcquireOperation(p, o, c, n)
    PROVE  NoteInv'
<1>1. /\ proc \in [Procs -> Process] /\ op \in [Ops -> Operation]
      /\ UNCHANGED <<journal, world>> /\ holder = None /\ op[o].command = "none"
  BY DEF IInv, TypeOK, AcquireOperation
<1>2. /\ journal[o] = <<>> /\ op[o].report = "none" /\ \A k \in Effects : world[o][k] = "absent"
      /\ proc[p].mem = <<>>
  BY <1>1 DEF IInv, OpsOK, NoteInv
<1>3. \A q \in Procs : proc[q].pc \in Unlocked /\ proc[q].mem = <<>>
  BY <1>1, NobodyAssumption DEF IInv, LockOK, NoteInv
<1>4. /\ proc'[p].pc = "begun" /\ proc'[p].op = o /\ proc'[p].step = 1 /\ proc'[p].mem = <<>>
      /\ \A q \in Procs : q # p => proc'[q] = proc[q]
  BY <1>1, <1>2 DEF AcquireOperation, Process
<1>5. /\ op'[o].report = "none" /\ op'[o].command = c
      /\ \A q \in Ops : q # o => op'[q] = op[q]
  BY <1>1, <1>2 DEF AcquireOperation, Operation
<1>6. RunOK(proc[p])'
  <2>1. DOMAIN journal'[o] = {}
    BY <1>1, <1>2
  <2> QED
    BY <1>1, <1>2, <1>4, <2>1 DEF RunOK, AbsentOK, LinesOK, IntentOK, MarksOK, PartsOK
<1>7. ASSUME NEW q \in Procs
      PROVE  /\ (proc'[q].pc \in Unlocked => proc'[q].mem = <<>>)
             /\ (proc'[q].pc \notin Unlocked => RunOK(proc[q])')
             /\ (proc'[q].pc \in Settling => TargetOK(proc[q])')
  <2>1. CASE q = p
    BY <1>4, <1>6, <2>1 DEF Settling, Unlocked
  <2>2. CASE q # p
    BY <1>3, <1>4, <2>2 DEF Unlocked, Settling
  <2> QED
    BY <2>1, <2>2
<1>8. ASSUME NEW i \in Ops, Over(i)' PROVE OverOK(i)'
  <2>1. i # o
    BY <1>4, <1>8 DEF Over
  <2>2. proc[p].op = 0 /\ 0 \notin Ops
    BY DEF IInv, ProcsOK, ProcOK, Ops
  <2>3. Over(i)
    BY <1>4, <1>5, <1>8, <2>1, <2>2 DEF Over
  <2> QED
    BY <1>1, <1>5, <2>1, <2>3 DEF NoteInv, OverOK, Overlooked
<1>9. /\ \A i \in Ops : op'[i].command = "none" => \A k \in Effects : world'[i][k] = "absent"
      /\ PlainFailureIsClean'
  BY <1>1, <1>2, <1>5 DEF NoteInv, PlainFailureIsClean
<1> QED
  BY <1>7, <1>8, <1>9 DEF NoteInv

LEMMA CommandStepNote ==
    ASSUME IInv, NoteInv, NEW p \in Procs, CommandStep(p)
    PROVE  NoteInv'
<1> HIDE DEF NoteInv
<1>1. proc \in [Procs -> Process]
  BY DEF IInv, TypeOK
<1>2. CASE ScanJournals(p) \/ LockRefused(p)
  BY <1>2, UnlockedNote
<1>3. CASE StartCommand(p) \/ StartRepair(p)
  <2>1. PICK o \in Ops, c \in {"setup", "change", "repair"}, n \in Changes \cup Repairs :
           AcquireOperation(p, o, c, n)
    BY <1>3 DEF StartCommand, StartRepair
  <2>2. proc[p].pc \in Unlocked
    BY <1>3 DEF StartCommand, StartRepair, Unlocked
  <2> QED
    BY <2>1, <2>2, AcquireNote
<1>4. CASE BeginCommand(p)
  <2> DEFINE e == Entry("intent", Command, "none")
  <2>1. e \in Line /\ e.phase = "intent" /\ e.step = Command /\ ~Settles(e)
    BY EntryType DEF Phases, Notes, Entry, Settles
  <2>2. /\ proc[p].pc = "begun" /\ proc[p].pc \notin Unlocked /\ UNCHANGED <<world, op>>
        /\ \E pc \in {"next", "effect"} : Log(p, e, pc)
    BY <1>4 DEF BeginCommand, Unlocked
  <2>3. proc[p].step \in Nat /\ Command <= proc[p].step
    BY <2>2, RunFacts DEF Command
  <2> HIDE DEF e
  <2> QED
    BY <2>1, <2>2, <2>3, LogNote
<1>5. CASE CommitSuccess(p)
  <2>1. /\ proc[p].pc = "effect" /\ ~More(p) /\ proc[p].pc \notin Unlocked \cup Unmarked
        /\ NotWritten(proc[p].op, proc[p].mem, Success) /\ End(p, "success")
        /\ UNCHANGED world
    BY <1>5 DEF CommitSuccess, Unlocked, Unmarked, NotWritten
  <2>2. Success \in Line /\ ~Settles(Success)
    BY EntryType DEF Success, Phases, Notes, Entry, Settles
  <2>3. \A k \in Effects : world[proc[p].op][k] # "partial"
    BY <2>1, RunHolds, AllDone
  <2> QED
    BY <2>1, <2>2, <2>3, LastNote
<1>6. CASE CommitRefused(p)
  <2>1. /\ proc[p].pc = "effect" /\ Goto(p, "catch") /\ UNCHANGED <<journal, world, op>>
    BY <1>6 DEF CommitRefused
  <2>2. /\ proc'[p].op = proc[p].op /\ proc'[p].step = proc[p].step /\ proc'[p].pc = "catch"
        /\ proc'[p].mem = proc[p].mem
        /\ \A q \in Procs : q # p => proc'[q] = proc[q]
    BY <1>1, <2>1 DEF Goto, Process
  <2> QED
    BY <2>1, <2>2, QuietNote DEF Unlocked, Blank, Fresh, Recovering, Unmarked, Settling
<1>7. CASE Fail(p)
  <2>1. /\ proc[p].pc = "catch" /\ proc[p].pc \notin Unlocked \cup Unmarked
        /\ NotWritten(proc[p].op, proc[p].mem, LastWord(p)) /\ End(p, FailureReport(p))
        /\ UNCHANGED world
    BY <1>7 DEF Fail, Unlocked, Unmarked, NotWritten
  <2> QED
    BY <2>1, LastWordType, LastWordFacts, LastNote
<1> QED
  BY <1>2, <1>3, <1>4, <1>5, <1>6, <1>7 DEF CommandStep

-----------------------------------------------------------------------------
\* The operation that is recovered is over.
LEMMA TargetFacts ==
    ASSUME IInv, NoteInv, NEW p \in Procs, proc[p].pc \in Recovering
    PROVE  /\ Over(proc[p].target) /\ OverOK(proc[p].target)
           /\ proc[p].pc \in Settling => TargetOK(proc[p])
           /\ proc[p].pc \notin Unmarked /\ proc[p].pc \in Fresh
<1> DEFINE t == proc[p].target
<1>1. /\ t \in Ops /\ t # proc[p].op /\ op[t].command # "none" /\ proc[p].pc \notin Unlocked
      /\ 0 \notin Ops
  BY RecoveringFacts
<1>2. holder = p
  BY <1>1, Holding
<1>3. \A q \in Procs : proc[q].op # t
  BY <1>1, <1>2, OthersIdle
<1>4. Over(t)
  BY <1>1, <1>3 DEF Over
<1>5. OverOK(t)
  BY <1>1, <1>4 DEF NoteInv
<1> QED
  BY <1>4, <1>5 DEF NoteInv, Unmarked, Fresh, Recovering

\* A line of recovery is never about an effect that is there in part.
LEMMA LineSpares ==
    ASSUME IInv, NoteInv, NEW p \in Procs, NEW e \in RecoveryLines(p), NEW k \in Effects,
           world[proc[p].target][k] = "partial"
    PROVE  e.step # k
<1>1. /\ proc[p].pc \in {"settle", "adopt", "adopted"} /\ proc[p].pc \in Recovering
      /\ TargetOK(proc[p]) /\ k # Command
  BY RecoveryLineType, TargetFacts, BoundsAssumption
     DEF Recovering, Settling, Effects, Command
<1>2. CASE proc[p].pc \in {"adopt", "adopted"}
  BY <1>1, <1>2 DEF TargetOK, RecoveryLines, Entry
<1>3. CASE proc[p].pc = "settle" /\ proc[p].todo # {}
  <2>1. PICK q \in proc[p].todo \ Remnants(p) :
           IsLatest(journal[proc[p].target], proc[p].todo, q) /\ e.step = q
    BY <1>3 DEF RecoveryLines, Entry
  <2>2. q = k => q \in Remnants(p)
    BY <1>1, <1>3, <2>1 DEF Remnants, State
  <2> QED
    BY <2>1, <2>2
<1>4. CASE proc[p].pc = "settle" /\ proc[p].todo = {}
  BY <1>1, <1>4 DEF RecoveryLines, Entry
<1> QED
  BY <1>1, <1>2, <1>3, <1>4

\* Adopting an effect leaves a line that opens it.
LEMMA AdoptOpens ==
    ASSUME IInv, NoteInv, NEW p \in Procs, NEW e \in RecoveryLines(p),
           MayAppend(journal[proc[p].target], e), proc[p].pc # "settle"
    PROVE  HasOpened(Append(journal[proc[p].target], e))
<1> DEFINE J == journal[proc[p].target]
<1>1. e \in Line /\ J \in Seq(Line) /\ J # <<>> /\ proc[p].pc \in {"adopt", "adopted"}
  BY RecoveryLineType, RecoveringFacts DEF Recovering
<1>2. CASE proc[p].pc = "adopt"
  <2>1. Opens(e)
    BY <1>2 DEF RecoveryLines, Entry, Opens
  <2> QED
    BY <1>1, <2>1, IntendedMore
<1>3. CASE proc[p].pc = "adopted"
  <2>1. e.phase = "verify"
    BY <1>3 DEF RecoveryLines, Entry
  <2>2. Last(J).phase = "effect"
    BY <1>1, <2>1 DEF MayAppend
  <2>3. Len(J) \in DOMAIN J /\ Last(J) = J[Len(J)]
    BY <1>1 DEF Last
  <2>4. HasOpened(J)
    BY <2>2, <2>3 DEF HasOpened, Opens
  <2> QED
    BY <1>1, <2>4, IntendedMore
<1> QED
  BY <1>1, <1>2, <1>3

\* The recovered journal still asks for what is left to undo, until the last
\* line, which overlooks an intent.
LEMMA RecoveryLineOver ==
    ASSUME IInv, NoteInv, NEW p \in Procs, NEW e \in RecoveryLines(p),
           NEW t \in Ops, t = proc[p].target, MayAppend(journal[t], e),
           journal'[t] = Append(journal[t], e), world' = world, op' = op
    PROVE  OverOK(t)'
<1> DEFINE J == journal[t]
           M == Append(J, e)
<1>1. /\ e \in Line /\ J \in Seq(Line) /\ J # <<>> /\ proc[p].pc \in {"settle", "adopt", "adopted"}
  BY RecoveryLineType, RecoveringFacts DEF Recovering
<1>2. TargetOK(proc[p]) /\ OverOK(t)
  BY <1>1, TargetFacts DEF Settling, Recovering
<1>3. M # <<>> /\ Last(M) = e
  BY <1>1, OneMore
<1> SUFFICES ASSUME NEW k \in Effects, world[t][k] = "partial", ~op[t].unrecorded
             PROVE  \/ k \in Unresolved(M) \/ Pending(M, k) \/ Overlooked(t, k)'
  BY DEF OverOK
<1>4. e.step # k
  BY LineSpares
<1>5. OnlyIntended(J, k) => OnlyIntended(M, k)
  BY <1>1, <1>4, IntendedMore
<1>6. HasOpened(J) => HasOpened(M)
  BY <1>1, IntendedMore
<1>7. CASE e.phase = "commit"
  <2>1. e = Entry("commit", Command, "recovered") /\ proc[p].todo = {}
    BY <1>1, <1>7 DEF RecoveryLines, Entry
  <2>2. OnlyIntended(J, k) /\ HasOpened(J)
    BY <1>2, <2>1 DEF TargetOK
  <2> QED
    BY <1>3, <1>5, <1>6, <2>1, <2>2 DEF Overlooked, OnlyIntended, HasOpened
<1>8. CASE e.phase # "commit"
  <2>1. k \in Unresolved(J) \/ Pending(J, k)
    <3>1. k \in Unresolved(J) \/ Pending(J, k) \/ Overlooked(t, k)
      BY <1>2 DEF OverOK
    <3>2. Last(J).phase # "commit"
      BY <1>1 DEF MayAppend
    <3> QED
      BY <3>1, <3>2 DEF Overlooked, Entry
  <2>2. CASE k \in Unresolved(J)
    <3>1. k \in Unresolved(M)
      BY <1>1, <1>4, <1>8, <2>2, UnresolvedMore
    <3> QED
      BY <3>1
  <2>3. CASE Pending(J, k)
    <3>1. e.phase \notin {"commit", "cancel"}
      BY <1>1, <1>8 DEF RecoveryLines, Entry
    <3>2. HasOpened(M)
      <4>1. CASE proc[p].pc # "settle"
        BY <4>1, AdoptOpens
      <4>2. CASE proc[p].pc = "settle"
        <5>1. e.step \in proc[p].todo
          BY <1>8, <4>2 DEF RecoveryLines, Entry
        <5>2. k \in proc[p].todo \/ HasOpened(J)
          BY <1>2 DEF TargetOK
        <5>3. HasOpened(J)
          BY <1>2, <1>4, <4>2, <5>1, <5>2 DEF TargetOK
        <5> QED
          BY <1>6, <5>3
      <4> QED
        BY <4>1, <4>2
    <3> QED
      BY <1>3, <1>5, <2>3, <3>1, <3>2 DEF Pending
  <2> QED
    BY <2>1, <2>2, <2>3
<1> QED
  BY <1>7, <1>8

\* What recovery has still to do after one more line.
LEMMA RecoveryLineTarget ==
    ASSUME IInv, NoteInv, NEW p \in Procs, NEW e \in RecoveryLines(p),
           NEW t \in Ops, t = proc[p].target, MayAppend(journal[t], e),
           journal'[t] = Append(journal[t], e), world' = world, op' = op,
           proc'[p].target = t, e.phase # "commit",
           proc'[p].todo = IF e.phase = "effect" THEN proc[p].todo ELSE proc[p].todo \ {e.step},
           proc'[p].pc = IF e.phase = "effect" THEN "adopted" ELSE "settle"
    PROVE  TargetOK(proc[p])'
<1> DEFINE J == journal[t]
           M == Append(J, e)
<1>1. /\ e \in Line /\ J \in Seq(Line) /\ proc[p].pc \in {"settle", "adopt", "adopted"}
  BY RecoveryLineType, RecoveringFacts DEF Recovering
<1>2. TargetOK(proc[p])
  BY <1>1, TargetFacts DEF Settling, Recovering
<1>3. HasOpened(J) => HasOpened(M)
  BY <1>1, IntendedMore
<1>4. ASSUME NEW k \in Effects, world[t][k] = "partial", ~op[t].unrecorded
      PROVE  \/ proc'[p].pc = "settle" /\ k \in proc'[p].todo
             \/ OnlyIntended(M, k) /\ HasOpened(M)
  <2>1. e.step # k
    BY <1>4, LineSpares
  <2>2. OnlyIntended(J, k) => OnlyIntended(M, k)
    BY <1>1, <2>1, IntendedMore
  <2>3. (proc[p].pc = "settle" /\ k \in proc[p].todo) \/ (OnlyIntended(J, k) /\ HasOpened(J))
    BY <1>2, <1>4 DEF TargetOK
  <2>4. proc[p].pc = "settle" => e.phase # "effect"
    BY DEF RecoveryLines, Entry
  <2> QED
    BY <1>3, <2>1, <2>2, <2>3, <2>4
<1>5. ASSUME proc'[p].pc = "settle"
      PROVE  HasOpened(M) \/ \E k \in Effects \cup {Command} : proc'[p].todo \subseteq {k}
  <2>1. CASE proc[p].pc = "settle"
    BY <1>2, <1>3, <2>1 DEF TargetOK
  <2>2. CASE proc[p].pc # "settle"
    BY <2>2, AdoptOpens
  <2> QED
    BY <2>1, <2>2
<1>6. ASSUME proc'[p].pc # "settle", NEW k \in proc'[p].todo
      PROVE  k \in Effects /\ world[t][k] = "done"
  <2>1. e.phase = "effect"
    BY <1>6
  <2>2. proc[p].pc = "adopt"
    BY <1>1, <2>1 DEF RecoveryLines, Entry
  <2> QED
    BY <1>2, <1>6, <2>1, <2>2 DEF TargetOK
<1> QED
  BY <1>4, <1>5, <1>6 DEF TargetOK

\* What recovery has to do, when it has read the journal.
LEMMA ExamineTarget ==
    ASSUME IInv, NoteInv, NEW p \in Procs, Examine(p)
    PROVE  TargetOK(proc[p])'
<1> DEFINE t == proc[p].target
           J == journal[t]
           K == Observed(J)
<1>1. /\ proc \in [Procs -> Process] /\ proc[p].pc \in Recovering
      /\ UNCHANGED <<journal, world, op>>
  BY DEF IInv, TypeOK, Examine, Recovering
<1>2. /\ OverOK(t) /\ t \in Ops /\ J \in Seq(Line) /\ J # <<>>
      /\ K \subseteq Effects \cup {Command}
  BY <1>1, TargetFacts, RecoveringFacts, ObservedType
<1>3. /\ proc'[p].target = t /\ proc'[p].todo = K
      /\ proc'[p].pc = IF Unresolved(J) = {} /\ \E k \in K : State(t, k) = "done"
                       THEN "adopt" ELSE "settle"
  BY <1>1 DEF Examine, Process
<1>4. Unresolved(J) # {} => HasOpened(J) /\ K = Unresolved(J)
  BY <1>2, UnresolvedAsks DEF Observed
<1>5. Unresolved(J) = {} => \A k \in K : K = {k} /\ Last(J).phase = "intent" /\ Last(J).step = k
  BY DEF Observed
<1>6. ASSUME NEW k \in Effects, world[t][k] = "partial", ~op[t].unrecorded
      PROVE  \/ proc'[p].pc = "settle" /\ k \in K
             \/ OnlyIntended(J, k) /\ HasOpened(J)
  <2>1. k \in Unresolved(J) \/ Pending(J, k) \/ Overlooked(t, k)
    BY <1>2, <1>6 DEF OverOK
  <2>2. CASE k \in Unresolved(J)
    BY <1>3, <1>4, <2>2
  <2>3. CASE Pending(J, k)
    <3>1. CASE HasOpened(J)
      BY <2>3, <3>1 DEF Pending
    <3>2. CASE ~HasOpened(J)
      <4>1. Unresolved(J) = {} /\ Last(J).phase = "intent" /\ Last(J).step = k
        BY <1>4, <2>3, <3>2 DEF Pending
      <4>2. K = {k}
        BY <4>1 DEF Observed
      <4>3. k # Command
        BY BoundsAssumption DEF Effects, Command
      <4>4. State(t, k) # "done"
        BY <1>6, <4>3 DEF State
      <4> QED
        BY <1>3, <4>2, <4>4
    <3> QED
      BY <3>1, <3>2
  <2>4. CASE Overlooked(t, k)
    BY <2>4 DEF Overlooked, OnlyIntended, HasOpened
  <2> QED
    BY <2>1, <2>2, <2>3, <2>4
<1>7. HasOpened(J) \/ \E k \in Effects \cup {Command} : K \subseteq {k}
  BY <1>2, <1>4, <1>5
<1>8. ASSUME proc'[p].pc # "settle", NEW k \in K
      PROVE  k \in Effects /\ world[t][k] = "done"
  <2>1. Unresolved(J) = {} /\ \E q \in K : State(t, q) = "done"
    BY <1>3, <1>8
  <2>2. State(t, k) = "done"
    BY <1>5, <1>8, <2>1
  <2>3. k # Command
    BY <2>2 DEF State
  <2> QED
    BY <1>2, <1>8, <2>2, <2>3 DEF State
<1> HIDE DEF K
<1> QED
  BY <1>1, <1>3, <1>6, <1>7, <1>8 DEF TargetOK

\* A move of recovery that changes nothing but where the process is.
LEMMA RecoveryMove ==
    ASSUME IInv, NoteInv, NEW p \in Procs, proc[p].pc \in {"next"} \cup Recovering,
           \A q \in Procs : q # p => proc'[q] = proc[q],
           proc'[p].op = proc[p].op, proc'[p].step = proc[p].step, proc'[p].mem = proc[p].mem,
           proc'[p].pc \in {"next", "examine", "effect", "catch", "blocked"},
           UNCHANGED <<journal, world, op>>
    PROVE  NoteInv'
<1>1. /\ proc[p].pc \notin Unlocked \cup Unmarked /\ proc[p].pc \in Fresh /\ proc[p].pc \in Blank
      /\ proc'[p].pc \notin Unlocked \cup Settling \cup {"begun", "acting", "intended", "unproven"}
  BY DEF Unlocked, Unmarked, Fresh, Blank, Recovering, Settling
<1> HIDE DEF IInv, NoteInv
<1> QED
  BY <1>1, QuietNote

LEMMA RecoveryGoto ==
    ASSUME IInv, NoteInv, NEW p \in Procs, proc[p].pc \in {"next"} \cup Recovering,
           NEW pc \in {"effect", "catch", "blocked"}, Goto(p, pc),
           UNCHANGED <<journal, world, op>>
    PROVE  NoteInv'
<1>1. proc \in [Procs -> Process]
  BY DEF IInv, TypeOK
<1>2. /\ proc'[p].op = proc[p].op /\ proc'[p].step = proc[p].step /\ proc'[p].pc = pc
      /\ proc'[p].mem = proc[p].mem /\ \A q \in Procs : q # p => proc'[q] = proc[q]
  BY <1>1 DEF Goto, Process
<1> QED
  BY <1>2, RecoveryMove

\* A step of recovery on the operation that it recovers.
LEMMA TargetNote ==
    ASSUME IInv, NoteInv, NEW p \in Procs, proc[p].pc \in Recovering,
           NEW t \in Ops, t = proc[p].target,
           \A q \in Procs : q # p => proc'[q] = proc[q],
           proc'[p].op = proc[p].op, proc'[p].step = proc[p].step, proc'[p].mem = proc[p].mem,
           proc'[p].pc \in {"next", "catch"} \cup Settling,
           op' = op,
           \A o \in Ops : o # t => journal'[o] = journal[o] /\ world'[o] = world[o],
           \A k \in Effects : world'[t][k] \in {world[t][k], "absent"},
           OverOK(t)',
           proc'[p].pc \in Settling => TargetOK(proc[p])'
    PROVE  NoteInv'
<1>1. /\ proc[p].pc \notin Unlocked \cup Unmarked /\ proc[p].pc \in Fresh /\ proc[p].pc \in Blank
      /\ proc'[p].pc \notin Unlocked \cup {"begun", "acting", "intended", "unproven"}
  BY DEF Unlocked, Unmarked, Fresh, Blank, Recovering, Settling
<1>2. t # proc[p].op /\ proc[p].op \in Ops
  BY <1>1, RecoveringFacts, RunFacts
<1>3. \A o \in Ops : o # proc[p].op =>
         /\ \A k \in Effects : world'[o][k] \in {world[o][k], "absent"}
         /\ \/ journal'[o] = journal[o] /\ world'[o] = world[o]
            \/ OverOK(o)'
  <2> SUFFICES ASSUME NEW o \in Ops
               PROVE  /\ \A k \in Effects : world'[o][k] \in {world[o][k], "absent"}
                      /\ \/ journal'[o] = journal[o] /\ world'[o] = world[o]
                         \/ OverOK(o)'
    OBVIOUS
  <2>1. CASE o = t
    BY <2>1
  <2>2. CASE o # t
    BY <2>2
  <2> QED
    BY <2>1, <2>2
<1> HIDE DEF IInv, NoteInv
<1> QED
  BY <1>1, <1>2, <1>3, QuietNote

LEMMA UndoNote ==
    ASSUME IInv, NoteInv, NEW p \in Procs, UndoEffect(p)
    PROVE  NoteInv'
<1>1. /\ proc \in [Procs -> Process] /\ UNCHANGED <<journal, op, proc>>
      /\ world \in [Ops -> [Effects -> {"absent", "partial", "done"}]]
  BY DEF IInv, TypeOK, UndoEffect
<1>2. PICK j \in Remnants(p) : world' = [world EXCEPT ![proc[p].target][j] = "absent"]
  BY DEF UndoEffect
<1>3. proc[p].pc = "settle" /\ proc[p].pc \in Recovering /\ proc[p].pc \in Settling
      /\ j \in proc[p].todo
  BY DEF Remnants, Recovering, Settling
<1>4. PICK t \in Ops : t = proc[p].target
  BY <1>3, RecoveringFacts
<1>5. TargetOK(proc[p]) /\ OverOK(t)
  BY <1>3, <1>4, TargetFacts
<1>6. /\ \A o \in Ops : o # t => world'[o] = world[o]
      /\ \A k \in Effects : world'[t][k] \in {world[t][k], "absent"}
  BY <1>1, <1>2, <1>4
<1>7. OverOK(t)'
  BY <1>1, <1>5, <1>6 DEF OverOK, Overlooked
<1>8. TargetOK(proc[p])'
  BY <1>1, <1>3, <1>4, <1>5, <1>6 DEF TargetOK
<1> HIDE DEF IInv, NoteInv
<1> QED
  BY <1>1, <1>3, <1>4, <1>6, <1>7, <1>8, TargetNote

LEMMA RecordNote ==
    ASSUME IInv, NoteInv, NEW p \in Procs, RecordRecovery(p)
    PROVE  NoteInv'
<1>1. /\ proc \in [Procs -> Process] /\ journal \in [Ops -> Seq(Line)]
      /\ UNCHANGED <<world, op>>
  BY DEF IInv, TypeOK, RecordRecovery
<1>2. PICK e \in RecoveryLines(p) :
         /\ MayAppend(journal[proc[p].target], e)
         /\ Written(proc[p].target, journal[proc[p].target], e)
         /\ proc' = [proc EXCEPT
               ![p].todo = IF e.phase = "effect" THEN @ ELSE @ \ {e.step},
               ![p].target = IF e.phase = "commit" THEN 0 ELSE @,
               ![p].pc = CASE e.phase = "effect" -> "adopted"
                           [] e.phase = "commit" -> "next"
                           [] OTHER -> "settle"]
  BY DEF RecordRecovery
<1>3. proc[p].pc \in Recovering
  BY RecoveryLineType DEF Recovering
<1>4. PICK t \in Ops : t = proc[p].target
  BY <1>3, RecoveringFacts
<1>5. /\ journal'[t] = Append(journal[t], e) /\ MayAppend(journal[t], e)
      /\ \A o \in Ops : o # t => journal'[o] = journal[o]
  BY <1>1, <1>2, <1>4 DEF Written
<1>6. /\ proc'[p].op = proc[p].op /\ proc'[p].step = proc[p].step /\ proc'[p].mem = proc[p].mem
      /\ \A q \in Procs : q # p => proc'[q] = proc[q]
      /\ proc'[p].todo = IF e.phase = "effect" THEN proc[p].todo ELSE proc[p].todo \ {e.step}
  BY <1>1, <1>2 DEF Process
<1>7. CASE e.phase = "commit"
  <2>1. proc'[p].pc = "next"
    BY <1>1, <1>2, <1>7 DEF Process
  <2>2. proc'[p].pc \notin Settling
    BY <2>1 DEF Settling
  <2>3. OverOK(t)'
    BY <1>1, <1>4, <1>5, RecoveryLineOver
  <2> HIDE DEF IInv, NoteInv
  <2> QED
    BY <1>1, <1>3, <1>4, <1>5, <1>6, <2>1, <2>2, <2>3, TargetNote
<1>8. CASE e.phase # "commit"
  <2>1. /\ proc'[p].pc = IF e.phase = "effect" THEN "adopted" ELSE "settle"
        /\ proc'[p].target = t
    BY <1>1, <1>2, <1>4, <1>8 DEF Process
  <2>2. proc'[p].pc \in Settling
    BY <2>1 DEF Settling
  <2>3. OverOK(t)'
    BY <1>1, <1>4, <1>5, RecoveryLineOver
  <2>4. TargetOK(proc[p])'
    BY <1>1, <1>4, <1>5, <1>6, <1>8, <2>1, RecoveryLineTarget
  <2> HIDE DEF IInv, NoteInv
  <2> QED
    BY <1>1, <1>3, <1>4, <1>5, <1>6, <2>2, <2>3, <2>4, TargetNote
<1> QED
  BY <1>7, <1>8

LEMMA RecoveryNote ==
    ASSUME IInv, NoteInv, NEW p \in Procs, Recovery(p)
    PROVE  NoteInv'
<1> HIDE DEF NoteInv
<1>1. proc \in [Procs -> Process]
  BY DEF IInv, TypeOK
<1>2. CASE NextInterrupted(p)
  <2>1. proc[p].pc = "next" /\ UNCHANGED <<journal, world, op>>
    BY <1>2 DEF NextInterrupted
  <2>2. PICK o \in proc[p].scan :
            \/ Goto(p, "catch")
            \/ proc' = [proc EXCEPT ![p].scan = @ \ {o}, ![p].target = o, ![p].pc = "examine"]
            \/ proc' = [proc EXCEPT ![p].scan = @ \ {o}]
    BY <1>2 DEF NextInterrupted
  <2>3. /\ proc'[p].op = proc[p].op /\ proc'[p].step = proc[p].step
        /\ proc'[p].mem = proc[p].mem /\ \A q \in Procs : q # p => proc'[q] = proc[q]
        /\ proc'[p].pc \in {"next", "examine", "catch"}
    BY <1>1, <2>1, <2>2 DEF Goto, Process
  <2> QED
    BY <2>1, <2>3, RecoveryMove
<1>3. CASE AllExamined(p) \/ ExamineBlocked(p) \/ RecoveryCancelled(p) \/ UndoFails(p)
           \/ RecoveryRefused(p)
  <2>1. /\ UNCHANGED <<journal, world, op>>
        /\ \E pc \in {"effect", "catch", "blocked"} : Goto(p, pc)
    BY <1>3 DEF AllExamined, ExamineBlocked, RecoveryCancelled, UndoFails, RecoveryRefused
  <2>2. proc[p].pc \in {"next"} \cup Recovering
    BY <1>3, RecoveryLineType
       DEF AllExamined, ExamineBlocked, RecoveryCancelled, UndoFails, RecoveryRefused,
           Remnants, Recovering
  <2> QED
    BY <2>1, <2>2, RecoveryGoto
<1>4. CASE Examine(p)
  <2>1. proc[p].pc \in Recovering /\ UNCHANGED <<journal, world, op>>
    BY <1>4 DEF Examine, Recovering
  <2>2. /\ proc'[p].op = proc[p].op /\ proc'[p].step = proc[p].step
        /\ proc'[p].mem = proc[p].mem /\ \A q \in Procs : q # p => proc'[q] = proc[q]
        /\ proc'[p].pc \in {"adopt", "settle"} /\ proc'[p].pc \in Settling
    BY <1>1, <1>4 DEF Examine, Process, Settling
  <2>3. TargetOK(proc[p])'
    BY <1>4, ExamineTarget
  <2>4. PICK t \in Ops : t = proc[p].target
    BY <2>1, RecoveringFacts
  <2>5. OverOK(t)
    BY <2>1, <2>4, TargetFacts
  <2>6. OverOK(t)'
    BY <2>1, <2>5 DEF OverOK, Overlooked
  <2> QED
    BY <2>1, <2>2, <2>3, <2>4, <2>6, TargetNote
<1>5. CASE RepairStops(p)
  <2> DEFINE e == Entry("cancel", Command, "failed")
  <2>1. /\ proc[p].pc \notin Unlocked \cup Unmarked /\ NotWritten(proc[p].op, proc[p].mem, e)
        /\ End(p, "recovery-required") /\ UNCHANGED world
    BY <1>5 DEF RepairStops, NotWritten, Unlocked, Unmarked
  <2>2. e \in Line /\ ~Settles(e) /\ e.phase # "commit"
    BY EntryType DEF Phases, Notes, Entry, Settles
  <2> HIDE DEF e
  <2> QED
    BY <2>1, <2>2, LastNote
<1>6. CASE UndoEffect(p)
  BY <1>6, UndoNote
<1>7. CASE RecordRecovery(p)
  BY <1>7, RecordNote
<1> QED
  BY <1>2, <1>3, <1>4, <1>5, <1>6, <1>7 DEF Recovery

\* The lines of the own journal that may be lost, place by place.
LEMMA UpcomingFacts ==
    ASSUME IInv, NoteInv, NEW p \in Procs, NEW e \in Upcoming(p)
    PROVE  /\ e \in Line /\ proc[p].pc \notin Unlocked /\ e.step <= proc[p].step
           /\ proc[p].pc \in {"begun", "effect", "acted", "recorded", "unproven", "not-started",
                              "blocked", "catch"}
           /\ Settles(e) => e.step = Command \/ (e.step = proc[p].step /\ proc[p].pc = "not-started")
           /\ e.phase = "commit" => \A k \in Effects : world[proc[p].op][k] # "partial"
<1>1. e \in Line /\ proc[p].pc \notin Unlocked
  BY UpcomingType
<1>2. proc[p].step \in Nat
  BY <1>1, RunFacts
<1>3. CASE proc[p].pc = "effect" /\ ~More(p)
  <2>1. e = Success /\ \A k \in Effects : world[proc[p].op][k] # "partial"
    BY <1>1, <1>3, RunHolds, AllDone DEF Upcoming
  <2> QED
    BY <1>1, <1>2, <1>3, <2>1 DEF Success, Entry, Settles, Command
<1>4. CASE proc[p].pc = "catch"
  <2>1. e = LastWord(p)
    BY <1>4 DEF Upcoming
  <2> QED
    BY <1>1, <1>2, <1>4, <2>1, LastWordFacts DEF Command
<1>5. CASE proc[p].pc # "catch" /\ ~(proc[p].pc = "effect" /\ ~More(p))
  BY <1>1, <1>2, <1>5 DEF Upcoming, Entry, Settles, Command
<1> QED
  BY <1>3, <1>4, <1>5

LEMMA AppendFailsNote ==
    ASSUME IInv, NoteInv, NEW p \in Procs, AppendFails(p)
    PROVE  NoteInv'
<1>1. proc \in [Procs -> Process] /\ op \in [Ops -> Operation] /\ UNCHANGED world
  BY DEF IInv, TypeOK, AppendFails
<1>2. PICK e \in Upcoming(p) : NotWritten(proc[p].op, proc[p].mem, e)
  BY DEF AppendFails
<1>3. /\ e \in Line /\ proc[p].pc \notin Unlocked /\ e.step <= proc[p].step
      /\ proc[p].pc \in {"begun", "effect", "acted", "recorded", "unproven", "not-started",
                         "blocked", "catch"}
      /\ Settles(e) => e.step = Command \/ (e.step = proc[p].step /\ proc[p].pc = "not-started")
      /\ e.phase = "commit" => \A k \in Effects : world[proc[p].op][k] # "partial"
  BY UpcomingFacts
<1>4. proc[p].op \in Ops
  BY <1>3, RunFacts
<1>5. CASE \/ proc[p].pc = "begun" /\ End(p, "failed")
           \/ proc[p].pc = "catch" /\ End(p, FailureReport(p))
  <2>1. proc[p].pc \notin Unmarked /\ (Settles(e) => e.step = Command)
    BY <1>3, <1>5 DEF Unmarked
  <2>2. PICK r : End(p, r) /\ (r = "failed" => ~HasIncomplete(proc[p].mem))
    BY <1>3, <1>5, RunHolds, BegunClean, LastWordFacts
  <2> HIDE DEF NoteInv
  <2> QED
    BY <1>1, <1>2, <1>3, <2>1, <2>2, LastNote
<1>6. CASE \/ /\ proc[p].pc \in {"acted", "recorded"} /\ Goto(p, "unproven") /\ op' = op
           \/ /\ proc[p].pc = "unproven" /\ Goto(p, "catch")
              /\ op' = [op EXCEPT ![proc[p].op].unrecorded = TRUE]
           \/ /\ proc[p].pc \notin {"acted", "recorded", "unproven"} /\ Goto(p, "catch")
              /\ op' = op
  <2>1. /\ proc'[p].op = proc[p].op /\ proc'[p].step = proc[p].step
        /\ proc'[p].mem = proc[p].mem /\ \A q \in Procs : q # p => proc'[q] = proc[q]
        /\ proc'[p].pc = IF proc[p].pc \in {"acted", "recorded"} THEN "unproven" ELSE "catch"
    BY <1>1, <1>6 DEF Goto, Process
  <2>2. \A o \in Ops :
           /\ op'[o].command = op[o].command /\ op'[o].report = op[o].report
           /\ op'[o] = op[o] \/ (o = proc[p].op /\ op'[o].unrecorded)
    BY <1>1, <1>4, <1>6 DEF Operation
  <2>3. proc[p].pc = "unproven" => op'[proc[p].op].unrecorded
    BY <1>1, <1>4, <1>6 DEF Operation
  <2>4. proc[p].pc \in Unmarked => proc'[p].pc = "unproven" \/ op'[proc[p].op].unrecorded
    BY <1>3, <2>1, <2>3 DEF Unmarked
  <2>5. /\ proc'[p].pc \notin Unlocked \cup Settling \cup Blank \cup Fresh \cup {"begun", "acting", "intended"}
        /\ proc'[p].pc = "unproven" => proc[p].pc \in {"acted", "recorded"}
    BY <2>1 DEF Unlocked, Settling, Blank, Fresh, Recovering
  <2> HIDE DEF NoteInv
  <2> QED
    BY <1>1, <1>2, <1>3, <2>1, <2>2, <2>4, <2>5, LineNote
<1> QED
  BY <1>5, <1>6 DEF AppendFails

LEMMA BreaksNote ==
    ASSUME IInv, NoteInv, NEW p \in Procs, Breaks(p)
    PROVE  NoteInv'
<1>1. proc \in [Procs -> Process] /\ journal \in [Ops -> Seq(Line)]
  BY DEF IInv, TypeOK
<1>2. CASE AppendFails(p)
  BY <1>2, AppendFailsNote
<1>3. CASE RecoveryAppendFails(p)
  <2>1. PICK e \in RecoveryLines(p) :
           /\ MayAppend(journal[proc[p].target], e)
           /\ NotWritten(proc[p].target, journal[proc[p].target], e)
    BY <1>3 DEF RecoveryAppendFails
  <2>2. /\ proc[p].pc \in Recovering /\ Goto(p, "catch") /\ UNCHANGED <<world, op>>
    BY <1>3, <2>1, RecoveryLineType DEF RecoveryAppendFails, Recovering
  <2>3. PICK t \in Ops : t = proc[p].target
    BY <2>2, RecoveringFacts
  <2>4. /\ \A o \in Ops : o # t => journal'[o] = journal[o]
        /\ journal'[t] \in {journal[t], Append(journal[t], e)}
    BY <1>1, <2>1, <2>3 DEF NotWritten, Written
  <2>5. OverOK(t)'
    <3>1. CASE journal'[t] = journal[t]
      <4>1. OverOK(t)
        BY <2>2, <2>3, TargetFacts
      <4> QED
        BY <2>2, <3>1, <4>1 DEF OverOK, Overlooked
    <3>2. CASE journal'[t] = Append(journal[t], e)
      BY <2>1, <2>2, <2>3, <3>2, RecoveryLineOver
    <3> QED
      BY <2>4, <3>1, <3>2
  <2>6. /\ proc'[p].op = proc[p].op /\ proc'[p].step = proc[p].step /\ proc'[p].pc = "catch"
        /\ proc'[p].mem = proc[p].mem /\ \A q \in Procs : q # p => proc'[q] = proc[q]
    BY <1>1, <2>2 DEF Goto, Process
  <2> HIDE DEF NoteInv
  <2> QED
    BY <2>2, <2>3, <2>4, <2>5, <2>6, TargetNote DEF Settling
<1>4. CASE Abort(p)
  <2>1. proc[p].pc \notin Unlocked /\ UNCHANGED <<journal, world, op>>
    BY <1>4 DEF Abort, IInv, LockOK
  <2>2. /\ proc'[p].op = proc[p].op /\ proc'[p].step = proc[p].step /\ proc'[p].pc = proc[p].pc
        /\ proc'[p].mem = proc[p].mem /\ \A q \in Procs : q # p => proc'[q] = proc[q]
        /\ proc'[p].target = proc[p].target /\ proc'[p].todo = proc[p].todo
    BY <1>1, <1>4 DEF Abort, Process
  <2>3. RunOK(proc[p])'
    <3>1. RunOK(proc[p])
      BY <2>1, RunHolds
    <3>2. AbsentOK(proc[p])' /\ LinesOK(proc[p])'
      BY <2>1, <2>2, <3>1 DEF RunOK, AbsentOK, LinesOK
    <3>3. IntentOK(proc[p])' /\ MarksOK(proc[p])' /\ PartsOK(proc[p])'
      BY <2>1, <2>2, <3>1 DEF RunOK, IntentOK, MarksOK, PartsOK
    <3> QED
      BY <2>2, <3>1, <3>2, <3>3 DEF RunOK
  <2>4. proc'[p].pc \in Settling => TargetOK(proc[p])'
    BY <2>1, <2>2 DEF NoteInv, TargetOK
  <2> HIDE DEF NoteInv
  <2> QED
    BY <2>1, <2>2, <2>3, <2>4, NoteHeld
<1>5. CASE Crash(p)
  <2>1. /\ proc[p].pc \notin Unlocked /\ UNCHANGED <<journal, world, op>>
        /\ proc' = [proc EXCEPT ![p] = Idle]
    BY <1>5 DEF Crash, IInv, LockOK
  <2>2. PICK o \in Ops : o = proc[p].op
    BY <2>1, RunFacts
  <2>3. op[o].report = "none"
    BY <2>1, <2>2, Holding
  <2>4. Entry("intent", Command, "none") \in Line
    BY EntryType DEF Phases, Notes
  <2>5. OverOK(o)'
    BY <2>1, <2>2, <2>4, RunHolds, EndOver
  <2> HIDE DEF NoteInv
  <2> QED
    BY <2>1, <2>2, <2>3, <2>5, NoteEnd
<1> QED
  BY <1>2, <1>3, <1>4, <1>5 DEF Breaks

LEMMA NoteInit == Init => NoteInv
BY DEF Init, NoteInv, Idle, Unlocked, Settling, Over, PlainFailureIsClean

LEMMA NoteNext == IInv /\ NoteInv /\ [Next]_vars => NoteInv'
<1> SUFFICES ASSUME IInv, NoteInv, [Next]_vars PROVE NoteInv'
  OBVIOUS
<1>1. CASE UNCHANGED vars
  <2> USE <1>1 DEF vars
  <2>1. ASSUME NEW p \in Procs, RunOK(proc[p]) PROVE RunOK(proc[p])'
    <3>1. AbsentOK(proc[p])' /\ LinesOK(proc[p])'
      BY <2>1 DEF RunOK, AbsentOK, LinesOK
    <3>2. IntentOK(proc[p])' /\ MarksOK(proc[p])' /\ PartsOK(proc[p])'
      BY <2>1 DEF RunOK, IntentOK, MarksOK, PartsOK
    <3> QED
      BY <2>1, <3>1, <3>2 DEF RunOK
  <2>2. ASSUME NEW p \in Procs, TargetOK(proc[p]) PROVE TargetOK(proc[p])'
    BY <2>2 DEF TargetOK
  <2>3. ASSUME NEW o \in Ops, OverOK(o) PROVE OverOK(o)'
    BY <2>3 DEF OverOK, Overlooked
  <2>4. \A o \in Ops : Over(o)' => Over(o)
    BY DEF Over
  <2>5. PlainFailureIsClean'
    BY DEF NoteInv, PlainFailureIsClean
  <2> QED
    BY <2>1, <2>2, <2>3, <2>4, <2>5 DEF NoteInv
<1>2. ASSUME NEW p \in Procs, CommandStep(p) \/ RunEffect(p) \/ Recovery(p) \/ Breaks(p)
      PROVE  NoteInv'
  BY <1>2, CommandStepNote, RunEffectNote, RecoveryNote, BreaksNote
<1> QED
  BY <1>1, <1>2 DEF Next

LEMMA NoteAlways == Spec => []NoteInv
<1> QED
  BY NoteInit, NoteNext, Invariance, PTL DEF Spec

\* A command that reports a plain failure has left no effect behind, whatever
\* failed on the way and however many commands ran since, unless it could not
\* write that an effect is unproven.
THEOREM PlainFailureIsAlwaysClean == Spec => []PlainFailureIsClean
<1>1. NoteInv => PlainFailureIsClean
  BY DEF NoteInv
<1> QED
  BY <1>1, NoteAlways, PTL

\* An effect that a dead or failed command may have left in part is asked for
\* by its journal until it is settled, however often recovery is interrupted,
\* with the two exceptions that the code makes.
THEOREM NothingIsEverForgotten == Spec => []NothingForgotten
<1>1. IInv /\ NoteInv => NothingForgotten
  <2> SUFFICES ASSUME IInv, NoteInv, NEW o \in Ops, NEW k \in Effects,
                      Over(o), world[o][k] = "partial"
               PROVE  NeedsRecovery(journal[o]) \/ op[o].unrecorded \/ Overlooked(o, k)
    BY DEF NothingForgotten
  <2>1. \/ op[o].unrecorded
        \/ k \in Unresolved(journal[o]) \/ Pending(journal[o], k) \/ Overlooked(o, k)
    BY DEF NoteInv, OverOK
  <2>2. journal[o] \in Seq(Line)
    BY DEF IInv, TypeOK
  <2> QED
    BY <2>1, <2>2, UnresolvedAsks, PendingAsks
<1> QED
  BY <1>1, Invariance, NoteAlways, PTL
=============================================================================
