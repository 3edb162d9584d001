-------------------------- MODULE KeyRotationProofs --------------------------
(***************************************************************************)
(* Proofs about KeyRotation, for any sets of processes, clients and keys   *)
(* and any number of faults.                                               *)
(***************************************************************************)
EXTENDS KeyRotation, TLAPS

(***************************************************************************)
(* The inductive invariant: what each place of a rotation knows of the two *)
(* keys it has in hand.                                                    *)
(***************************************************************************)
Free == {"idle", "previewed"}

Replacing == {"store", "activate", "verify", "revoke-old", "remove-old", "rollback",
              "withdraw", "discard"} \cup Records

\* The two keys are two, and no other client's.
PairOK(x) ==
    x.pc \in Replacing =>
        /\ x.fresh \in issued /\ x.old \in issued /\ x.fresh # x.old
        /\ \A d \in Clients : d # x.client => bridge[d] # x.old /\ bridge[d] # x.fresh

BridgeOK(x) ==
    /\ x.pc \in {"create", "store", "activate", "withdraw", "discard"} =>
          bridge[x.client] = x.old
    /\ x.pc \in {"verify", "revoke-old", "remove-old", "commit"} \cup Records =>
          bridge[x.client] = x.fresh
    /\ x.pc = "rollback" => bridge[x.client] \in {x.old, x.fresh}

\* As long as there is a way back, both work.
BothWork(x) ==
    /\ x.pc = "store" => x.fresh \in live
    /\ x.pc \in {"activate", "verify", "revoke-old", "rollback"} => x.fresh \in live \cap stored
    /\ x.pc \in {"verify", "revoke-old", "rollback"} /\ x.client \notin deadly =>
          x.old \in live \cap stored

WorkOK(x) == PairOK(x) /\ BridgeOK(x) /\ BothWork(x)

Distinct == \A c, d \in Clients : bridge[c] = bridge[d] => c = d

AllWork == \A p \in Procs : WorkOK(proc[p])

IInv == TypeOK /\ Distinct /\ AllWork /\ ClientIsServed

-----------------------------------------------------------------------------
\* A step of the holder of the lock, that keeps it.
LEMMA HeldStep ==
    ASSUME IInv, NEW p \in Procs, proc[p].pc \notin Free,
           proc' \in [Procs -> Process],
           \A q \in Procs : q # p => proc'[q] = proc[q],
           proc'[p].pc \notin Free, WorkOK(proc[p])',
           live' \subseteq issued', stored' \subseteq issued', issued' \subseteq Keys,
           bridge' \in [Clients -> issued'], record' \in [Records -> [Clients -> issued']],
           deadly' \subseteq Clients, faults' \in Nat,
           Distinct', ClientIsServed', UNCHANGED <<holder, interrupted>>
    PROVE  IInv'
<1>1. TypeOK /\ holder = p
  BY DEF IInv, TypeOK, Free
<1>2. \A q \in Procs : proc'[q].pc \notin {"idle", "previewed"} <=> holder' = q
  BY <1>1 DEF TypeOK, Free
<1>3. TypeOK'
  BY <1>1, <1>2 DEF TypeOK
<1>4. ASSUME NEW q \in Procs, q # p PROVE WorkOK(proc[q])'
  <2>1. proc'[q].pc \in Free
    BY <1>1, <1>4 DEF TypeOK, Free
  <2> QED
    BY <2>1 DEF WorkOK, PairOK, BridgeOK, BothWork, Free, Replacing, Records
<1> QED
  BY <1>3, <1>4 DEF IInv, AllWork

\* A step that changes nothing but the place of its process, and perhaps the lock.
LEMMA QuietStep ==
    ASSUME IInv, NEW p \in Procs,
           proc' \in [Procs -> Process],
           \A q \in Procs : q # p => proc'[q] = proc[q],
           WorkOK(proc[p])',
           holder' \in Procs \cup {None}, interrupted' \in BOOLEAN, faults' \in Nat,
           \A q \in Procs : proc'[q].pc \notin Free <=> holder' = q,
           UNCHANGED <<keys, bridge, record, deadly>>
    PROVE  IInv'
<1>1. TypeOK'
  BY DEF IInv, TypeOK, keys, Free
<1>2. Distinct' /\ ClientIsServed'
  BY DEF IInv, Distinct, ClientIsServed, keys
<1>3. ASSUME NEW q \in Procs, q # p PROVE WorkOK(proc[q])'
  <2>1. WorkOK(proc[q])
    BY DEF IInv, AllWork
  <2> QED
    BY <2>1, <1>3 DEF WorkOK, PairOK, BridgeOK, BothWork, keys
<1> QED
  BY <1>1, <1>2, <1>3 DEF IInv, AllWork

\* The record of a process is well formed wherever it goes.
LEMMA Going ==
    ASSUME TypeOK, NEW p \in Procs, NEW pc \in Pcs, Goto(p, pc)
    PROVE  /\ proc' \in [Procs -> Process]
           /\ \A q \in Procs : q # p => proc'[q] = proc[q]
           /\ proc'[p] = [proc[p] EXCEPT !.pc = pc]
           /\ proc'[p].pc = pc /\ proc'[p].client = proc[p].client
           /\ proc'[p].old = proc[p].old /\ proc'[p].fresh = proc[p].fresh
BY DEF TypeOK, Goto, Process

LEMMA InitInv == Init => IInv
<1> SUFFICES ASSUME Init PROVE IInv
  OBVIOUS
<1>1. PICK c \in Clients : proc = [p \in Procs |-> Idle(c, bridge[c])]
  BY DEF Init
<1>2. bridge \in [Clients -> Presented] /\ Presented \subseteq Keys
  BY DEF Init, Presented
<1>3. Idle(c, bridge[c]) \in Process /\ Idle(c, bridge[c]).pc = "idle"
  BY <1>2 DEF Idle, Process, Pcs
<1>4. record \in [Records -> [Clients -> issued]]
  BY <1>2 DEF Init
<1>5. \A p \in Procs : proc[p].pc \notin {"idle", "previewed"} <=> holder = p
  BY <1>1, <1>3, NobodyAssumption DEF Init
<1>6. TypeOK
  BY <1>1, <1>2, <1>3, <1>4, <1>5 DEF TypeOK, Init
<1>7. AllWork
  BY <1>1, <1>3 DEF AllWork, WorkOK, PairOK, BridgeOK, BothWork, Replacing, Records
<1>8. Distinct /\ ClientIsServed
  BY DEF Init, Distinct, ClientIsServed, Presented
<1> QED
  BY <1>6, <1>7, <1>8 DEF IInv

-----------------------------------------------------------------------------
(***************************************************************************)
(* One lemma per action.  First the steps that leave keys and records      *)
(* alone.                                                                  *)
(***************************************************************************)
LEMMA PreviewStep ==
    ASSUME IInv, NEW p \in Procs, Preview(p) PROVE IInv'
<1>1. PICK c \in Clients :
         /\ record["ownership"][c] = bridge[c]
         /\ proc' = [proc EXCEPT ![p] = [pc |-> "previewed", client |-> c, old |-> bridge[c],
                         seen |-> record["ownership"], fresh |-> bridge[c], named |-> FALSE]]
  BY DEF Preview
<1>2. TypeOK /\ bridge[c] \in Keys /\ record["ownership"] \in [Clients -> Keys]
  BY DEF IInv, TypeOK, Records
<1>3. proc' \in [Procs -> Process] /\ proc'[p].pc = "previewed"
  BY <1>1, <1>2 DEF TypeOK, Process, Pcs
<1>4. \A q \in Procs : q # p => proc'[q] = proc[q]
  BY <1>1, <1>2 DEF TypeOK
<1>5. WorkOK(proc[p])'
  BY <1>3 DEF WorkOK, PairOK, BridgeOK, BothWork, Replacing, Records
<1>6. \A q \in Procs : proc'[q].pc \notin Free <=> holder' = q
  BY <1>2, <1>3, <1>4 DEF TypeOK, Preview, Free
<1> QED
  BY <1>2, <1>3, <1>4, <1>5, <1>6, QuietStep DEF Preview, TypeOK

LEMMA AcquireStep ==
    ASSUME IInv, NEW p \in Procs, Acquire(p) PROVE IInv'
<1>1. TypeOK /\ "check" \in Pcs /\ Goto(p, "check")
  BY DEF IInv, Acquire, Pcs
<1>2. /\ proc' \in [Procs -> Process] /\ proc'[p].pc = "check"
      /\ \A q \in Procs : q # p => proc'[q] = proc[q]
  BY <1>1, Going
<1>3. WorkOK(proc[p])'
  BY <1>2 DEF WorkOK, PairOK, BridgeOK, BothWork, Replacing, Records
<1>4. \A q \in Procs : proc'[q].pc \notin Free <=> holder' = q
  BY <1>1, <1>2, NobodyAssumption DEF TypeOK, Acquire, Free
<1> QED
  BY <1>1, <1>2, <1>3, <1>4, QuietStep DEF Acquire, TypeOK

LEMMA LockRefusedStep ==
    ASSUME IInv, NEW p \in Procs, LockRefused(p) PROVE IInv'
<1>1. TypeOK /\ "idle" \in Pcs /\ Goto(p, "idle")
  BY DEF IInv, LockRefused, Pcs
<1>2. /\ proc' \in [Procs -> Process] /\ proc'[p].pc = "idle"
      /\ \A q \in Procs : q # p => proc'[q] = proc[q]
  BY <1>1, Going
<1>3. WorkOK(proc[p])'
  BY <1>2 DEF WorkOK, PairOK, BridgeOK, BothWork, Replacing, Records
<1>4. \A q \in Procs : proc'[q].pc \notin Free <=> holder' = q
  BY <1>1, <1>2 DEF TypeOK, LockRefused, Free
<1> QED
  BY <1>1, <1>2, <1>3, <1>4, QuietStep DEF LockRefused, TypeOK

\* The holder of the lock stops, and gives the lock back.
LEMMA EndStep ==
    ASSUME IInv, NEW p \in Procs, proc[p].pc \notin Free \/ holder = p, Goto(p, "idle"),
           holder' = None, interrupted' \in BOOLEAN, faults' \in Nat,
           UNCHANGED <<keys, bridge, record, deadly>>
    PROVE  IInv'
<1>1. TypeOK /\ "idle" \in Pcs
  BY DEF IInv, Pcs
<1>2. /\ proc' \in [Procs -> Process] /\ proc'[p].pc = "idle"
      /\ \A q \in Procs : q # p => proc'[q] = proc[q]
  BY <1>1, Going
<1>3. WorkOK(proc[p])'
  BY <1>2 DEF WorkOK, PairOK, BridgeOK, BothWork, Replacing, Records
<1>4. holder = p
  BY <1>1 DEF TypeOK, Free
<1>5. \A q \in Procs : proc'[q].pc \notin Free <=> holder' = q
  BY <1>1, <1>2, <1>4, NobodyAssumption DEF TypeOK, Free
<1> QED
  BY <1>2, <1>3, <1>5, QuietStep

LEMMA EndSteps ==
    ASSUME IInv, NEW p \in Procs, CheckRefused(p) \/ Commit(p) \/ Failed(p) \/ Crash(p)
    PROVE  IInv'
<1>1. faults \in Nat /\ interrupted \in BOOLEAN
  BY DEF IInv, TypeOK
<1>2. CASE CheckRefused(p)
  BY <1>1, <1>2, EndStep DEF CheckRefused, Fault, Free
<1>3. CASE Commit(p)
  BY <1>1, <1>3, EndStep DEF Commit, Free
<1>4. CASE Failed(p)
  BY <1>1, <1>4, EndStep DEF Failed, Free
<1>5. CASE Crash(p)
  BY <1>1, <1>5, EndStep DEF Crash, Fault
<1> QED
  BY <1>2, <1>3, <1>4, <1>5

\* Going from one place of a rotation to another.
LEMMA GoStep ==
    ASSUME IInv, NEW p \in Procs, proc[p].pc \notin Free, NEW pc \in Pcs \ Free, Goto(p, pc),
           WorkOK(proc'[p]), faults' \in Nat,
           UNCHANGED <<keys, bridge, record, holder, interrupted, deadly>>
    PROVE  IInv'
<1>1. TypeOK
  BY DEF IInv
<1>2. /\ proc' \in [Procs -> Process] /\ proc'[p].pc = pc
      /\ \A q \in Procs : q # p => proc'[q] = proc[q]
  BY <1>1, Going
<1>3. WorkOK(proc[p])'
  BY DEF WorkOK, PairOK, BridgeOK, BothWork, keys
<1>4. \A q \in Procs : proc'[q].pc \notin Free <=> holder' = q
  BY <1>1, <1>2 DEF TypeOK, Free
<1> QED
  BY <1>1, <1>2, <1>3, <1>4, QuietStep DEF TypeOK

LEMMA CheckStep ==
    ASSUME IInv, NEW p \in Procs, Check(p) PROVE IInv'
<1>1. TypeOK /\ "create" \in Pcs \ Free /\ proc[p].pc \notin Free /\ Goto(p, "create")
  BY DEF IInv, Check, Pcs, Free
<1>2. /\ proc'[p].pc = "create" /\ proc'[p].client = proc[p].client
      /\ proc'[p].old = proc[p].old
  BY <1>1, Going
<1>3. WorkOK(proc'[p])
  BY <1>2 DEF WorkOK, PairOK, BridgeOK, BothWork, Replacing, Records, Check, Unchanged
<1> QED
  BY <1>1, <1>3, GoStep DEF Check, TypeOK

LEMMA CommitFailsStep ==
    ASSUME IInv, NEW p \in Procs, CommitFails(p) PROVE IInv'
<1>1. TypeOK /\ "failed" \in Pcs \ Free /\ proc[p].pc \notin Free /\ Goto(p, "failed")
  BY DEF IInv, CommitFails, Pcs, Free
<1>2. proc'[p].pc = "failed"
  BY <1>1, Going
<1>3. WorkOK(proc'[p])
  BY <1>2 DEF WorkOK, PairOK, BridgeOK, BothWork, Replacing, Records
<1> QED
  BY <1>1, <1>3, GoStep DEF CommitFails, Fault, TypeOK

LEMMA VerifySteps ==
    ASSUME IInv, NEW p \in Procs, Verify(p) \/ VerifyFails(p) PROVE IInv'
<1>1. TypeOK /\ proc[p].pc = "verify" /\ proc[p].pc \notin Free /\ WorkOK(proc[p])
  BY DEF IInv, AllWork, Verify, VerifyFails, Free
<1>2. PICK pc \in {"revoke-old", "rollback"} : Goto(p, pc)
  BY DEF Verify, VerifyFails
<1>3. pc \in Pcs \ Free
  BY DEF Pcs, Free
<1>4. /\ proc'[p].pc = pc /\ proc'[p].client = proc[p].client
      /\ proc'[p].old = proc[p].old /\ proc'[p].fresh = proc[p].fresh
  BY <1>1, <1>2, <1>3, Going
<1>5. WorkOK(proc'[p])
  BY <1>1, <1>4 DEF WorkOK, PairOK, BridgeOK, BothWork, Replacing, Records
<1>6. faults' \in Nat /\ UNCHANGED <<keys, bridge, record, holder, interrupted, deadly>>
  BY <1>1 DEF Verify, VerifyFails, Fault, TypeOK
<1> QED
  BY <1>1, <1>2, <1>3, <1>5, <1>6, GoStep

(***************************************************************************)
(* The steps that create, store, revoke or remove keys.                    *)
(***************************************************************************)
LEMMA CreateStep ==
    ASSUME IInv, NEW p \in Procs, Create(p) PROVE IInv'
<1>1. TypeOK /\ proc[p].pc = "create" /\ proc[p].pc \notin Free /\ WorkOK(proc[p])
  BY DEF IInv, AllWork, Create, Free
<1>2. PICK k \in Keys \ issued :
         /\ live' = live \cup {k} /\ issued' = issued \cup {k}
         /\ proc' = [proc EXCEPT ![p].pc = "store", ![p].fresh = k]
  BY DEF Create
<1>3. /\ proc' \in [Procs -> Process] /\ \A q \in Procs : q # p => proc'[q] = proc[q]
      /\ proc'[p].pc = "store" /\ proc'[p].fresh = k
      /\ proc'[p].client = proc[p].client /\ proc'[p].old = proc[p].old
      /\ proc[p].client \in Clients
  <2> DEFINE x == [proc[p] EXCEPT !.pc = "store", !.fresh = k]
  <2>1. proc[p] \in Process
    BY <1>1 DEF TypeOK
  <2>2. /\ x \in Process /\ x.pc = "store" /\ x.fresh = k
        /\ x.client = proc[p].client /\ x.old = proc[p].old
    BY <1>2, <2>1 DEF Process, Pcs
  <2>3. proc[p].client \in Clients
    BY <2>1 DEF Process
  <2>4. proc' = [proc EXCEPT ![p] = x]
    BY <1>1, <1>2 DEF TypeOK
  <2> QED
    BY <1>1, <2>2, <2>3, <2>4 DEF TypeOK
<1>4. /\ UNCHANGED <<stored, bridge, record, holder, interrupted, deadly, faults>>
      /\ bridge \in [Clients -> issued] /\ bridge[proc[p].client] = proc[p].old
  BY <1>1 DEF Create, TypeOK, WorkOK, BridgeOK
<1>5. Distinct' /\ ClientIsServed'
  BY <1>2, <1>4 DEF IInv, Distinct, ClientIsServed
<1>6. PairOK(proc[p])'
  BY <1>2, <1>3, <1>4 DEF IInv, PairOK, Distinct
<1>7. WorkOK(proc[p])'
  BY <1>2, <1>3, <1>4, <1>6 DEF WorkOK, BridgeOK, BothWork, Records
<1>8. /\ live' \subseteq issued' /\ stored' \subseteq issued' /\ issued' \subseteq Keys
      /\ bridge' \in [Clients -> issued'] /\ record' \in [Records -> [Clients -> issued']]
  BY <1>1, <1>2, <1>4 DEF TypeOK
<1> QED
  BY <1>1, <1>3, <1>4, <1>5, <1>7, <1>8, HeldStep DEF Free, TypeOK

LEMMA CreateFailsStep ==
    ASSUME IInv, NEW p \in Procs, CreateFails(p) PROVE IInv'
<1>1. TypeOK /\ proc[p].pc \notin Free /\ "failed" \in Pcs /\ Goto(p, "failed")
  BY DEF IInv, CreateFails, Pcs, Free
<1>2. /\ proc' \in [Procs -> Process] /\ \A q \in Procs : q # p => proc'[q] = proc[q]
      /\ proc'[p].pc = "failed"
  BY <1>1, Going
<1>3. /\ UNCHANGED <<stored, bridge, record, holder, interrupted, deadly>> /\ faults' \in Nat
      /\ live \subseteq live' /\ issued \subseteq issued' /\ live' \subseteq issued'
      /\ issued' \subseteq Keys
  BY <1>1 DEF CreateFails, Fault, TypeOK
<1>4. Distinct' /\ ClientIsServed'
  BY <1>3 DEF IInv, Distinct, ClientIsServed
<1>5. WorkOK(proc[p])'
  BY <1>2 DEF WorkOK, PairOK, BridgeOK, BothWork, Replacing, Records
<1>6. /\ stored' \subseteq issued' /\ bridge' \in [Clients -> issued']
      /\ record' \in [Records -> [Clients -> issued']]
  BY <1>1, <1>3 DEF TypeOK
<1> QED
  BY <1>1, <1>2, <1>3, <1>4, <1>5, <1>6, HeldStep DEF Free, TypeOK

\* The tokens on this machine change; those that the bridges present stay.
LEMMA TokenStep ==
    ASSUME IInv, NEW p \in Procs, proc[p].pc \notin Free,
           proc' \in [Procs -> Process],
           \A q \in Procs : q # p => proc'[q] = proc[q],
           proc'[p].pc \notin Free, WorkOK(proc[p])',
           stored' \subseteq issued, faults' \in Nat,
           \A c \in Clients : bridge[c] \in stored => bridge[c] \in stored',
           UNCHANGED <<live, issued, bridge, record, holder, interrupted, deadly>>
    PROVE  IInv'
<1>1. TypeOK /\ Distinct' /\ ClientIsServed'
  BY DEF IInv, Distinct, ClientIsServed
<1> QED
  BY <1>1, HeldStep DEF TypeOK

LEMMA StoreSteps ==
    ASSUME IInv, NEW p \in Procs, Store(p) \/ StoreFails(p) PROVE IInv'
<1>1. TypeOK /\ proc[p].pc = "store" /\ proc[p].pc \notin Free /\ WorkOK(proc[p])
  BY DEF IInv, AllWork, Store, StoreFails, Free
<1>2. PICK pc \in {"activate", "withdraw"}, named \in BOOLEAN :
         /\ proc' = [proc EXCEPT ![p].pc = pc, ![p].named = named]
         /\ stored' \in {stored, stored \cup {proc[p].fresh}}
         /\ pc = "activate" => stored' = stored \cup {proc[p].fresh}
  BY DEF Store, StoreFails
<1>3. /\ proc' \in [Procs -> Process] /\ \A q \in Procs : q # p => proc'[q] = proc[q]
      /\ proc'[p].pc = pc /\ proc'[p].client = proc[p].client
      /\ proc'[p].old = proc[p].old /\ proc'[p].fresh = proc[p].fresh
  <2> DEFINE x == [proc[p] EXCEPT !.pc = pc, !.named = named]
  <2>1. proc[p] \in Process
    BY <1>1 DEF TypeOK
  <2>2. /\ x \in Process /\ x.pc = pc /\ x.fresh = proc[p].fresh
        /\ x.client = proc[p].client /\ x.old = proc[p].old
    BY <2>1 DEF Process, Pcs
  <2>3. proc' = [proc EXCEPT ![p] = x]
    BY <1>1, <1>2 DEF TypeOK
  <2> QED
    BY <1>1, <2>2, <2>3 DEF TypeOK
<1>4. /\ UNCHANGED <<live, issued, bridge, record, holder, interrupted, deadly>>
      /\ faults' \in Nat
  BY <1>1 DEF Store, StoreFails, Fault, TypeOK
<1>5. proc[p].fresh \in issued
  BY <1>1 DEF WorkOK, PairOK, Replacing
<1>6. WorkOK(proc[p])'
  BY <1>1, <1>2, <1>3, <1>4 DEF WorkOK, PairOK, BridgeOK, BothWork, Replacing, Records
<1> QED
  BY <1>1, <1>2, <1>3, <1>4, <1>5, <1>6, TokenStep DEF Free, TypeOK

LEMMA RemoveOldSteps ==
    ASSUME IInv, NEW p \in Procs, RemoveOld(p) \/ RemoveOldFails(p) PROVE IInv'
<1>1. TypeOK /\ proc[p].pc = "remove-old" /\ proc[p].pc \notin Free /\ WorkOK(proc[p])
  BY DEF IInv, AllWork, RemoveOld, RemoveOldFails, Free
<1>2. PICK pc \in {"credential-references", "failed"} : Goto(p, pc)
  BY DEF RemoveOld, RemoveOldFails
<1>3. pc \in Pcs \ Free
  BY DEF Pcs, Free, Records
<1>4. /\ proc' \in [Procs -> Process] /\ \A q \in Procs : q # p => proc'[q] = proc[q]
      /\ proc'[p].pc = pc /\ proc'[p].client = proc[p].client
      /\ proc'[p].old = proc[p].old /\ proc'[p].fresh = proc[p].fresh
  BY <1>1, <1>2, <1>3, Going
<1>5. /\ UNCHANGED <<live, issued, bridge, record, holder, interrupted, deadly>>
      /\ faults' \in Nat /\ stored' \in {stored, stored \ {proc[p].old}}
  BY <1>1 DEF RemoveOld, RemoveOldFails, Fault, TypeOK
<1>6. \A c \in Clients : bridge[c] # proc[p].old
  BY <1>1 DEF WorkOK, PairOK, BridgeOK, Replacing
<1>7. WorkOK(proc[p])'
  BY <1>1, <1>4, <1>5 DEF WorkOK, PairOK, BridgeOK, BothWork, Replacing, Records
<1>8. stored' \subseteq issued
  BY <1>1, <1>5 DEF TypeOK
<1> QED
  BY <1>1, <1>3, <1>4, <1>5, <1>6, <1>7, <1>8, TokenStep

LEMMA DiscardSteps ==
    ASSUME IInv, NEW p \in Procs, Discard(p) \/ DiscardFails(p) PROVE IInv'
<1>1. TypeOK /\ proc[p].pc = "discard" /\ proc[p].pc \notin Free /\ WorkOK(proc[p])
  BY DEF IInv, AllWork, Discard, DiscardFails, Free
<1>2. Goto(p, "failed") /\ "failed" \in Pcs \ Free
  BY DEF Discard, DiscardFails, Pcs, Free
<1>3. /\ proc' \in [Procs -> Process] /\ \A q \in Procs : q # p => proc'[q] = proc[q]
      /\ proc'[p].pc = "failed"
  BY <1>1, <1>2, Going
<1>4. /\ UNCHANGED <<live, issued, bridge, record, holder, interrupted, deadly>>
      /\ faults' \in Nat /\ stored' \in {stored, stored \ {proc[p].fresh}}
  BY <1>1 DEF Discard, DiscardFails, Fault, TypeOK
<1>5. \A c \in Clients : bridge[c] # proc[p].fresh
  BY <1>1 DEF WorkOK, PairOK, BridgeOK, Replacing
<1>6. WorkOK(proc[p])'
  BY <1>3 DEF WorkOK, PairOK, BridgeOK, BothWork, Replacing, Records
<1>7. stored' \subseteq issued
  BY <1>1, <1>4 DEF TypeOK
<1> QED
  BY <1>1, <1>2, <1>3, <1>4, <1>5, <1>6, <1>7, TokenStep

\* The keys that the database accepts change; those that the bridges present are kept,
\* unless the revocation is one that the invariant excuses.
LEMMA RevocationStep ==
    ASSUME IInv, NEW p \in Procs, proc[p].pc \notin Free,
           proc' \in [Procs -> Process],
           \A q \in Procs : q # p => proc'[q] = proc[q],
           proc'[p].pc \notin Free, WorkOK(proc[p])',
           live' \subseteq live, faults' \in Nat,
           deadly \subseteq deadly', deadly' \subseteq Clients,
           \A c \in Clients \ deadly' : bridge[c] \in live => bridge[c] \in live',
           UNCHANGED <<stored, issued, bridge, record, holder, interrupted>>
    PROVE  IInv'
<1>1. TypeOK /\ Distinct' /\ ClientIsServed'
  BY DEF IInv, Distinct, ClientIsServed
<1> QED
  BY <1>1, HeldStep DEF TypeOK

LEMMA RevokeOldSteps ==
    ASSUME IInv, NEW p \in Procs, RevokeOld(p) \/ RevokeOldFails(p) PROVE IInv'
<1>1. TypeOK /\ proc[p].pc = "revoke-old" /\ proc[p].pc \notin Free /\ WorkOK(proc[p])
  BY DEF IInv, AllWork, RevokeOld, RevokeOldFails, Free
<1>2. PICK pc \in {"remove-old", "rollback"} :
         /\ Goto(p, pc)
         /\ \/ live' = live /\ deadly' = deadly
            \/ live' = live \ {proc[p].old} /\ deadly' = deadly \cup {proc[p].client}
            \/ live' = live \ {proc[p].old} /\ deadly' = deadly /\ pc = "remove-old"
  BY DEF RevokeOld, RevokeOldFails
<1>3. pc \in Pcs \ Free
  BY DEF Pcs, Free
<1>4. /\ proc' \in [Procs -> Process] /\ \A q \in Procs : q # p => proc'[q] = proc[q]
      /\ proc'[p].pc = pc /\ proc'[p].client = proc[p].client
      /\ proc'[p].old = proc[p].old /\ proc'[p].fresh = proc[p].fresh
      /\ proc[p].client \in Clients
  BY <1>1, <1>2, <1>3, Going DEF TypeOK, Process
<1>5. /\ UNCHANGED <<stored, issued, bridge, record, holder, interrupted>>
      /\ faults' \in Nat
  BY <1>1 DEF RevokeOld, RevokeOldFails, Fault, TypeOK
<1>6. \A c \in Clients : bridge[c] # proc[p].old
  BY <1>1 DEF WorkOK, PairOK, BridgeOK, Replacing
<1>7. proc[p].fresh # proc[p].old
  BY <1>1 DEF WorkOK, PairOK, Replacing
<1>8. WorkOK(proc[p])'
  BY <1>1, <1>2, <1>4, <1>5, <1>7 DEF WorkOK, PairOK, BridgeOK, BothWork, Replacing, Records
<1>9. deadly' \subseteq Clients /\ live' \subseteq live /\ deadly \subseteq deadly'
  BY <1>1, <1>2, <1>4 DEF TypeOK
<1> QED
  BY <1>1, <1>2, <1>3, <1>4, <1>5, <1>6, <1>8, <1>9, RevocationStep

LEMMA WithdrawSteps ==
    ASSUME IInv, NEW p \in Procs, Withdraw(p) \/ WithdrawFails(p) PROVE IInv'
<1>1. TypeOK /\ proc[p].pc = "withdraw" /\ proc[p].pc \notin Free /\ WorkOK(proc[p])
  BY DEF IInv, AllWork, Withdraw, WithdrawFails, Free
<1>2. PICK pc \in {"discard", "failed"} : Goto(p, pc)
  BY DEF Withdraw, WithdrawFails
<1>3. pc \in Pcs \ Free
  BY DEF Pcs, Free
<1>4. /\ proc' \in [Procs -> Process] /\ \A q \in Procs : q # p => proc'[q] = proc[q]
      /\ proc'[p].pc = pc /\ proc'[p].client = proc[p].client
      /\ proc'[p].old = proc[p].old /\ proc'[p].fresh = proc[p].fresh
  BY <1>1, <1>2, <1>3, Going
<1>5. /\ UNCHANGED <<stored, issued, bridge, record, holder, interrupted, deadly>>
      /\ faults' \in Nat /\ live' \in {live, live \ {proc[p].fresh}}
  BY <1>1 DEF Withdraw, WithdrawFails, Fault, TypeOK
<1>6. \A c \in Clients : bridge[c] # proc[p].fresh
  BY <1>1 DEF WorkOK, PairOK, BridgeOK, Replacing
<1>7. WorkOK(proc[p])'
  BY <1>1, <1>4, <1>5 DEF WorkOK, PairOK, BridgeOK, BothWork, Replacing, Records
<1>8. deadly' \subseteq Clients /\ live' \subseteq live
  BY <1>1, <1>5 DEF TypeOK
<1> QED
  BY <1>1, <1>3, <1>4, <1>5, <1>6, <1>7, <1>8, RevocationStep

(***************************************************************************)
(* The steps that move a bridge from one of the two keys to the other.     *)
(***************************************************************************)
LEMMA BridgeStep ==
    ASSUME IInv, NEW p \in Procs, proc[p].pc \in Replacing, NEW pc \in Pcs \ Free, Goto(p, pc),
           NEW k \in {proc[p].old, proc[p].fresh},
           bridge' = [bridge EXCEPT ![proc[p].client] = k],
           proc[p].client \in deadly \/ k \in live \cap stored,
           WorkOK(proc[p])', faults' \in Nat,
           UNCHANGED <<keys, record, holder, interrupted, deadly>>
    PROVE  IInv'
<1>1. TypeOK /\ WorkOK(proc[p]) /\ proc[p].pc \notin Free
  BY DEF IInv, AllWork, Replacing, Free, Records
<1>2. /\ proc' \in [Procs -> Process] /\ \A q \in Procs : q # p => proc'[q] = proc[q]
      /\ proc'[p].pc = pc
  BY <1>1, Going
<1>3. proc[p].client \in Clients /\ k \in issued
  BY <1>1 DEF WorkOK, PairOK, TypeOK, Process
<1>4. \A d \in Clients : d # proc[p].client => bridge[d] # k
  BY <1>1 DEF WorkOK, PairOK
<1>5. Distinct'
  BY <1>1, <1>3, <1>4 DEF IInv, Distinct, TypeOK
<1>6. ClientIsServed'
  BY <1>1, <1>3 DEF IInv, ClientIsServed, TypeOK, keys
<1>7. bridge' \in [Clients -> issued']
  BY <1>1, <1>3 DEF TypeOK, keys
<1> QED
  BY <1>1, <1>2, <1>5, <1>6, <1>7, HeldStep DEF TypeOK, keys

\* What a step of the bridge leaves of the invariant of its process.
LEMMA BridgeWork ==
    ASSUME IInv, NEW p \in Procs, proc[p].pc \in Replacing, NEW pc \in Pcs \ Free, Goto(p, pc),
           NEW k \in {proc[p].old, proc[p].fresh},
           bridge' = [bridge EXCEPT ![proc[p].client] = k],
           UNCHANGED <<keys, deadly>>
    PROVE  /\ PairOK(proc[p])'
           /\ bridge'[proc[p].client] = k
           /\ proc'[p].pc = pc /\ proc'[p].client = proc[p].client
           /\ proc'[p].old = proc[p].old /\ proc'[p].fresh = proc[p].fresh
<1>1. TypeOK /\ WorkOK(proc[p])
  BY DEF IInv, AllWork
<1>2. /\ proc'[p].pc = pc /\ proc'[p].client = proc[p].client
      /\ proc'[p].old = proc[p].old /\ proc'[p].fresh = proc[p].fresh
  BY <1>1, Going
<1>3. proc[p].client \in Clients /\ bridge'[proc[p].client] = k
  BY <1>1 DEF TypeOK, Process
<1>4. \A d \in Clients : d # proc[p].client => bridge'[d] = bridge[d]
  BY <1>1 DEF TypeOK
<1>5. PairOK(proc[p])'
  BY <1>1, <1>2, <1>4 DEF WorkOK, PairOK, keys
<1> QED
  BY <1>2, <1>3, <1>5

LEMMA ActivateSteps ==
    ASSUME IInv, NEW p \in Procs, Activate(p) \/ ActivateFails(p) PROVE IInv'
<1>1. TypeOK /\ proc[p].pc = "activate" /\ WorkOK(proc[p]) /\ proc[p].pc \in Replacing
  BY DEF IInv, AllWork, Activate, ActivateFails, Replacing
<1>2. proc[p].client \in Clients /\ bridge[proc[p].client] = proc[p].old
  BY <1>1 DEF TypeOK, Process, WorkOK, BridgeOK
<1>3. PICK pc \in {"verify", "rollback"}, k \in {proc[p].old, proc[p].fresh} :
         /\ Goto(p, pc) /\ bridge' = [bridge EXCEPT ![proc[p].client] = k]
         /\ pc = "verify" => k = proc[p].fresh
  BY <1>1, <1>2 DEF Activate, ActivateFails, TypeOK
<1>4. pc \in Pcs \ Free
  BY DEF Pcs, Free
<1>5. /\ UNCHANGED <<keys, record, holder, interrupted, deadly>> /\ faults' \in Nat
  BY <1>1 DEF Activate, ActivateFails, Fault, TypeOK
<1>6. /\ PairOK(proc[p])' /\ bridge'[proc[p].client] = k
      /\ proc'[p].pc = pc /\ proc'[p].client = proc[p].client
      /\ proc'[p].old = proc[p].old /\ proc'[p].fresh = proc[p].fresh
  BY <1>1, <1>3, <1>4, <1>5, BridgeWork
<1>7. /\ proc[p].fresh \in live \cap stored
      /\ proc[p].client \notin deadly => proc[p].old \in live \cap stored
  BY <1>1, <1>2 DEF IInv, ClientIsServed, WorkOK, BothWork
<1>8. WorkOK(proc[p])'
  BY <1>3, <1>5, <1>6, <1>7 DEF WorkOK, BridgeOK, BothWork, Records, keys
<1> QED
  BY <1>1, <1>3, <1>4, <1>5, <1>7, <1>8, BridgeStep

LEMMA RollbackSteps ==
    ASSUME IInv, NEW p \in Procs, Rollback(p) \/ RollbackFails(p) PROVE IInv'
<1>1. TypeOK /\ proc[p].pc = "rollback" /\ WorkOK(proc[p]) /\ proc[p].pc \in Replacing
  BY DEF IInv, AllWork, Rollback, RollbackFails, Replacing
<1>2. proc[p].client \in Clients /\ bridge[proc[p].client] \in {proc[p].old, proc[p].fresh}
  BY <1>1 DEF TypeOK, Process, WorkOK, BridgeOK
<1>3. PICK pc \in {"withdraw", "failed"}, k \in {proc[p].old, proc[p].fresh} :
         /\ Goto(p, pc) /\ bridge' = [bridge EXCEPT ![proc[p].client] = k]
         /\ pc = "withdraw" => k = proc[p].old
  BY <1>1, <1>2 DEF Rollback, RollbackFails, TypeOK
<1>4. pc \in Pcs \ Free
  BY DEF Pcs, Free
<1>5. /\ UNCHANGED <<keys, record, holder, interrupted, deadly>> /\ faults' \in Nat
  BY <1>1 DEF Rollback, RollbackFails, Fault, TypeOK
<1>6. /\ PairOK(proc[p])' /\ bridge'[proc[p].client] = k
      /\ proc'[p].pc = pc /\ proc'[p].client = proc[p].client
      /\ proc'[p].old = proc[p].old /\ proc'[p].fresh = proc[p].fresh
  BY <1>1, <1>3, <1>4, <1>5, BridgeWork
<1>7. /\ proc[p].fresh \in live \cap stored
      /\ proc[p].client \notin deadly => proc[p].old \in live \cap stored
  BY <1>1 DEF WorkOK, BothWork
<1>8. WorkOK(proc[p])'
  BY <1>3, <1>6 DEF WorkOK, BridgeOK, BothWork, Records
<1> QED
  BY <1>1, <1>3, <1>4, <1>5, <1>7, <1>8, BridgeStep

(***************************************************************************)
(* The steps that publish the new key in the records.                      *)
(***************************************************************************)
LEMMA PublishSteps ==
    ASSUME IInv, NEW p \in Procs, Publish(p) \/ PublishFails(p) PROVE IInv'
<1>1. /\ TypeOK /\ proc[p].pc \in Records /\ WorkOK(proc[p]) /\ proc[p].pc \notin Free
      /\ proc[p].pc \in Replacing
  BY DEF IInv, AllWork, Publish, PublishFails, Records, Free, Replacing
<1>2. PICK pc \in {"client-integrations", "ownership", "commit", "failed"} : Goto(p, pc)
  BY DEF Publish, PublishFails, After
<1>3. pc \in Pcs \ Free
  BY DEF Pcs, Free, Records
<1>4. /\ proc' \in [Procs -> Process] /\ \A q \in Procs : q # p => proc'[q] = proc[q]
      /\ proc'[p].pc = pc /\ proc'[p].client = proc[p].client
      /\ proc'[p].old = proc[p].old /\ proc'[p].fresh = proc[p].fresh
  BY <1>1, <1>2, <1>3, Going
<1>5. /\ UNCHANGED <<keys, bridge, holder, interrupted, deadly>> /\ faults' \in Nat
      /\ record' \in {record, Published(p)}
  BY <1>1 DEF Publish, PublishFails, Fault, TypeOK
<1>6. proc[p].fresh \in issued
  BY <1>1 DEF WorkOK, PairOK
<1>7. record' \in [Records -> [Clients -> issued']]
  BY <1>1, <1>5, <1>6 DEF TypeOK, Published, keys
<1>8. WorkOK(proc[p])'
  BY <1>1, <1>2, <1>4, <1>5 DEF WorkOK, PairOK, BridgeOK, BothWork, Replacing, Records, keys
<1>9. Distinct' /\ ClientIsServed'
  BY <1>5 DEF IInv, Distinct, ClientIsServed, keys
<1> QED
  BY <1>1, <1>3, <1>4, <1>5, <1>7, <1>8, <1>9, HeldStep DEF TypeOK, keys

-----------------------------------------------------------------------------
LEMMA NextInv == IInv /\ [Next]_vars => IInv'
<1> SUFFICES ASSUME IInv, [Next]_vars PROVE IInv'
  OBVIOUS
<1>1. CASE UNCHANGED vars
  BY <1>1 DEF vars, keys, IInv, TypeOK, Distinct, AllWork, WorkOK, PairOK, BridgeOK,
     BothWork, ClientIsServed
<1>2. CASE Next
  <2>1. PICK p \in Procs : Rotation(p)
    BY <1>2 DEF Next
  <2> QED
    BY <2>1, PreviewStep, AcquireStep, LockRefusedStep, CheckStep, EndSteps, CreateStep,
       CreateFailsStep, StoreSteps, ActivateSteps, VerifySteps, RevokeOldSteps,
       RemoveOldSteps, RollbackSteps, WithdrawSteps, DiscardSteps, PublishSteps,
       CommitFailsStep DEF Rotation
<1> QED
  BY <1>1, <1>2

LEMMA Invariance == Spec => []IInv
BY InitInv, NextInv, PTL DEF Spec

\* Keys, records and processes keep their form, and whoever is at work in a rotation holds
\* the installation lock.
THEOREM TypeCorrect == Spec => []TypeOK
<1>1. IInv => TypeOK
  BY DEF IInv
<1> QED
  BY <1>1, Invariance, PTL

\* However many rotations run, fail or are cut short, the bridge of a client presents a key
\* that the database accepts and whose token is stored; the clients whose old key was
\* revoked by a call that failed are the only exception.
THEOREM ClientIsServedAlways == Spec => []ClientIsServed
<1>1. IInv => ClientIsServed
  BY DEF IInv
<1> QED
  BY <1>1, Invariance, PTL

-----------------------------------------------------------------------------
(***************************************************************************)
(* RecordsAgree: as long as nothing has failed, what is left of a rotation *)
(* at each of its places.                                                  *)
(***************************************************************************)
Careful == {"check", "create", "store", "activate", "verify", "revoke-old", "remove-old",
            "commit"} \cup Records

\* The records that name the keys of the bridges.
Written(pc) ==
    CASE pc \in {"verify", "revoke-old", "remove-old", "credential-references"} -> {}
      [] pc = "client-integrations" -> {"credential-references"}
      [] pc = "ownership" -> {"credential-references", "client-integrations"}
      [] OTHER -> Records

RecordOK(x) ==
    \A r \in Records : \A c \in Clients :
        record[r][c] = IF c = x.client /\ r \notin Written(x.pc) THEN x.old ELSE bridge[c]

\* The key that the database accepts, and the token that is stored, beside those of the bridges.
LiveBeside(x) ==
    CASE x.pc \in {"store", "activate"} -> {x.fresh}
      [] x.pc \in {"verify", "revoke-old"} -> {x.old}
      [] OTHER -> {}

StoredBeside(x) ==
    CASE x.pc = "activate" -> {x.fresh}
      [] x.pc \in {"verify", "revoke-old", "remove-old"} -> {x.old}
      [] OTHER -> {}

AgreeOK(x) ==
    x.pc \in Careful =>
        /\ RecordOK(x)
        /\ live = Presented \cup LiveBeside(x)
        /\ stored = Presented \cup StoredBeside(x)

Settled ==
    /\ live = Presented /\ stored = Presented
    /\ \A r \in Records : \A c \in Clients : record[r][c] = bridge[c]

Agreement ==
    ~interrupted =>
        /\ holder = None => Settled
        /\ \A p \in Procs : AgreeOK(proc[p])

LEMMA AgreementInit == Init => Agreement
<1> SUFFICES ASSUME Init PROVE Agreement
  OBVIOUS
<1>1. \A p \in Procs : proc[p].pc = "idle"
  BY DEF Init, Idle
<1> QED
  BY <1>1 DEF Init, Agreement, Settled, AgreeOK, Careful, Records

LEMMA AgreementImplies == IInv /\ Agreement => RecordsAgree
<1> SUFFICES ASSUME IInv, Agreement, holder = None, ~interrupted
             PROVE  live = Presented /\ stored = Presented /\ \A r \in Records : record[r] = bridge
  BY DEF RecordsAgree
<1>1. bridge \in [Clients -> issued] /\ record \in [Records -> [Clients -> issued]]
  BY DEF IInv, TypeOK
<1> QED
  BY <1>1 DEF Agreement, Settled

\* Whoever has no lock is at no careful place.
LEMMA OneAtWork ==
    ASSUME TypeOK, NEW p \in Procs, proc[p].pc \notin Free, NEW q \in Procs, q # p
    PROVE  proc[q].pc \notin Careful
BY DEF TypeOK, Free, Careful, Records

\* A step of the holder that keeps the lock.
LEMMA HeldAgreement ==
    ASSUME IInv, Agreement, NEW p \in Procs, proc[p].pc \notin Free,
           \A q \in Procs : q # p => proc'[q] = proc[q],
           UNCHANGED <<holder, interrupted>>,
           ~interrupted => AgreeOK(proc[p])'
    PROVE  Agreement'
<1>1. TypeOK /\ holder = p
  BY DEF IInv, TypeOK, Free
<1>2. \A q \in Procs : q # p => AgreeOK(proc[q])'
  BY <1>1, OneAtWork DEF AgreeOK
<1> QED
  BY <1>1, <1>2, NobodyAssumption DEF Agreement

\* A rotation that has failed says nothing any more.
LEMMA FailingAgreement ==
    ASSUME IInv, Agreement, NEW p \in Procs, proc[p].pc \notin Free,
           NEW pc \in {"rollback", "withdraw", "discard", "failed"}, Goto(p, pc),
           UNCHANGED <<holder, interrupted>>
    PROVE  Agreement'
<1>1. TypeOK /\ pc \in Pcs
  BY DEF IInv, Pcs
<1>2. proc'[p].pc = pc /\ \A q \in Procs : q # p => proc'[q] = proc[q]
  BY <1>1, Going
<1>3. AgreeOK(proc[p])'
  BY <1>2 DEF AgreeOK, Careful, Records
<1> QED
  BY <1>2, <1>3, HeldAgreement

LEMMA FailingSteps ==
    ASSUME IInv, Agreement, NEW p \in Procs,
           \/ CreateFails(p) \/ ActivateFails(p) \/ VerifyFails(p) \/ RevokeOldFails(p)
           \/ RemoveOldFails(p) \/ Rollback(p) \/ RollbackFails(p) \/ Withdraw(p)
           \/ WithdrawFails(p) \/ Discard(p) \/ DiscardFails(p) \/ PublishFails(p)
           \/ CommitFails(p)
    PROVE  Agreement'
<1>1. proc[p].pc \notin Free /\ UNCHANGED <<holder, interrupted>>
  BY DEF Free, Records, CreateFails, ActivateFails, VerifyFails, RevokeOldFails,
     RemoveOldFails, Rollback, RollbackFails, Withdraw, WithdrawFails, Discard, DiscardFails,
     PublishFails, CommitFails
<1>2. PICK pc \in {"rollback", "withdraw", "discard", "failed"} : Goto(p, pc)
  BY DEF CreateFails, ActivateFails, VerifyFails, RevokeOldFails, RemoveOldFails, Rollback,
     RollbackFails, Withdraw, WithdrawFails, Discard, DiscardFails, PublishFails, CommitFails
<1> QED
  BY <1>1, <1>2, FailingAgreement

LEMMA StoreFailsAgreement ==
    ASSUME IInv, Agreement, NEW p \in Procs, StoreFails(p) PROVE Agreement'
<1>1. TypeOK /\ proc[p].pc \notin Free
  BY DEF IInv, StoreFails, Free
<1>2. PICK named \in BOOLEAN : proc' = [proc EXCEPT ![p].pc = "withdraw", ![p].named = named]
  BY DEF StoreFails
<1>3. proc'[p].pc = "withdraw" /\ \A q \in Procs : q # p => proc'[q] = proc[q]
  BY <1>1, <1>2 DEF TypeOK, Process
<1>4. AgreeOK(proc[p])'
  BY <1>3 DEF AgreeOK, Careful, Records
<1> QED
  BY <1>1, <1>3, <1>4, HeldAgreement DEF StoreFails

\* What is known at a careful place.
LEMMA AtWork ==
    ASSUME IInv, Agreement, NEW p \in Procs, proc[p].pc \in Careful
    PROVE  /\ TypeOK /\ WorkOK(proc[p]) /\ proc[p].pc \notin Free
           /\ proc[p].client \in Clients
           /\ ~interrupted => /\ RecordOK(proc[p])
                              /\ live = Presented \cup LiveBeside(proc[p])
                              /\ stored = Presented \cup StoredBeside(proc[p])
BY DEF IInv, AllWork, Agreement, AgreeOK, TypeOK, Process, Careful, Free, Records

LEMMA CheckAgreement ==
    ASSUME IInv, Agreement, NEW p \in Procs, Check(p) PROVE Agreement'
<1>1. proc[p].pc = "check" /\ "check" \in Careful /\ "create" \in Pcs
  BY DEF Check, Careful, Pcs
<1>2. /\ TypeOK /\ proc[p].pc \notin Free
      /\ ~interrupted => /\ RecordOK(proc[p])
                         /\ live = Presented \cup LiveBeside(proc[p])
                         /\ stored = Presented \cup StoredBeside(proc[p])
  BY <1>1, AtWork
<1>3. /\ proc'[p].pc = "create" /\ proc'[p].client = proc[p].client
      /\ proc'[p].old = proc[p].old /\ proc'[p].fresh = proc[p].fresh
      /\ \A q \in Procs : q # p => proc'[q] = proc[q]
  BY <1>1, <1>2, Going DEF Check
<1>4. UNCHANGED <<keys, bridge, record, holder, interrupted>>
  BY DEF Check
<1>5. ~interrupted => AgreeOK(proc[p])'
  BY <1>1, <1>2, <1>3, <1>4 DEF AgreeOK, RecordOK, Written, LiveBeside, StoredBeside,
     Presented, Records, keys
<1> QED
  BY <1>2, <1>3, <1>4, <1>5, HeldAgreement

LEMMA CreateAgreement ==
    ASSUME IInv, Agreement, NEW p \in Procs, Create(p) PROVE Agreement'
<1>1. proc[p].pc = "create" /\ "create" \in Careful
  BY DEF Create, Careful
<1>2. /\ TypeOK /\ proc[p].pc \notin Free
      /\ ~interrupted => /\ RecordOK(proc[p])
                         /\ live = Presented \cup LiveBeside(proc[p])
                         /\ stored = Presented \cup StoredBeside(proc[p])
  BY <1>1, AtWork
<1>3. PICK k \in Keys \ issued :
         live' = live \cup {k} /\ proc' = [proc EXCEPT ![p].pc = "store", ![p].fresh = k]
  BY DEF Create
<1>4. /\ proc'[p].pc = "store" /\ proc'[p].client = proc[p].client
      /\ proc'[p].old = proc[p].old /\ proc'[p].fresh = k
      /\ \A q \in Procs : q # p => proc'[q] = proc[q]
  BY <1>2, <1>3 DEF TypeOK, Process
<1>5. UNCHANGED <<stored, bridge, record, holder, interrupted>> /\ Presented' = Presented
  BY DEF Create, Presented
<1>6. ~interrupted => RecordOK(proc[p])'
  BY <1>1, <1>2, <1>4, <1>5 DEF RecordOK, Written
<1>7. /\ LiveBeside(proc[p]) = {} /\ LiveBeside(proc[p])' = {k}
      /\ StoredBeside(proc[p]) = {} /\ StoredBeside(proc[p])' = {}
  BY <1>1, <1>4 DEF LiveBeside, StoredBeside
<1>8. ~interrupted => AgreeOK(proc[p])'
  BY <1>2, <1>3, <1>5, <1>6, <1>7 DEF AgreeOK
<1> QED
  BY <1>2, <1>4, <1>5, <1>8, HeldAgreement

LEMMA StoreAgreement ==
    ASSUME IInv, Agreement, NEW p \in Procs, Store(p) PROVE Agreement'
<1>1. proc[p].pc = "store" /\ "store" \in Careful
  BY DEF Store, Careful
<1>2. /\ TypeOK /\ proc[p].pc \notin Free
      /\ ~interrupted => /\ RecordOK(proc[p])
                         /\ live = Presented \cup LiveBeside(proc[p])
                         /\ stored = Presented \cup StoredBeside(proc[p])
  BY <1>1, AtWork
<1>3. /\ proc'[p].pc = "activate" /\ proc'[p].client = proc[p].client
      /\ proc'[p].old = proc[p].old /\ proc'[p].fresh = proc[p].fresh
      /\ \A q \in Procs : q # p => proc'[q] = proc[q]
  BY <1>2 DEF TypeOK, Process, Store
<1>4. /\ UNCHANGED <<live, bridge, record, holder, interrupted>> /\ Presented' = Presented
      /\ stored' = stored \cup {proc[p].fresh}
  BY DEF Store, Presented
<1>5. ~interrupted => RecordOK(proc[p])'
  BY <1>1, <1>2, <1>3, <1>4 DEF RecordOK, Written
<1>6. /\ LiveBeside(proc[p]) = {proc[p].fresh} /\ LiveBeside(proc[p])' = {proc[p].fresh}
      /\ StoredBeside(proc[p]) = {} /\ StoredBeside(proc[p])' = {proc[p].fresh}
  BY <1>1, <1>3 DEF LiveBeside, StoredBeside
<1>7. ~interrupted => AgreeOK(proc[p])'
  BY <1>2, <1>4, <1>5, <1>6 DEF AgreeOK
<1> QED
  BY <1>2, <1>3, <1>4, <1>7, HeldAgreement

\* The bridge of the client goes over to the new key: the old key is now the one beside.
LEMMA ActivateAgreement ==
    ASSUME IInv, Agreement, NEW p \in Procs, Activate(p) PROVE Agreement'
<1>1. proc[p].pc = "activate" /\ "activate" \in Careful /\ "verify" \in Pcs
  BY DEF Activate, Careful, Pcs
<1>2. /\ TypeOK /\ proc[p].pc \notin Free /\ WorkOK(proc[p]) /\ proc[p].client \in Clients
      /\ ~interrupted => /\ RecordOK(proc[p])
                         /\ live = Presented \cup LiveBeside(proc[p])
                         /\ stored = Presented \cup StoredBeside(proc[p])
  BY <1>1, AtWork
<1>3. /\ proc'[p].pc = "verify" /\ proc'[p].client = proc[p].client
      /\ proc'[p].old = proc[p].old /\ proc'[p].fresh = proc[p].fresh
      /\ \A q \in Procs : q # p => proc'[q] = proc[q]
  BY <1>1, <1>2, Going DEF Activate
<1>4. /\ UNCHANGED <<keys, record, holder, interrupted>>
      /\ \A d \in Clients :
            bridge'[d] = IF d = proc[p].client THEN proc[p].fresh ELSE bridge[d]
  BY <1>2 DEF Activate, TypeOK
<1>5. /\ bridge[proc[p].client] = proc[p].old
      /\ \A d \in Clients : d # proc[p].client => bridge[d] # proc[p].old
  BY <1>1, <1>2 DEF WorkOK, PairOK, BridgeOK, Replacing
<1>6. Presented \cup {proc[p].fresh} = Presented' \cup {proc[p].old}
  BY <1>2, <1>4, <1>5 DEF Presented
<1>7. ~interrupted => AgreeOK(proc[p])'
  BY <1>1, <1>2, <1>3, <1>4, <1>5, <1>6 DEF AgreeOK, RecordOK, Written, LiveBeside,
     StoredBeside, Records, keys
<1> QED
  BY <1>2, <1>3, <1>4, <1>7, HeldAgreement

LEMMA VerifyAgreement ==
    ASSUME IInv, Agreement, NEW p \in Procs, Verify(p) PROVE Agreement'
<1>1. proc[p].pc = "verify" /\ "verify" \in Careful
  BY DEF Verify, Careful
<1>2. /\ TypeOK /\ proc[p].pc \notin Free
      /\ ~interrupted => /\ RecordOK(proc[p])
                         /\ live = Presented \cup LiveBeside(proc[p])
                         /\ stored = Presented \cup StoredBeside(proc[p])
  BY <1>1, AtWork
<1>3. UNCHANGED <<keys, bridge, record, holder, interrupted>>
  BY DEF Verify
<1>4. CASE Goto(p, "rollback")
  BY <1>2, <1>3, <1>4, FailingAgreement
<1>5. CASE Goto(p, "revoke-old")
  <2>1. /\ proc'[p].pc = "revoke-old" /\ proc'[p].client = proc[p].client
        /\ proc'[p].old = proc[p].old /\ proc'[p].fresh = proc[p].fresh
        /\ \A q \in Procs : q # p => proc'[q] = proc[q]
    BY <1>2, <1>5, Going DEF Pcs
  <2>2. ~interrupted => AgreeOK(proc[p])'
    BY <1>1, <1>2, <1>3, <2>1 DEF AgreeOK, RecordOK, Written, LiveBeside, StoredBeside,
       Presented, Records, keys
  <2> QED
    BY <1>2, <1>3, <2>1, <2>2, HeldAgreement
<1> QED
  BY <1>4, <1>5 DEF Verify

\* The old key and its token go.
LEMMA OldGoesAgreement ==
    ASSUME IInv, Agreement, NEW p \in Procs, RevokeOld(p) \/ RemoveOld(p) PROVE Agreement'
<1>1. proc[p].pc \in {"revoke-old", "remove-old"} /\ proc[p].pc \in Careful
  BY DEF RevokeOld, RemoveOld, Careful
<1>2. /\ TypeOK /\ proc[p].pc \notin Free /\ WorkOK(proc[p]) /\ proc[p].client \in Clients
      /\ ~interrupted => /\ RecordOK(proc[p])
                         /\ live = Presented \cup LiveBeside(proc[p])
                         /\ stored = Presented \cup StoredBeside(proc[p])
  BY <1>1, AtWork
<1>3. PICK pc \in {"remove-old", "credential-references"} :
         /\ Goto(p, pc)
         /\ proc[p].pc = "revoke-old" =>
               pc = "remove-old" /\ live' = live \ {proc[p].old} /\ stored' = stored
         /\ proc[p].pc = "remove-old" =>
               pc = "credential-references" /\ live' = live /\ stored' = stored \ {proc[p].old}
  BY DEF RevokeOld, RemoveOld
<1>4. /\ proc'[p].pc = pc /\ proc'[p].client = proc[p].client
      /\ proc'[p].old = proc[p].old /\ proc'[p].fresh = proc[p].fresh
      /\ \A q \in Procs : q # p => proc'[q] = proc[q]
  BY <1>2, <1>3, Going DEF Pcs, Records
<1>5. UNCHANGED <<bridge, record, holder, interrupted>> /\ Presented' = Presented
  BY DEF RevokeOld, RemoveOld, Presented
<1>6. proc[p].old \notin Presented
  BY <1>1, <1>2 DEF WorkOK, PairOK, BridgeOK, Replacing, Presented
<1>7. ~interrupted => RecordOK(proc[p])'
  BY <1>1, <1>2, <1>3, <1>4, <1>5 DEF RecordOK, Written
<1>8. ~interrupted => /\ live' = Presented' \cup LiveBeside(proc[p])'
                      /\ stored' = Presented' \cup StoredBeside(proc[p])'
  BY <1>1, <1>2, <1>3, <1>4, <1>5, <1>6 DEF LiveBeside, StoredBeside
<1>9. ~interrupted => AgreeOK(proc[p])'
  BY <1>7, <1>8 DEF AgreeOK
<1> QED
  BY <1>2, <1>4, <1>5, <1>9, HeldAgreement

\* One more record names the new key.
LEMMA PublishAgreement ==
    ASSUME IInv, Agreement, NEW p \in Procs, Publish(p) PROVE Agreement'
<1>1. proc[p].pc \in Records /\ proc[p].pc \in Careful
  BY DEF Publish, Careful
<1>2. /\ TypeOK /\ proc[p].pc \notin Free /\ WorkOK(proc[p]) /\ proc[p].client \in Clients
      /\ ~interrupted => /\ RecordOK(proc[p])
                         /\ live = Presented \cup LiveBeside(proc[p])
                         /\ stored = Presented \cup StoredBeside(proc[p])
  BY <1>1, AtWork
<1>3. After(proc[p].pc) \in Pcs /\ Goto(p, After(proc[p].pc))
  BY <1>1 DEF Publish, After, Pcs, Records
<1>4. /\ proc'[p].pc = After(proc[p].pc) /\ proc'[p].client = proc[p].client
      /\ proc'[p].old = proc[p].old /\ proc'[p].fresh = proc[p].fresh
      /\ \A q \in Procs : q # p => proc'[q] = proc[q]
  BY <1>2, <1>3, Going
<1>5. /\ UNCHANGED <<keys, bridge, holder, interrupted>> /\ Presented' = Presented
      /\ \A r \in Records : \A c \in Clients :
            record'[r][c] = IF r = proc[p].pc /\ c = proc[p].client
                            THEN proc[p].fresh ELSE record[r][c]
  BY <1>1, <1>2 DEF Publish, Published, Presented, TypeOK
<1>6. bridge[proc[p].client] = proc[p].fresh
  BY <1>1, <1>2 DEF WorkOK, BridgeOK
<1>7. Written(After(proc[p].pc)) = Written(proc[p].pc) \cup {proc[p].pc}
  BY <1>1 DEF Written, After, Records
<1>8. ~interrupted => RecordOK(proc[p])'
  BY <1>2, <1>4, <1>5, <1>6, <1>7 DEF RecordOK
<1>9. LiveBeside(proc[p])' = {} /\ StoredBeside(proc[p])' = {}
      /\ LiveBeside(proc[p]) = {} /\ StoredBeside(proc[p]) = {}
  BY <1>1, <1>4 DEF LiveBeside, StoredBeside, After, Records
<1>10. ~interrupted => AgreeOK(proc[p])'
  BY <1>2, <1>5, <1>8, <1>9 DEF AgreeOK, keys
<1> QED
  BY <1>2, <1>4, <1>5, <1>10, HeldAgreement

\* The steps of a process that is not at work.
LEMMA IdleAgreement ==
    ASSUME IInv, Agreement, NEW p \in Procs, Preview(p) \/ LockRefused(p) PROVE Agreement'
<1>1. TypeOK /\ UNCHANGED <<keys, bridge, record, holder, interrupted>>
  BY DEF IInv, Preview, LockRefused
<1>2. proc'[p].pc \notin Careful
  BY <1>1 DEF TypeOK, Preview, LockRefused, Goto, Careful, Records, Process
<1>3. \A q \in Procs : q # p => proc'[q] = proc[q]
  BY DEF Preview, LockRefused, Goto, IInv, TypeOK
<1>4. ASSUME NEW q \in Procs, ~interrupted PROVE AgreeOK(proc[q])'
  <2>1. CASE q = p
    BY <1>2, <2>1 DEF AgreeOK
  <2>2. CASE q # p
    <3>1. proc'[q] = proc[q] /\ AgreeOK(proc[q])
      BY <1>3, <1>4, <2>2 DEF Agreement
    <3> QED
      BY <1>1, <3>1 DEF AgreeOK, RecordOK, LiveBeside, StoredBeside, Presented, keys
  <2> QED
    BY <2>1, <2>2
<1>5. Settled' <=> Settled
  BY <1>1 DEF Settled, Presented, keys
<1> QED
  BY <1>1, <1>4, <1>5 DEF Agreement

LEMMA AcquireAgreement ==
    ASSUME IInv, Agreement, NEW p \in Procs, Acquire(p) PROVE Agreement'
<1>1. TypeOK /\ "check" \in Pcs /\ Goto(p, "check") /\ holder = None /\ holder' = p
  BY DEF IInv, Acquire, Pcs
<1>2. proc'[p].pc = "check" /\ \A q \in Procs : q # p => proc'[q] = proc[q]
  BY <1>1, Going
<1>3. UNCHANGED <<keys, bridge, record, interrupted>> /\ Presented' = Presented
  BY DEF Acquire, Presented
<1>4. \A q \in Procs : proc[q].pc \in Free
  BY <1>1, NobodyAssumption DEF TypeOK, Free
<1>5. \A q \in Procs : q # p => AgreeOK(proc[q])'
  BY <1>2, <1>4 DEF AgreeOK, Careful, Free, Records
<1>6. ~interrupted => AgreeOK(proc[p])'
  <2> SUFFICES ASSUME ~interrupted PROVE AgreeOK(proc[p])'
    OBVIOUS
  <2>1. Settled
    BY <1>1 DEF Agreement
  <2>2. RecordOK(proc[p])'
    BY <1>2, <1>3, <2>1 DEF RecordOK, Written, Settled
  <2>3. LiveBeside(proc[p])' = {} /\ StoredBeside(proc[p])' = {}
    BY <1>2 DEF LiveBeside, StoredBeside
  <2> QED
    BY <1>3, <2>1, <2>2, <2>3 DEF AgreeOK, Settled, keys
<1> QED
  BY <1>1, <1>3, <1>5, <1>6, NobodyAssumption DEF Agreement

\* The end of a rotation that has succeeded, or that has not begun.
LEMMA CleanEndAgreement ==
    ASSUME IInv, Agreement, NEW p \in Procs, CheckRefused(p) \/ Commit(p) PROVE Agreement'
<1>1. /\ proc[p].pc \in {"check", "commit"} /\ proc[p].pc \in Careful
      /\ Goto(p, "idle") /\ "idle" \in Pcs
  BY DEF CheckRefused, Commit, Careful, Pcs
<1>2. /\ TypeOK /\ proc[p].pc \notin Free
      /\ ~interrupted => /\ RecordOK(proc[p])
                         /\ live = Presented \cup LiveBeside(proc[p])
                         /\ stored = Presented \cup StoredBeside(proc[p])
  BY <1>1, AtWork
<1>3. proc'[p].pc = "idle" /\ \A q \in Procs : q # p => proc'[q] = proc[q]
  BY <1>1, <1>2, Going
<1>4. UNCHANGED <<keys, bridge, record, interrupted>> /\ Presented' = Presented
  BY DEF CheckRefused, Commit, Presented
<1>5. \A q \in Procs : proc'[q].pc \notin Careful
  BY <1>2, <1>3, OneAtWork DEF Careful, Records
<1>6. ~interrupted => Settled
  BY <1>1, <1>2 DEF Settled, RecordOK, Written, LiveBeside, StoredBeside
<1>7. ~interrupted => Settled'
  BY <1>4, <1>6 DEF Settled, keys
<1> QED
  BY <1>4, <1>5, <1>7 DEF Agreement, AgreeOK

LEMMA AgreementNext == IInv /\ Agreement /\ [Next]_vars => Agreement'
<1> SUFFICES ASSUME IInv, Agreement, [Next]_vars PROVE Agreement'
  OBVIOUS
<1>1. CASE UNCHANGED vars
  BY <1>1 DEF vars, keys, Agreement, Settled, AgreeOK, RecordOK, LiveBeside, StoredBeside,
     Presented
<1>2. CASE Next
  <2>1. PICK p \in Procs : Rotation(p)
    BY <1>2 DEF Next
  <2>2. CASE Failed(p) \/ Crash(p)
    BY <2>2 DEF Failed, Crash, Agreement
  <2> QED
    BY <2>1, <2>2, IdleAgreement, AcquireAgreement, CleanEndAgreement, CheckAgreement,
       CreateAgreement, StoreAgreement, StoreFailsAgreement, ActivateAgreement,
       VerifyAgreement, OldGoesAgreement, PublishAgreement, FailingSteps DEF Rotation
<1> QED
  BY <1>1, <1>2

\* When no command runs and nothing asks for recovery, the three records agree with the
\* bridges, the database accepts the keys of the bridges and no other, and no other token is
\* left on the machine: a rotation forgets neither the old key nor a key it has withdrawn.
THEOREM RecordsAgreeAlways == Spec => []RecordsAgree
<1>1. Init => Agreement
  BY AgreementInit
<1>2. IInv /\ Agreement /\ [Next]_vars => Agreement'
  BY AgreementNext
<1>3. IInv /\ Agreement => RecordsAgree
  BY AgreementImplies
<1> QED
  BY <1>1, <1>2, <1>3, Invariance, PTL DEF Spec
=============================================================================
