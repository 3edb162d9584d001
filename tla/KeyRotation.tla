----------------------------- MODULE KeyRotation -----------------------------
(***************************************************************************)
(* Rotation of the key of one client: rotateClientKeyOperation of          *)
(* src/onboarding/application/production-lifecycle.ts with the calls of    *)
(* ClientCredentialService in client-credentials.ts.                       *)
(*                                                                         *)
(* A rotation creates a key in the database, stores its token, has the     *)
(* bridge of the client use it, tries it, revokes the old key, removes the *)
(* old token and publishes the new one in three records.  Until the old    *)
(* key is revoked a failure takes the bridge back and withdraws the new    *)
(* key; each of these calls may fail too, with or without its effect, and  *)
(* the command may die between any two.                                    *)
(*                                                                         *)
(* A key stands for its id, its token and the reference of the token.  Of  *)
(* the journal there is only whether some rotation asks for recovery,      *)
(* which every failure after the first effect has begun does.              *)
(***************************************************************************)
EXTENDS Integers, FiniteSets

CONSTANTS
    Procs,     \* processes that run administrative commands
    Clients,   \* "codex" and "claude"
    Keys,      \* bound: client keys that are ever created
    None,      \* no process
    MaxFaults  \* bound: crashes and failed calls

ASSUME NobodyAssumption == None \notin Procs
ASSUME FaultsAssumption == MaxFaults \in Nat

VARIABLES
    live,         \* the keys that the database accepts
    stored,       \* the keys whose token is on this machine
    issued,       \* the keys created so far
    bridge,       \* bridge-state.json: the key that the bridge of a client presents
    record,       \* the key of each client in each of the three records
    holder,       \* the process that holds the installation lock
    interrupted,  \* the journal of some rotation asks for recovery
    deadly,       \* clients whose old key was revoked by a call that has failed
    proc,         \* where each process is
    faults        \* faults so far

keys == <<live, stored, issued>>
vars == <<keys, bridge, record, holder, interrupted, deadly, proc, faults>>

Records == {"credential-references", "client-integrations", "ownership"}

Pcs == {"idle", "previewed", "check", "create", "store", "activate", "verify", "revoke-old",
        "remove-old", "commit", "rollback", "withdraw", "discard", "failed"} \cup Records

\* old, seen: what the preview has read of the bridge and of the ownership record.
\* fresh: the replacement.  named: its reference is known, so that it can be removed.
Process == [pc : Pcs, client : Clients, old : Keys, seen : [Clients -> Keys], fresh : Keys,
            named : BOOLEAN]

Idle(c, k) == [pc |-> "idle", client |-> c, old |-> k, seen |-> [d \in Clients |-> k],
               fresh |-> k, named |-> FALSE]

Presented == {bridge[c] : c \in Clients}

\* Setup has given every client a key of its own.
Init ==
    /\ bridge \in [Clients -> Keys]
    /\ \A c, d \in Clients : bridge[c] = bridge[d] => c = d
    /\ live = Presented /\ stored = Presented /\ issued = Presented
    /\ record = [r \in Records |-> bridge]
    /\ holder = None
    /\ interrupted = FALSE
    /\ deadly = {}
    /\ \E c \in Clients : proc = [p \in Procs |-> Idle(c, bridge[c])]
    /\ faults = 0

Fault == faults < MaxFaults /\ faults' = faults + 1

Goto(p, pc) == proc' = [proc EXCEPT ![p].pc = pc]

\* Mutant: the ownership record keeps the old reference.
AfterWithoutOwnership(pc) ==
    CASE pc = "credential-references" -> "client-integrations" [] OTHER -> "commit"

\* The order of the publication.
After(pc) ==
    CASE pc = "credential-references" -> "client-integrations"
      [] pc = "client-integrations" -> "ownership"
      [] OTHER -> "commit"

-----------------------------------------------------------------------------
\* The ownership record must know the reference that the bridge uses.
Preview(p) ==
    /\ proc[p].pc = "idle"
    /\ \E c \in Clients :
          /\ record["ownership"][c] = bridge[c]
          /\ proc' = [proc EXCEPT ![p] = [pc |-> "previewed", client |-> c, old |-> bridge[c],
                          seen |-> record["ownership"], fresh |-> bridge[c], named |-> FALSE]]
    /\ UNCHANGED <<keys, bridge, record, holder, interrupted, deadly, faults>>

\* Mutant: the lock is taken from whoever has it.
AcquireAnyway(p) ==
    /\ proc[p].pc = "previewed"
    /\ holder' = p
    /\ Goto(p, "check")
    /\ UNCHANGED <<keys, bridge, record, interrupted, deadly, faults>>

\* acquireOperation, with the journal and its first intent.
Acquire(p) ==
    /\ proc[p].pc = "previewed" /\ holder = None
    /\ holder' = p
    /\ Goto(p, "check")
    /\ UNCHANGED <<keys, bridge, record, interrupted, deadly, faults>>

LockRefused(p) ==
    /\ proc[p].pc = "previewed" /\ holder # None
    /\ Goto(p, "idle")
    /\ UNCHANGED <<keys, bridge, record, holder, interrupted, deadly, faults>>

Unchanged(p) == record["ownership"] = proc[p].seen /\ bridge[proc[p].client] = proc[p].old

Check(p) ==
    /\ proc[p].pc = "check" /\ Unchanged(p)
    /\ Goto(p, "create")
    /\ UNCHANGED <<keys, bridge, record, holder, interrupted, deadly, faults>>

\* A plain failure: no effect has begun.  It may also be the journal that fails, or the
\* user who interrupts.
CheckRefused(p) ==
    /\ proc[p].pc = "check"
    /\ \/ ~Unchanged(p) /\ UNCHANGED faults
       \/ Fault
    /\ holder' = None
    /\ Goto(p, "idle")
    /\ UNCHANGED <<keys, bridge, record, interrupted, deadly>>

-----------------------------------------------------------------------------
\* createClientKeyInAdminContainer.
Create(p) ==
    /\ proc[p].pc = "create"
    /\ \E k \in Keys \ issued :
          /\ live' = live \cup {k} /\ issued' = issued \cup {k}
          /\ proc' = [proc EXCEPT ![p].pc = "store", ![p].fresh = k]
    /\ UNCHANGED <<stored, bridge, record, holder, interrupted, deadly, faults>>

\* It revokes the key that it may have created, which may fail as well.
CreateFails(p) ==
    /\ Fault
    /\ proc[p].pc = "create"
    /\ \/ UNCHANGED <<live, issued>>
       \/ \E k \in Keys \ issued : live' = live \cup {k} /\ issued' = issued \cup {k}
    /\ Goto(p, "failed")
    /\ UNCHANGED <<stored, bridge, record, holder, interrupted, deadly>>

\* provision stores the token and reads it back.
Store(p) ==
    /\ proc[p].pc = "store"
    /\ stored' = stored \cup {proc[p].fresh}
    /\ proc' = [proc EXCEPT ![p].pc = "activate", ![p].named = TRUE]
    /\ UNCHANGED <<live, issued, bridge, record, holder, interrupted, deadly, faults>>

\* Only a token that was stored and could not be read back has a reference.
StoreFails(p) ==
    /\ Fault
    /\ proc[p].pc = "store"
    /\ \E named \in BOOLEAN :
          /\ stored' \in (IF named THEN {} ELSE {stored}) \cup {stored \cup {proc[p].fresh}}
          /\ proc' = [proc EXCEPT ![p].pc = "withdraw", ![p].named = named]
    /\ UNCHANGED <<live, issued, bridge, record, holder, interrupted, deadly>>

\* transition.activate replaces bridge-state.json.
Activate(p) ==
    /\ proc[p].pc = "activate"
    /\ bridge' = [bridge EXCEPT ![proc[p].client] = proc[p].fresh]
    /\ Goto(p, "verify")
    /\ UNCHANGED <<keys, record, holder, interrupted, deadly, faults>>

ActivateFails(p) ==
    /\ Fault
    /\ proc[p].pc = "activate"
    /\ bridge' \in {bridge, [bridge EXCEPT ![proc[p].client] = proc[p].fresh]}
    /\ Goto(p, "rollback")
    /\ UNCHANGED <<keys, record, holder, interrupted, deadly>>

\* verifyCredentialAuthentication.
Verify(p) ==
    /\ proc[p].pc = "verify"
    /\ Goto(p, IF proc[p].fresh \in live \cap stored THEN "revoke-old" ELSE "rollback")
    /\ UNCHANGED <<keys, bridge, record, holder, interrupted, deadly, faults>>

VerifyFails(p) ==
    /\ Fault
    /\ proc[p].pc = "verify"
    /\ Goto(p, "rollback")
    /\ UNCHANGED <<keys, bridge, record, holder, interrupted, deadly>>

RevokeOld(p) ==
    /\ proc[p].pc = "revoke-old"
    /\ live' = live \ {proc[p].old}
    /\ Goto(p, "remove-old")
    /\ UNCHANGED <<stored, issued, bridge, record, holder, interrupted, deadly, faults>>

\* A revocation that has failed may have taken effect: the rollback does not ask.
RevokeOldFails(p) ==
    /\ Fault
    /\ proc[p].pc = "revoke-old"
    /\ \/ UNCHANGED <<live, deadly>>
       \/ live' = live \ {proc[p].old} /\ deadly' = deadly \cup {proc[p].client}
    /\ Goto(p, "rollback")
    /\ UNCHANGED <<stored, issued, bridge, record, holder, interrupted>>

RemoveOld(p) ==
    /\ proc[p].pc = "remove-old"
    /\ stored' = stored \ {proc[p].old}
    /\ Goto(p, "credential-references")
    /\ UNCHANGED <<live, issued, bridge, record, holder, interrupted, deadly, faults>>

\* From here on there is no way back.
RemoveOldFails(p) ==
    /\ Fault
    /\ proc[p].pc = "remove-old"
    /\ stored' \in {stored, stored \ {proc[p].old}}
    /\ Goto(p, "failed")
    /\ UNCHANGED <<live, issued, bridge, record, holder, interrupted, deadly>>

-----------------------------------------------------------------------------
\* Mutant: the new key is withdrawn and the bridge still presents it.
RollbackNothing(p) ==
    /\ proc[p].pc = "rollback"
    /\ Goto(p, "withdraw")
    /\ UNCHANGED <<keys, bridge, record, holder, interrupted, deadly, faults>>

\* transition.rollback.
Rollback(p) ==
    /\ proc[p].pc = "rollback"
    /\ bridge' = [bridge EXCEPT ![proc[p].client] = proc[p].old]
    /\ Goto(p, "withdraw")
    /\ UNCHANGED <<keys, record, holder, interrupted, deadly, faults>>

RollbackFails(p) ==
    /\ Fault
    /\ proc[p].pc = "rollback"
    /\ bridge' \in {bridge, [bridge EXCEPT ![proc[p].client] = proc[p].old]}
    /\ Goto(p, "failed")
    /\ UNCHANGED <<keys, record, holder, interrupted, deadly>>

\* revokeThenRemove.
Withdraw(p) ==
    /\ proc[p].pc = "withdraw"
    /\ live' = live \ {proc[p].fresh}
    /\ Goto(p, IF proc[p].named THEN "discard" ELSE "failed")
    /\ UNCHANGED <<stored, issued, bridge, record, holder, interrupted, deadly, faults>>

WithdrawFails(p) ==
    /\ Fault
    /\ proc[p].pc = "withdraw"
    /\ live' \in {live, live \ {proc[p].fresh}}
    /\ Goto(p, "failed")
    /\ UNCHANGED <<stored, issued, bridge, record, holder, interrupted, deadly>>

Discard(p) ==
    /\ proc[p].pc = "discard"
    /\ stored' = stored \ {proc[p].fresh}
    /\ Goto(p, "failed")
    /\ UNCHANGED <<live, issued, bridge, record, holder, interrupted, deadly, faults>>

DiscardFails(p) ==
    /\ Fault
    /\ proc[p].pc = "discard"
    /\ stored' \in {stored, stored \ {proc[p].fresh}}
    /\ Goto(p, "failed")
    /\ UNCHANGED <<live, issued, bridge, record, holder, interrupted, deadly>>

-----------------------------------------------------------------------------
\* The rotation-state effect writes one record after the other.
Published(p) == [record EXCEPT ![proc[p].pc][proc[p].client] = proc[p].fresh]

Publish(p) ==
    /\ proc[p].pc \in Records
    /\ record' = Published(p)
    /\ Goto(p, After(proc[p].pc))
    /\ UNCHANGED <<keys, bridge, holder, interrupted, deadly, faults>>

PublishFails(p) ==
    /\ Fault
    /\ proc[p].pc \in Records
    /\ record' \in {record, Published(p)}
    /\ Goto(p, "failed")
    /\ UNCHANGED <<keys, bridge, holder, interrupted, deadly>>

Commit(p) ==
    /\ proc[p].pc = "commit"
    /\ holder' = None
    /\ Goto(p, "idle")
    /\ UNCHANGED <<keys, bridge, record, interrupted, deadly, faults>>

\* Everything is published, and the journal does not say that it is over.
CommitFails(p) ==
    /\ Fault
    /\ proc[p].pc = "commit"
    /\ Goto(p, "failed")
    /\ UNCHANGED <<keys, bridge, record, holder, interrupted, deadly>>

\* The journal is cancelled, and an effect that it has on record asks for recovery.
Failed(p) ==
    /\ proc[p].pc = "failed"
    /\ holder' = None /\ interrupted' = TRUE
    /\ Goto(p, "idle")
    /\ UNCHANGED <<keys, bridge, record, deadly, faults>>

\* The process dies, and the lock goes with it.
Crash(p) ==
    /\ Fault
    /\ holder = p
    /\ holder' = None /\ interrupted' = TRUE
    /\ Goto(p, "idle")
    /\ UNCHANGED <<keys, bridge, record, deadly>>

Rotation(p) ==
    \/ Preview(p) \/ Acquire(p) \/ LockRefused(p) \/ Check(p) \/ CheckRefused(p)
    \/ Create(p) \/ CreateFails(p) \/ Store(p) \/ StoreFails(p)
    \/ Activate(p) \/ ActivateFails(p) \/ Verify(p) \/ VerifyFails(p)
    \/ RevokeOld(p) \/ RevokeOldFails(p) \/ RemoveOld(p) \/ RemoveOldFails(p)
    \/ Rollback(p) \/ RollbackFails(p) \/ Withdraw(p) \/ WithdrawFails(p)
    \/ Discard(p) \/ DiscardFails(p) \/ Publish(p) \/ PublishFails(p)
    \/ Commit(p) \/ CommitFails(p) \/ Failed(p) \/ Crash(p)

Next == \E p \in Procs : Rotation(p)

Spec == Init /\ [][Next]_vars

-----------------------------------------------------------------------------
\* Keys, records and processes are well formed, and only the holder of the lock is at work.
TypeOK ==
    /\ live \subseteq issued /\ stored \subseteq issued /\ issued \subseteq Keys
    /\ bridge \in [Clients -> issued]
    /\ record \in [Records -> [Clients -> issued]]
    /\ holder \in Procs \cup {None}
    /\ interrupted \in BOOLEAN
    /\ deadly \subseteq Clients
    /\ proc \in [Procs -> Process]
    /\ \A p \in Procs : proc[p].pc \notin {"idle", "previewed"} <=> holder = p
    /\ faults \in Nat

\* The bridge of a client presents a key that the database accepts and whose token is on
\* this machine: at every moment of every rotation, of whatever fails in it or cuts it
\* short, and of whatever is tried afterwards.  The one exception is a revocation of the
\* old key that takes effect and fails (client-credentials.ts:111).
ClientIsServed == \A c \in Clients \ deadly : bridge[c] \in live \cap stored

\* While no command runs and no journal asks for recovery, the three records name the keys
\* that the bridges present, and no other key and no other token is left.
RecordsAgree ==
    holder = None /\ ~interrupted =>
        /\ live = Presented /\ stored = Presented
        /\ \A r \in Records : record[r] = bridge
=============================================================================
