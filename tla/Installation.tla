----------------------------- MODULE Installation -----------------------------
(***************************************************************************)
(* What setup creates and the removal commands take away again: "setup"    *)
(* (fresh, continued, after a default uninstall), "clients uninstall",     *)
(* "uninstall", "purge" and "repair", with the records that say what is    *)
(* whose (installation.json, ownership.json, external-integrations.json,   *)
(* client-integrations.json, bridge-state.json) and the things themselves: *)
(* containers, volume, files, the entries in the profiles of the clients,  *)
(* client keys and the stored credentials.                                 *)
(*                                                                         *)
(* Setup acts on one client after the other and undoes what it has done    *)
(* for a client that fails.  Every other command reads the records, shows  *)
(* a preview, takes the lock, and compares.  The user edits the profiles   *)
(* and stops containers meanwhile.                                         *)
(*                                                                         *)
(* One installation id: a setup that failed before it has published, or    *)
(* follows a purge, begins another one, which is not in the model.  Of the *)
(* journal it keeps whether an effect is on record.  A marketplace and its *)
(* plugin are one thing; so are launcher, roots and secrets (Paths).       *)
(***************************************************************************)
EXTENDS Integers, FiniteSets, Sequences

CONSTANTS
    Procs,      \* processes that run administrative commands
    Clients,    \* "codex" and "claude"
    None,       \* nobody
    MaxKeys,    \* bound: client keys ever created
    MaxMishaps  \* bound: crashes, failed calls, and things that the user touches

ASSUME ClientsAssumption == IsFiniteSet(Clients)
ASSUME NobodyAssumption == None \notin Procs \cup Clients
ASSUME BoundsAssumption == MaxKeys \in Nat /\ MaxMishaps \in Nat

VARIABLES
    disk,    \* the records
    world,   \* the things
    keys,    \* client keys: issued so far, live in the database, stored on this machine
    holder,  \* the process that holds the installation lock
    proc,    \* where each process is
    trouble, \* "reported": a command has come to less than it began; "interrupted": and has
             \* left a journal that no repair can settle
    touched, \* the things that the user has touched
    faults   \* faults so far

outside == <<world, keys>>
ghosts == <<touched, faults>>
vars == <<disk, outside, holder, proc, trouble, ghosts>>

Service == <<None, "service">>
Release == <<None, "release">>
Volume == <<None, "volume">>
Paths == <<None, "paths">>
Mcp(c) == <<c, "mcp">>
Plugin(c) == <<c, "plugin">>
Credential(c) == <<c, "credential">>

Profiles == Clients \X {"mcp", "plugin"}
Things == {Service, Release, Volume, Paths} \cup Profiles
Assets == Things \cup {Credential(c) : c \in Clients}

Key == 0 .. MaxKeys

Statuses == {"none", "service-ready", "complete", "incomplete", "recovery-required",
             "data-retained", "purged"}

Disk == [inst : [status : Statuses, selected : SUBSET Clients],
         own : [Assets -> {"none", "present", "retained", "removed"}],
         ext : SUBSET Profiles,
         integ : [Clients -> {"none", "verified", "external-verified", "removed",
                              "retained-external"}],
         bridge : [Clients -> Key]]

NoRecords == [inst |-> [status |-> "none", selected |-> {}],
              own |-> [a \in Assets |-> "none"], ext |-> {},
              integ |-> [c \in Clients |-> "none"], bridge |-> [c \in Clients |-> 0]]

Conditions == {"absent", "ours", "user", "conflict", "partial", "quarantined"}

Pcs == {"idle", "previewed", "check", "install", "deploy", "verify-prior", "clients",
        "key", "store", "unstore", "mcp", "plugin", "verify", "catch", "unplug", "unmcp",
        "revoke", "remove", "restore", "publish", "commit", "failed"}

Commands == {"setup", "uninstall", "client-uninstall", "purge", "repair"}

\* current: the records that nobody has written since this process has read them.
\* seen, look: what it has read of records and profiles.  draft: the records to publish,
\* left: those not written yet.  For the client in hand, plan: what to create; tried:
\* mutations that may have begun; posted: those with a post image of the profile; foul:
\* those whose image the user has outdated; key, made: the key and whether it is this
\* command's; broken: an inverse has failed.  effects: on record, and whether all are proven.
Process == [pc : Pcs, command : Commands, clients : SUBSET Clients, client : Clients \cup {None},
            todo : SUBSET Assets, current : SUBSET {"inst", "own"}, seen : Disk,
            look : [{"mcp", "plugin"} -> Conditions], draft : Disk,
            left : Seq({"inst", "own", "ext", "integ", "bridge"}),
            plan : SUBSET {"mcp", "plugin"}, tried : SUBSET {"mcp", "plugin"},
            posted : SUBSET {"mcp", "plugin"}, foul : SUBSET {"mcp", "plugin"}, key : Key,
            made : BOOLEAN, broken : BOOLEAN, effects : {"none", "proven", "unproven"},
            result : {"success", "incomplete", "recovery-required"}]

Idle == [pc |-> "idle", command |-> "setup", clients |-> {}, client |-> None, todo |-> {},
         current |-> {}, seen |-> NoRecords,
         look |-> [k \in {"mcp", "plugin"} |-> "absent"], draft |-> NoRecords, left |-> <<>>,
         plan |-> {}, tried |-> {}, posted |-> {}, foul |-> {}, key |-> 0, made |-> FALSE,
         broken |-> FALSE, effects |-> "none", result |-> "success"]

Init ==
    /\ disk = NoRecords
    /\ world = [a \in Things |-> "absent"]
    /\ keys = [issued |-> 0, live |-> {}, stored |-> {}]
    /\ holder = None
    /\ proc = [p \in Procs |-> Idle]
    /\ trouble = "none"
    /\ touched = {} /\ faults = 0

Mishaps == Cardinality(touched) + faults
Fault == Mishaps < MaxMishaps /\ faults' = faults + 1 /\ UNCHANGED touched

Goto(p, pc) == proc' = [proc EXCEPT ![p].pc = pc]

\* runEffect: an effect is done and verified, or its outcome is not known.
Proven(effects) == IF effects = "unproven" THEN effects ELSE "proven"
Effect(p, pc) == proc' = [proc EXCEPT ![p].pc = pc, ![p].effects = Proven(@)]
Unproven(p, pc) == proc' = [proc EXCEPT ![p].pc = pc, ![p].effects = "unproven"]

Put(a, condition) == world' = [world EXCEPT ![a] = condition]

\* "external-equivalent": an equivalent of the user's is, to every check, like ours.
Equivalent(a) == world[a] \in {"ours", "user"}

\* classifyClientComponent with the identity on record.  Setup records an MCP entry by its
\* command, arguments and scope; the adapters observe it with its environment too.  So the
\* two never agree, and an entry on record is "drifted-owned".
OnRecord(records, a) == a[2] = "mcp" /\ records.own[a] = "present"
Reusable(records, a) == Equivalent(a) /\ ~OnRecord(records, a)

\* verifyClientIntegration: the client reaches the service with its key.
Usable(c) ==
    /\ Equivalent(Mcp(c)) /\ Equivalent(Plugin(c)) /\ world[Service] = "ours"
    /\ disk.bridge[c] \in keys.live \cap keys.stored

Verified(records, c) == records.integ[c] \in {"verified", "external-verified"}

\* acquireOperation, and a lock that is held.
Acquire(p) ==
    /\ proc[p].pc = "previewed" /\ holder = None
    /\ holder' = p
    /\ Goto(p, "check")
    /\ UNCHANGED <<disk, outside, trouble, ghosts>>

LockRefused(p) ==
    /\ proc[p].pc = "previewed" /\ holder # None
    /\ proc' = [proc EXCEPT ![p] = Idle]
    /\ UNCHANGED <<disk, outside, holder, trouble, ghosts>>

\* The command ends and is heard of.
End(p, worst) ==
    /\ holder' = None
    /\ proc' = [proc EXCEPT ![p] = Idle]
    /\ trouble' = IF "interrupted" \in {trouble, worst} THEN "interrupted"
                  ELSE IF "reported" \in {trouble, worst} THEN "reported" ELSE "none"

-----------------------------------------------------------------------------
(***************************************************************************)
(* Setup                                                                   *)
(***************************************************************************)
Fresh(p) == proc[p].seen.inst.status = "none"
Reinstall(p) == proc[p].seen.inst.status = "data-retained"

\* Everything that was asked for is verified: setup looks, and changes nothing.
UnchangedSetup(request) ==
    /\ disk.inst.status \in {"service-ready", "complete"}
    /\ request \subseteq disk.inst.selected
    /\ \A c \in request : Verified(disk, c)

\* runProductionSetup takes the lock first and reads then.
StartSetup(p) ==
    /\ proc[p].pc = "idle" /\ holder = None
    /\ disk.inst.status \notin {"recovery-required", "purged"}
    /\ disk.inst.status = "none" => world[Release] = "absent"
    /\ \E request \in SUBSET Clients :
          LET all == request \cup
                  (IF disk.inst.status = "data-retained" THEN {} ELSE disk.inst.selected)
          IN  /\ ~UnchangedSetup(request)
              /\ proc' = [proc EXCEPT ![p] =
                    [Idle EXCEPT
                        !.pc = CASE disk.inst.status = "none" -> "install"
                                 [] disk.inst.status = "data-retained" -> "deploy"
                                 [] OTHER -> "verify-prior",
                        !.clients = all, !.seen = disk,
                        !.draft = [disk EXCEPT !.inst.selected = all]]]
    /\ holder' = p
    /\ UNCHANGED <<disk, outside, trouble, ghosts>>

\* installVerifiedRelease and ensureServiceSecrets.
InstallRelease(p) ==
    /\ proc[p].pc = "install"
    /\ world' = [world EXCEPT ![Release] = "ours", ![Paths] = "ours"]
    /\ Effect(p, "deploy")
    /\ UNCHANGED <<disk, keys, holder, trouble, ghosts>>

\* Mutant: a reactivated service stays "removed" on record.
RedeployedUnrecorded(p) == proc[p].draft.own

\* The ownership after the deployment: of a reinstall, reactivateOwnedAsset.
Redeployed(p) ==
    [proc[p].draft.own EXCEPT
        ![Service] = IF Reinstall(p) /\ @ = "removed" THEN "present" ELSE @]

Deploy(p) ==
    /\ proc[p].pc = "deploy" /\ world[Release] = "ours"
    /\ world' = [world EXCEPT ![Service] = "ours", ![Volume] = "ours"]
    /\ proc' = [proc EXCEPT ![p].pc = "clients", ![p].effects = Proven(@),
                            ![p].draft.own = Redeployed(p)]
    /\ UNCHANGED <<disk, keys, holder, trouble, ghosts>>

\* A release that is gone has no compose file.
DeployFails(p) ==
    /\ \/ Fault /\ world' \in {world, [world EXCEPT ![Service] = "ours", ![Volume] = "ours"]}
       \/ world[Release] # "ours" /\ UNCHANGED <<world, ghosts>>
    /\ proc[p].pc = "deploy"
    /\ Unproven(p, "failed")
    /\ UNCHANGED <<disk, keys, holder, trouble>>

InstallFails(p) ==
    /\ Fault
    /\ proc[p].pc = "install"
    /\ world' \in {world, [world EXCEPT ![Release] = "ours"],
                   [world EXCEPT ![Release] = "ours", ![Paths] = "ours"]}
    /\ Unproven(p, "failed")
    /\ UNCHANGED <<disk, keys, holder, trouble>>

\* verifyUnchangedProductionSetup.
StillVerified(records, c) ==
    /\ \A a \in {Mcp(c), Plugin(c)} : (records.own[a] = "present") # (a \in records.ext)
    /\ records.bridge[c] # 0 => records.own[Credential(c)] = "present"
    /\ Usable(c)

\* verifyPriorSelectedClients: also with no client to verify, the service, the launcher
\* and the release are.
VerifyPrior(p) ==
    /\ proc[p].pc = "verify-prior"
    /\ Goto(p, IF /\ world[Service] = "ours"
                  /\ disk.own[Release] = "present" /\ disk.own[Paths] = "present"
                  /\ \A c \in disk.inst.selected :
                        Verified(disk, c) => StillVerified(disk, c)
               THEN "clients" ELSE "failed")
    /\ UNCHANGED <<disk, outside, holder, trouble, ghosts>>

-----------------------------------------------------------------------------
\* installClientLifecycle.

\* A client that is verified is not reconciled again, but after a default uninstall.
SkipClient(p) ==
    /\ proc[p].pc = "clients" /\ ~Fresh(p) /\ ~Reinstall(p)
    /\ \E c \in proc[p].clients :
          /\ Verified(proc[p].draft, c)
          /\ proc' = [proc EXCEPT ![p].clients = @ \ {c}]
    /\ UNCHANGED <<disk, outside, holder, trouble, ghosts>>

Worse(r, s) == IF "recovery-required" \in {r, s} THEN "recovery-required"
               ELSE IF "incomplete" \in {r, s} THEN "incomplete" ELSE "success"

\* The client in hand is done with; what was kept for it is of no use any more.
Done(p, result) ==
    [proc[p] EXCEPT !.pc = "clients", !.clients = @ \ {proc[p].client}, !.client = None,
                    !.plan = {}, !.tried = {}, !.posted = {}, !.foul = {}, !.key = 0,
                    !.made = FALSE, !.broken = FALSE, !.result = Worse(@, result)]

\* The preflight: what is absent is created, an equivalent is reused, anything else, or
\* a call that fails, blocks this client.
Preflight(p) ==
    /\ proc[p].pc = "clients"
    /\ \E c \in proc[p].clients :
          LET plan == {k \in {"mcp", "plugin"} : world[<<c, k>>] = "absent"}
              chosen == [proc[p] EXCEPT !.client = c, !.plan = plan]
          IN  /\ Fresh(p) \/ Reinstall(p) \/ ~Verified(proc[p].draft, c)
              /\ \/ /\ \A k \in {"mcp", "plugin"} : k \in plan \/ Reusable(proc[p].draft, <<c, k>>)
                    /\ proc' = [proc EXCEPT ![p] =
                          [chosen EXCEPT !.pc = IF "mcp" \in plan THEN "key"
                                                ELSE IF "plugin" \in plan THEN "plugin"
                                                ELSE "verify"]]
                    /\ UNCHANGED ghosts
                 \/ /\ \E k \in {"mcp", "plugin"} : k \notin plan /\ ~Reusable(proc[p].draft, <<c, k>>)
                    /\ proc' = [proc EXCEPT ![p] =
                          [Done(p, "incomplete") EXCEPT !.clients = @ \ {c}]]
                    /\ UNCHANGED ghosts
                 \/ /\ Fault
                    /\ proc' = [proc EXCEPT ![p] =
                          [Done(p, "incomplete") EXCEPT !.clients = @ \ {c}]]
    /\ UNCHANGED <<disk, outside, holder, trouble>>

\* A continued setup takes the key that bridge-state.json has, alive or not.
ReuseKey(p) ==
    LET k == proc[p].draft.bridge[proc[p].client]
    IN  /\ proc[p].pc = "key" /\ ~Fresh(p) /\ k # 0
        /\ proc' = [proc EXCEPT ![p].pc = "mcp", ![p].key = k]
        /\ UNCHANGED <<disk, outside, holder, trouble, ghosts>>

NeedsKey(p) == proc[p].pc = "key" /\ (Fresh(p) \/ proc[p].draft.bridge[proc[p].client] = 0)

\* createClientKeyInAdminContainer.
CreateKey(p) ==
    /\ NeedsKey(p) /\ world[Service] = "ours" /\ keys.issued < MaxKeys
    /\ keys' = [keys EXCEPT !.issued = @ + 1, !.live = @ \cup {keys.issued + 1}]
    /\ proc' = [proc EXCEPT ![p].pc = "store", ![p].effects = Proven(@),
                            ![p].key = keys.issued + 1]
    /\ UNCHANGED <<disk, world, holder, trouble, ghosts>>

\* It revokes what it may have created; if that fails too, the client needs recovery.
CreateKeyFails(p) ==
    /\ NeedsKey(p)
    /\ \/ /\ Fault /\ UNCHANGED keys
          /\ \E broken \in BOOLEAN :
                proc' = [proc EXCEPT ![p].pc = "catch", ![p].effects = "unproven",
                                       ![p].broken = broken]
       \/ /\ Fault /\ keys.issued < MaxKeys /\ world[Service] = "ours"
          /\ keys' = [keys EXCEPT !.issued = @ + 1, !.live = @ \cup {keys.issued + 1}]
          /\ proc' = [proc EXCEPT ![p].pc = "catch", ![p].effects = "unproven",
                                       ![p].broken = TRUE]
       \/ /\ world[Service] # "ours" \/ keys.issued = MaxKeys
          /\ proc' = [proc EXCEPT ![p].pc = "catch", ![p].effects = "unproven",
                                       ![p].broken = TRUE]
          /\ UNCHANGED <<keys, ghosts>>
    /\ UNCHANGED <<disk, world, holder, trouble>>

\* The Secret Service, or files of mode 0600: a token has one reference.
Stored(token) == keys.stored \cup {token}
Cleared(token) == keys.stored \ {token}

\* The token is stored and read back, and the bridge learns of it.
StoreCredential(p) ==
    /\ proc[p].pc = "store"
    /\ keys' = [keys EXCEPT !.stored = Stored(proc[p].key)]
    /\ disk' = [disk EXCEPT !.bridge[proc[p].client] = proc[p].key]
    /\ proc' = [proc EXCEPT ![p].pc = "mcp", ![p].made = TRUE,
                            ![p].draft.bridge[proc[p].client] = proc[p].key]
    /\ UNCHANGED <<world, holder, trouble, ghosts>>

StoreFails(p) ==
    /\ Fault
    /\ proc[p].pc = "store"
    /\ \E stored, entered, written \in BOOLEAN :
          /\ (written => entered) /\ (entered => stored)
          /\ keys' = [keys EXCEPT !.stored = IF stored THEN Stored(proc[p].key) ELSE @]
          /\ disk' = [disk EXCEPT !.bridge[proc[p].client] = IF written THEN proc[p].key ELSE @]
          /\ proc' = [proc EXCEPT ![p].pc = "unstore",
                          ![p].draft.bridge[proc[p].client] = IF entered THEN proc[p].key ELSE @]
    /\ UNCHANGED <<world, holder, trouble>>

\* A fresh setup takes all three back; a continued one revokes the key.
UndoStore(p) ==
    /\ proc[p].pc = "unstore"
    /\ world[Service] = "ours"
    /\ keys' = [keys EXCEPT !.live = @ \ {proc[p].key},
                            !.stored = IF Fresh(p) THEN Cleared(proc[p].key) ELSE @]
    /\ disk' = [disk EXCEPT !.bridge[proc[p].client] = IF Fresh(p) THEN 0 ELSE @]
    /\ proc' = [proc EXCEPT ![p].pc = "catch",
                            ![p].draft.bridge[proc[p].client] = IF Fresh(p) THEN 0 ELSE @]
    /\ UNCHANGED <<world, holder, trouble, ghosts>>

\* What has failed the store may fail this too; the continued one does not mind.
UndoStoreFails(p) ==
    /\ proc[p].pc = "unstore"
    /\ \E cleared \in {proc[p].key, 0} :
          keys' = [keys EXCEPT !.stored = IF Fresh(p) THEN Cleared(cleared) ELSE @]
    /\ disk' \in {disk} \cup
          (IF Fresh(p) THEN {[disk EXCEPT !.bridge[proc[p].client] = 0]} ELSE {})
    /\ proc' = [proc EXCEPT ![p].pc = "catch", ![p].broken = Fresh(p),
                            ![p].draft.bridge[proc[p].client] = IF Fresh(p) THEN 0 ELSE @]
    /\ UNCHANGED <<world, holder, trouble, ghosts>>

-----------------------------------------------------------------------------
\* addMcp and addPlugin.

Adding(p) == proc[p].pc \in {"mcp", "plugin"}
Added(p) == <<proc[p].client, proc[p].pc>>

\* With the post image of the profile.
AddComponent(p) ==
    /\ Adding(p) /\ world[Added(p)] = "absent"
    /\ Put(Added(p), "ours")
    /\ proc' = [proc EXCEPT
          ![p].pc = IF proc[p].pc = "mcp" /\ "plugin" \in proc[p].plan THEN "plugin" ELSE "verify",
          ![p].effects = Proven(@), ![p].tried = @ \cup {proc[p].pc},
          ![p].posted = @ \cup {proc[p].pc}]
    /\ UNCHANGED <<disk, keys, holder, trouble, ghosts>>

\* ClientMutationNotStartedError: something is there meanwhile.
AddRefused(p) ==
    /\ Adding(p) /\ world[Added(p)] # "absent"
    /\ Goto(p, "catch")
    /\ UNCHANGED <<disk, outside, holder, trouble, ghosts>>

AddFails(p) ==
    /\ Fault
    /\ Adding(p) /\ world[Added(p)] = "absent"
    /\ \E condition \in {"absent", "ours"} \cup (IF proc[p].pc = "plugin" THEN {"partial"} ELSE {}) :
          Put(Added(p), condition)
    /\ proc' = [proc EXCEPT ![p].pc = "catch", ![p].effects = "unproven",
                            ![p].tried = @ \cup {proc[p].pc}]
    /\ UNCHANGED <<disk, keys, holder, trouble>>

-----------------------------------------------------------------------------
\* A client that is verified goes on record.

\* "Integration cannot be both external and owned", whatever its disposition.
Contradictory(p) ==
    \E k \in {"mcp", "plugin"} :
        LET a == <<proc[p].client, k>>
        IN  IF k \in proc[p].plan THEN a \in proc[p].draft.ext
            ELSE proc[p].draft.own[a] # "none" /\ a \notin proc[p].draft.ext

\* What is created is owned, what is reused external; a credential is recorded when it is
\* created, and when it was retained.
Recorded(p) ==
    LET c == proc[p].client
        records == proc[p].draft
        created == {<<c, k>> : k \in proc[p].plan}
        credited == /\ records.bridge[c] # 0
                    /\ records.own[Credential(c)] = "retained" \/ proc[p].seen.bridge[c] = 0
        present == created \cup (IF credited THEN {Credential(c)} ELSE {})
    IN  [records EXCEPT
            !.own = [a \in Assets |-> IF a \in present THEN "present" ELSE @[a]],
            !.ext = @ \cup ({<<c, "mcp">>, <<c, "plugin">>} \ created),
            !.integ[c] = IF created # {} THEN "verified" ELSE "external-verified"]

\* An error in the recording is that of the whole setup.
VerifyClient(p) ==
    /\ proc[p].pc = "verify"
    /\ \/ /\ ~Usable(proc[p].client)
          /\ Goto(p, "catch")
       \/ /\ Usable(proc[p].client) /\ ~Contradictory(p)
          /\ proc' = [proc EXCEPT ![p] = [Done(p, "success") EXCEPT !.draft = Recorded(p)]]
       \/ /\ Usable(proc[p].client) /\ Contradictory(p)
          /\ Goto(p, "failed")
    /\ UNCHANGED <<disk, outside, holder, trouble, ghosts>>

VerifyFails(p) ==
    /\ Fault
    /\ proc[p].pc = "verify"
    /\ Goto(p, "catch")
    /\ UNCHANGED <<disk, outside, holder, trouble>>

-----------------------------------------------------------------------------
(***************************************************************************)
(* What a failed client is given back                                      *)
(***************************************************************************)

\* A failed mutation has no post image: that of now is taken.
Catch(p) ==
    /\ proc[p].pc = "catch"
    /\ LET last == IF "plugin" \in proc[p].tried THEN {"plugin"} ELSE proc[p].tried
       IN  proc' = [proc EXCEPT
              ![p].pc = IF "plugin" \in proc[p].tried THEN "unplug"
                        ELSE IF "mcp" \in proc[p].tried THEN "unmcp" ELSE "revoke",
              ![p].posted = IF @ = {} THEN last ELSE @]
    /\ UNCHANGED <<disk, outside, holder, trouble, ghosts>>

Outdated(p, k) == k \in proc[p].posted \cap proc[p].foul

\* guardedInverse: nothing is undone in a profile that the user has changed since.
GuardFails(p) ==
    /\ \/ proc[p].pc = "unplug" /\ Outdated(p, "plugin")
       \/ proc[p].pc = "unmcp" /\ Outdated(p, "mcp")
    /\ proc' = [proc EXCEPT ![p].pc = "revoke", ![p].broken = TRUE]
    /\ UNCHANGED <<disk, outside, holder, trouble, ghosts>>

\* removePlugin, and the guard of the MCP entry before its own inverse.
Unplug(p) ==
    /\ proc[p].pc = "unplug" /\ ~Outdated(p, "plugin")
    /\ Put(Plugin(proc[p].client), "absent")
    /\ proc' = [proc EXCEPT
          ![p].pc = IF "mcp" \in proc[p].tried /\ ~Outdated(p, "mcp") THEN "unmcp" ELSE "revoke",
          ![p].broken = @ \/ Outdated(p, "mcp")]
    /\ UNCHANGED <<disk, keys, holder, trouble, ghosts>>

\* An inverse may fail with what has failed the client: that is no further mishap.
UnplugFails(p) ==
    /\ proc[p].pc = "unplug" /\ ~Outdated(p, "plugin")
    /\ world' \in {world, [world EXCEPT ![Plugin(proc[p].client)] = "absent"]} \cup
          (IF world[Plugin(proc[p].client)] = "absent" THEN {}
           ELSE {[world EXCEPT ![Plugin(proc[p].client)] = "partial"]})
    /\ proc' = [proc EXCEPT ![p].pc = "revoke", ![p].broken = TRUE]
    /\ UNCHANGED <<disk, keys, holder, trouble, ghosts>>

Unmcp(p) ==
    /\ proc[p].pc = "unmcp" /\ ~Outdated(p, "mcp")
    /\ world[Mcp(proc[p].client)] # "absent"
    /\ Put(Mcp(proc[p].client), "absent")
    /\ Goto(p, "revoke")
    /\ UNCHANGED <<disk, keys, holder, trouble, ghosts>>

UnmcpFails(p) ==
    /\ proc[p].pc = "unmcp" /\ ~Outdated(p, "mcp")
    /\ world' \in {world, [world EXCEPT ![Mcp(proc[p].client)] = "absent"]}
    /\ proc' = [proc EXCEPT ![p].pc = "revoke", ![p].broken = TRUE]
    /\ UNCHANGED <<disk, keys, holder, trouble, ghosts>>

Settled(p, broken) == Done(p, IF broken THEN "recovery-required" ELSE "incomplete")

\* A fresh setup also takes back the entry of the bridge; a continued one leaves it.
Forgotten(p, records) ==
    IF Fresh(p) THEN [records EXCEPT !.bridge[proc[p].client] = 0] ELSE records

\* revokeCredential, of a key that this command has made.
Revoke(p) ==
    /\ proc[p].pc = "revoke"
    /\ \/ ~proc[p].made /\ UNCHANGED <<disk, keys>>
       \/ /\ proc[p].made /\ world[Service] = "ours"
          /\ disk' = Forgotten(p, disk)
          /\ keys' = [keys EXCEPT !.live = @ \ {proc[p].key}, !.stored = Cleared(proc[p].key)]
    /\ proc' = [proc EXCEPT ![p] = [Settled(p, proc[p].broken) EXCEPT
          !.draft = IF proc[p].made THEN Forgotten(p, @) ELSE @]]
    /\ UNCHANGED <<world, holder, trouble, ghosts>>

\* One begins with the entry and the credential, the other with the key.
RevokeFails(p) ==
    /\ proc[p].pc = "revoke" /\ proc[p].made
    /\ \E undone \in SUBSET {"bridge", "stored", "live"} :
          /\ IF Fresh(p) THEN undone \in {{}, {"bridge"}, {"bridge", "stored"}}
             ELSE undone = {} \/ (undone = {"live"} /\ world[Service] = "ours")
          /\ disk' = IF "bridge" \in undone THEN Forgotten(p, disk) ELSE disk
          /\ keys' = [keys EXCEPT
                !.stored = IF "stored" \in undone THEN Cleared(proc[p].key) ELSE @,
                !.live = IF "live" \in undone THEN @ \ {proc[p].key} ELSE @]
    /\ proc' = [proc EXCEPT ![p] = [Settled(p, TRUE) EXCEPT !.draft = Forgotten(p, @)]]
    /\ UNCHANGED <<world, holder, trouble, ghosts>>

-----------------------------------------------------------------------------
\* Mutant: the status is that of the result.
StatusOfResult(p) == proc[p].result

\* The status that setup comes to.
Status(p) ==
    IF proc[p].result # "success" THEN proc[p].result
    ELSE IF proc[p].draft.inst.selected = {} THEN "service-ready" ELSE "complete"

\* The records in the order of their publication.
Conclude(p) ==
    /\ proc[p].pc = "clients" /\ proc[p].clients = {}
    /\ proc' = [proc EXCEPT
          ![p].pc = "publish",
          ![p].draft.inst.status = Status(p),
          ![p].draft.own = IF Fresh(p)
              THEN [a \in Assets |-> IF a \in {Service, Release, Volume, Paths} THEN "present"
                                     ELSE @[a]]
              ELSE @,
          ![p].left = IF Fresh(p) THEN <<"inst", "own", "ext", "integ">>
                      ELSE <<"own", "ext", "integ", "bridge", "inst">>]
    /\ UNCHANGED <<disk, outside, holder, trouble, ghosts>>

\* atomicWriteJson.
Written(p, record) == [disk EXCEPT ![record] = proc[p].draft[record]]

\* Who has previewed what is now out of date will find it changed, whatever it was; only a
\* repair of nothing does not look.  "clients uninstall" looks at the ownership alone.
Stale(p, record) ==
    [q \in Procs |->
        IF q = p \/ proc[q].pc # "previewed" \/ record \notin {"inst", "own"} THEN proc[q]
        ELSE IF record = "own" \/ proc[q].command \in {"uninstall", "purge"}
        THEN [Idle EXCEPT !.pc = "previewed", !.command = proc[q].command,
                          !.todo = IF proc[q].command = "repair" THEN proc[q].todo ELSE {}]
        ELSE [proc[q] EXCEPT !.current = @ \ {"inst"}]]

Publish(p) ==
    /\ proc[p].pc = "publish"
    /\ disk' = Written(p, Head(proc[p].left))
    /\ proc' = [Stale(p, Head(proc[p].left)) EXCEPT
          ![p].left = Tail(@),
          ![p].pc = IF Len(proc[p].left) = 1 THEN "commit" ELSE "publish",
          ![p].effects = Proven(@)]
    /\ UNCHANGED <<outside, holder, trouble, ghosts>>

PublishFails(p) ==
    /\ Fault
    /\ proc[p].pc = "publish"
    /\ \/ UNCHANGED disk /\ Unproven(p, "failed")
       \/ /\ disk' = Written(p, Head(proc[p].left))
          /\ proc' = [Stale(p, Head(proc[p].left)) EXCEPT ![p].pc = "failed",
                                                         ![p].effects = "unproven"]
    /\ UNCHANGED <<outside, holder, trouble>>

Commit(p) ==
    /\ proc[p].pc = "commit"
    /\ End(p, IF proc[p].result = "recovery-required" THEN "reported" ELSE "none")
    /\ UNCHANGED <<disk, outside, ghosts>>

\* The journal is cancelled; with an unproven effect, a recovery is due.
Failed(p) ==
    /\ proc[p].pc = "failed"
    /\ End(p, CASE proc[p].effects = "none" -> "none"
                [] proc[p].effects = "proven" -> "reported"
                [] OTHER -> "interrupted")
    /\ UNCHANGED <<disk, outside, ghosts>>

\* A crash between two effects, or in the middle of one that had no effect.
Crash(p) ==
    /\ Fault
    /\ holder = p
    /\ End(p, "interrupted") \/ (proc[p].effects = "none" /\ End(p, "none"))
    /\ UNCHANGED <<disk, outside>>

-----------------------------------------------------------------------------
(***************************************************************************)
(* Removal                                                                 *)
(***************************************************************************)
ServiceAssets == {Service, Release, Volume, Paths}

Held(records, assets) == {a \in assets : records.own[a] = "present"}
Kept(records, assets) == {a \in assets : records.own[a] \in {"present", "retained"}}

\* planOwnedAssetDispositions, and planRepair.
Planned(command, c) ==
    CASE command = "uninstall" -> Held(disk, {Service} \cup Profiles)
      [] command = "client-uninstall" ->
            Held(disk, {Mcp(c), Plugin(c)}) \cup Kept(disk, {Credential(c)})
      [] command = "purge" -> Kept(disk, Assets)
      [] command = "repair" -> {a \in {Service} \cup Profiles :
                                   disk.own[a] # "none" /\ world[a] = "absent"}

Previewable(command) ==
    /\ disk.inst.status # "none" /\ world[Paths] = "ours"
    /\ command \in {"uninstall", "repair"} => disk.inst.status # "data-retained"
    /\ command = "purge" => disk.inst.status = "data-retained"

\* The records are read before the lock is taken.
Preview(p) ==
    /\ proc[p].pc = "idle"
    /\ \E command \in Commands \ {"setup"}, c \in Clients :
          /\ Previewable(command)
          /\ command # "client-uninstall" => c = CHOOSE d \in Clients : TRUE
          /\ proc' = [proc EXCEPT ![p] =
                [Idle EXCEPT !.pc = "previewed", !.command = command,
                    !.client = IF command = "client-uninstall" THEN c ELSE None,
                    !.todo = Planned(command, c), !.current = {"inst", "own"},
                    !.seen = disk, !.draft = disk,
                    !.look = IF command = "client-uninstall"
                             THEN [k \in {"mcp", "plugin"} |-> world[<<c, k>>]] ELSE @]]
    /\ UNCHANGED <<disk, outside, holder, trouble, ghosts>>

\* observeIdentity and requireCurrentOwnedAssetIdentity.
Removable(p, a) ==
    CASE a[2] = "mcp" -> FALSE  \* "drifted-owned", or absent
      [] a[2] = "plugin" -> proc[p].command # "purge" /\ Equivalent(a)
      [] a = Service -> proc[p].command = "uninstall" /\ world[a] = "ours"
      [] a \in ServiceAssets \ {Service} -> world[a] = "ours"
      [] OTHER -> /\ proc[p].seen.bridge[a[1]] # 0
                  /\ proc[p].command = "purge" => proc[p].seen.bridge[a[1]] \in keys.stored

\* uninstall and purge: nothing has changed, and all of it can be removed.
CheckAll(p) ==
    /\ proc[p].pc = "check" /\ proc[p].command \in {"uninstall", "purge"}
    /\ Goto(p, IF /\ proc[p].current = {"inst", "own"}
                  /\ \A a \in proc[p].todo : Removable(p, a)
               THEN "remove" ELSE "failed")
    /\ UNCHANGED <<disk, outside, holder, trouble, ghosts>>

\* clients uninstall: what is absent is skipped; anything that is not as expected blocks
\* the client, and that is an effect without a result.
CheckClient(p) ==
    LET c == proc[p].client
        absent == {a \in proc[p].todo \ {Credential(c)} : world[a] = "absent"}
        same == \A a \in proc[p].todo \ {Credential(c)} : world[a] = proc[p].look[a[2]]
        blocked == \E a \in proc[p].todo \ absent : ~Removable(p, a)
    IN  /\ proc[p].pc = "check" /\ proc[p].command = "client-uninstall"
        /\ proc' = [proc EXCEPT
              ![p].pc = IF "own" \notin proc[p].current \/ ~same \/ blocked
                        THEN "failed" ELSE "remove",
              ![p].effects = IF "own" \in proc[p].current /\ same /\ blocked
                             THEN "unproven" ELSE @,
              ![p].todo = @ \ absent,
              ![p].draft.own = [a \in Assets |->
                  IF a \in proc[p].todo THEN "removed" ELSE @[a]]]
        /\ UNCHANGED <<disk, outside, holder, trouble, ghosts>>

\* repair: a journal that it cannot settle stops it.
CheckRepair(p) ==
    /\ proc[p].pc = "check" /\ proc[p].command = "repair"
    /\ Goto(p, IF trouble = "interrupted" THEN "failed" ELSE "restore")
    /\ UNCHANGED <<disk, outside, holder, trouble, ghosts>>

Rank(a) == CASE a[2] = "plugin" -> 1 [] a = Release -> 2 [] a = Volume -> 3
             [] a[2] = "credential" -> 4 [] a = Paths -> 5 [] OTHER -> 0

InTurn(p, a) ==
    /\ proc[p].pc = "remove" /\ a \in proc[p].todo
    /\ \A b \in proc[p].todo : Rank(a) <= Rank(b)

\* A volume that a container uses is not removed; a key is revoked through the service.
Possible(p, a) ==
    /\ a = Volume => world[Service] # "ours"
    /\ (a[2] = "credential" /\ proc[p].command = "client-uninstall") => world[Service] = "ours"

\* Mutant: a plugin is disabled, and stays.
RemovalButPlugins(p, a) ==
    /\ world' = IF a \in ServiceAssets \ {Service} THEN [world EXCEPT ![a] = "absent"] ELSE world
    /\ UNCHANGED <<disk, keys>>

\* removeAsset: what it takes away.  The containers go all at once, later.
Removal(p, a) ==
    /\ world' = IF a \in Things \ {Service} THEN [world EXCEPT ![a] = "absent"] ELSE world
    /\ disk' = IF a = Paths THEN [disk EXCEPT !.bridge = [c \in Clients |-> 0]] ELSE disk
    /\ LET k == IF a[2] = "credential" THEN {proc[p].seen.bridge[a[1]]} ELSE {}
       IN  keys' = [keys EXCEPT
              !.stored = @ \ k,
              !.live = IF a = Volume THEN {}
                       ELSE IF proc[p].command = "client-uninstall" THEN @ \ k ELSE @]

Remove(p) ==
    \E a \in Assets :
        /\ InTurn(p, a) /\ Removable(p, a) /\ Possible(p, a)
        /\ Removal(p, a)
        /\ proc' = [proc EXCEPT ![p].todo = @ \ {a}, ![p].draft.own[a] = "removed",
                                ![p].effects = Proven(@)]
        /\ UNCHANGED <<holder, trouble, ghosts>>

\* It is not ours any more, or the call fails.
RemoveRefused(p) ==
    \E a \in Assets :
        /\ InTurn(p, a) /\ ~(Removable(p, a) /\ Possible(p, a))
        /\ IF Removable(p, a) \/ proc[p].command = "client-uninstall"
           THEN Unproven(p, "failed") ELSE Goto(p, "failed")
        /\ UNCHANGED <<disk, outside, holder, trouble, ghosts>>

\* A key that is revoked, with its token still in store.
Halfway(p, a) ==
    IF a[2] = "credential" /\ proc[p].command = "client-uninstall"
    THEN {[keys EXCEPT !.live = @ \ {proc[p].seen.bridge[a[1]]}]} ELSE {}

\* Of a plugin a part may be left, of a tree the quarantine, of a credential the token.
RemoveFails(p) ==
    /\ Fault
    /\ \E a \in Assets :
          /\ InTurn(p, a) /\ Removable(p, a) /\ Possible(p, a)
          /\ \/ /\ keys' \in {keys} \cup Halfway(p, a)
                /\ UNCHANGED <<disk, world>>
             \/ Removal(p, a)
             \/ a[2] = "plugin" /\ Put(a, "partial") /\ UNCHANGED <<disk, keys>>
             \/ a \in {Release, Paths} /\ Put(a, "quarantined") /\ UNCHANGED <<disk, keys>>
    /\ Unproven(p, "failed")
    /\ UNCHANGED <<holder, trouble>>

Retained(own) == [a \in Assets |-> IF own[a] = "present" THEN "retained" ELSE own[a]]

\* uninstall ends with "compose down" and the publication.
StopService(p) ==
    /\ proc[p].pc = "remove" /\ proc[p].command = "uninstall" /\ proc[p].todo = {}
    /\ world[Release] = "ours"
    /\ Put(Service, "absent")
    /\ proc' = [proc EXCEPT ![p].pc = "publish", ![p].effects = Proven(@),
                            ![p].draft = [@ EXCEPT !.own = Retained(proc[p].draft.own),
                                                   !.inst.status = "data-retained"],
                            ![p].left = <<"own", "inst">>]
    /\ UNCHANGED <<disk, keys, holder, trouble, ghosts>>

StopFails(p) ==
    /\ proc[p].pc = "remove" /\ proc[p].command = "uninstall" /\ proc[p].todo = {}
    /\ \/ world[Release] # "ours" /\ UNCHANGED <<world, ghosts>>
       \/ Fault /\ world' \in {world, [world EXCEPT ![Service] = "absent"]}
    /\ Unproven(p, "failed")
    /\ UNCHANGED <<disk, keys, holder, trouble>>

PurgeDone(p) ==
    /\ proc[p].pc = "remove" /\ proc[p].command = "purge" /\ proc[p].todo = {}
    /\ proc' = [proc EXCEPT ![p].pc = "publish", ![p].draft.inst.status = "purged",
                            ![p].left = <<"own", "inst">>]
    /\ UNCHANGED <<disk, outside, holder, trouble, ghosts>>

\* clients uninstall publishes the bridge and the installation as it has read them before
\* the lock, with any status.  transitionClientIntegration may throw.
ClientDone(p) ==
    LET c == proc[p].client
        selected == proc[p].seen.inst.selected \ {c}
    IN  /\ proc[p].pc = "remove" /\ proc[p].command = "client-uninstall"
        /\ proc[p].todo = {}
        /\ IF disk.integ[c] \in {"none", "verified", "external-verified"}
           THEN proc' = [proc EXCEPT
                  ![p].pc = "publish",
                  ![p].draft = [@ EXCEPT
                      !.integ = [disk.integ EXCEPT ![c] =
                          CASE @ = "verified" -> "removed"
                            [] @ = "external-verified" -> "retained-external"
                            [] OTHER -> @],
                      !.bridge[c] = 0,
                      !.inst = [selected |-> selected, status |->
                          IF selected = {} THEN "service-ready" ELSE "complete"]],
                  ![p].left = <<"own", "integ", "bridge", "inst">>]
           ELSE Unproven(p, "failed")
        /\ UNCHANGED <<disk, outside, holder, trouble, ghosts>>

-----------------------------------------------------------------------------
\* repair: what is still missing is made anew, whatever its disposition.
Restore(p) ==
    \E a \in proc[p].todo :
        /\ proc[p].pc = "restore" /\ "own" \in proc[p].current
        /\ IF world[a] = "absent"
           THEN /\ a = Service => world[Release] = "ours"
                /\ Put(a, "ours")
                /\ proc' = [proc EXCEPT ![p].todo = @ \ {a}, ![p].effects = Proven(@),
                      ![p].draft.own[a] = IF @ = "removed" THEN "present" ELSE @]
           ELSE proc' = [proc EXCEPT ![p].todo = @ \ {a}] /\ UNCHANGED world
        /\ UNCHANGED <<disk, keys, holder, trouble, ghosts>>

RestoreFails(p) ==
    \E a \in proc[p].todo :
        /\ proc[p].pc = "restore"
        /\ \/ /\ "own" \notin proc[p].current
             /\ Goto(p, "failed") /\ UNCHANGED <<world, ghosts>>
          \/ /\ a = Service /\ world[a] = "absent" /\ world[Release] # "ours"
             /\ Unproven(p, "failed") /\ UNCHANGED <<world, ghosts>>
          \/ /\ Fault
             /\ world[a] = "absent" /\ (a = Service => world[Release] = "ours")
             /\ world' \in {world, [world EXCEPT ![a] = "ours"]}
             /\ Unproven(p, "failed")
        /\ UNCHANGED <<disk, keys, holder, trouble>>

RepairDone(p) ==
    /\ proc[p].pc = "restore" /\ proc[p].todo = {}
    /\ proc' = [proc EXCEPT
          ![p].pc = IF proc[p].draft.own = proc[p].seen.own THEN "commit" ELSE "publish",
          ![p].left = IF proc[p].draft.own = proc[p].seen.own THEN <<>> ELSE <<"own">>]
    /\ UNCHANGED <<disk, outside, holder, trouble, ghosts>>

-----------------------------------------------------------------------------
\* The user removes an entry, puts an equivalent or another one there, stops the containers.
Meddle ==
    \E a \in Profiles \cup {Service} :
        /\ a \in touched \/ Mishaps < MaxMishaps
        /\ touched' = touched \cup {a}
        /\ \E condition \in {"absent", "user", "conflict"} \ {world[a]} :
              /\ a = Service => condition = "absent"
              /\ condition = "user" => disk.inst.status # "none"
              /\ world[a] \in {"absent", "ours"}
              /\ Put(a, condition)
        /\ proc' = [p \in Procs |->
              IF proc[p].client = a[1] /\ a # Service
              THEN [proc[p] EXCEPT !.foul = @ \cup proc[p].posted] ELSE proc[p]]
        /\ UNCHANGED <<disk, keys, holder, trouble, faults>>

Setup(p) ==
    \/ StartSetup(p) \/ InstallRelease(p) \/ InstallFails(p) \/ Deploy(p) \/ DeployFails(p)
    \/ VerifyPrior(p) \/ SkipClient(p) \/ Preflight(p)
    \/ ReuseKey(p) \/ CreateKey(p) \/ CreateKeyFails(p) \/ StoreCredential(p) \/ StoreFails(p)
    \/ UndoStore(p) \/ UndoStoreFails(p)
    \/ AddComponent(p) \/ AddRefused(p) \/ AddFails(p) \/ VerifyClient(p) \/ VerifyFails(p)
    \/ Catch(p) \/ GuardFails(p) \/ Unplug(p) \/ UnplugFails(p) \/ Unmcp(p) \/ UnmcpFails(p)
    \/ Revoke(p) \/ RevokeFails(p) \/ Conclude(p)

Removing(p) ==
    \/ Preview(p) \/ Acquire(p) \/ LockRefused(p)
    \/ CheckAll(p) \/ CheckClient(p) \/ CheckRepair(p)
    \/ Remove(p) \/ RemoveRefused(p) \/ RemoveFails(p) \/ StopService(p) \/ StopFails(p)
    \/ PurgeDone(p) \/ ClientDone(p) \/ Restore(p) \/ RestoreFails(p) \/ RepairDone(p)

Ending(p) == Publish(p) \/ PublishFails(p) \/ Commit(p) \/ Failed(p) \/ Crash(p)

Next ==
    \/ \E p \in Procs : Setup(p) \/ Removing(p) \/ Ending(p)
    \/ Meddle

Spec == Init /\ [][Next]_vars

-----------------------------------------------------------------------------
TypeOK ==
    /\ disk \in Disk
    /\ world \in [Things -> Conditions]
    /\ keys \in [issued : Key, live : SUBSET Key, stored : SUBSET Key]
    /\ holder \in Procs \cup {None}
    /\ proc \in [Procs -> Process]
    /\ trouble \in {"none", "reported", "interrupted"}
    /\ touched \in SUBSET Things /\ faults \in 0 .. MaxMishaps

\* Between two commands, and as long as all of them have come to what they have reported,
\* the ownership record lists what SkillWire has made, and all of it.
RecordIsTrue ==
    (holder = None /\ trouble = "none") =>
        \A a \in Things \ touched :
            disk.own[a] \in {"present", "retained"} <=> world[a] = "ours"

\* Nothing is struck off the record while it is still there.
RemovedIsGone ==
    [][\A a \in Things \ touched :
          (disk'.own[a] = "removed" /\ disk.own[a] # "removed") => world[a] # "ours"]_vars

\* An uninstall that nothing disturbs goes through (contracts/administrative-cli.md:104);
\* with an MCP entry on record defaultUninstallOperation refuses it before it has begun.
UninstallRemoves ==
    \A p \in Procs :
        (proc[p].command = "uninstall" /\ proc[p].pc = "failed") =>
            touched # {} \/ faults > 0 \/ proc[p].current # {"inst", "own"} \/ trouble # "none"

=============================================================================
