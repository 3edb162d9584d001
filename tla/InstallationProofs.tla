------------------------- MODULE InstallationProofs -------------------------
(***************************************************************************)
(* Proofs about Installation, for any processes, any finite set of clients *)
(* and any bounds.                                                         *)
(***************************************************************************)
EXTENDS Installation, FiniteSetTheorems, TLAPS

(***************************************************************************)
(* Types.                                                                  *)
(***************************************************************************)
Free == {"idle", "previewed"}

\* Where setup works for a client.
InClient == {"key", "store", "unstore", "mcp", "plugin", "verify", "catch", "unplug", "unmcp",
             "revoke"}

SetupPcs == {"install", "deploy", "verify-prior", "clients"} \cup InClient

\* The records that may still be to write.
Lists == {<<"inst", "own", "ext", "integ">>, <<"own", "ext", "integ">>, <<"ext", "integ">>,
          <<"integ">>, <<"own", "ext", "integ", "bridge", "inst">>,
          <<"ext", "integ", "bridge", "inst">>, <<"integ", "bridge", "inst">>,
          <<"bridge", "inst">>, <<"inst">>, <<"own", "integ", "bridge", "inst">>,
          <<"own", "inst">>, <<"own">>}

\* Who holds the lock is at work, and nobody else is.
LockOK ==
    /\ \A p \in Procs : proc[p].pc \notin Free => holder = p
    /\ holder # None => proc[holder].pc \notin Free

ShapeOK(x) ==
    /\ x.pc \in InClient => x.client \in Clients
    /\ x.pc \in SetupPcs => x.command = "setup"
    /\ x.pc \in {"previewed", "check", "remove", "restore"} => x.command # "setup"
    /\ x.pc = "restore" => x.command = "repair"
    /\ x.pc = "remove" => x.command # "repair"
    /\ x.pc = "publish" => x.left \in Lists

Typed ==
    /\ TypeOK /\ LockOK
    /\ \A p \in Procs : ShapeOK(proc[p])

Dispositions == {"none", "present", "retained", "removed"}
Records == {"inst", "own", "ext", "integ", "bridge"}
Keys == [issued : Key, live : SUBSET Key, stored : SUBSET Key]
Effects == {"none", "proven", "unproven"}
Components == {"mcp", "plugin"}

LEMMA NamesDiffer ==
    /\ Service # Release /\ Service # Volume /\ Service # Paths
    /\ Release # Volume /\ Release # Paths /\ Volume # Paths
    /\ \A a \in Profiles : a \notin {Service, Release, Volume, Paths}
    /\ \A c \in Clients : Mcp(c) \in Profiles /\ Plugin(c) \in Profiles /\ Credential(c) \notin Things
    /\ Things \subseteq Assets /\ ServiceAssets \subseteq Things /\ Profiles \subseteq Things
    /\ \A c \in Clients : Credential(c) \in Assets
BY NobodyAssumption
   DEF Service, Release, Volume, Paths, Mcp, Plugin, Credential, Profiles, Things, Assets, ServiceAssets

(***************************************************************************)
(* The records, one field at a time.                                       *)
(***************************************************************************)
LEMMA DiskFields ==
    ASSUME NEW d \in Disk
    PROVE  /\ d.inst.status \in Statuses /\ d.inst.selected \subseteq Clients
           /\ d.inst \in [status : Statuses, selected : SUBSET Clients]
           /\ d.own \in [Assets -> Dispositions] /\ d.ext \subseteq Profiles
           /\ d.integ \in [Clients -> {"none", "verified", "external-verified", "removed",
                                       "retained-external"}]
           /\ d.bridge \in [Clients -> Key]
BY DEF Disk, Dispositions

LEMMA DiskInst ==
    ASSUME NEW d \in Disk, NEW i \in [status : Statuses, selected : SUBSET Clients]
    PROVE  [d EXCEPT !.inst = i] \in Disk
BY DEF Disk

LEMMA DiskOwn ==
    ASSUME NEW d \in Disk, NEW o \in [Assets -> Dispositions]
    PROVE  [d EXCEPT !.own = o] \in Disk
BY DEF Disk, Dispositions

LEMMA DiskOwnAt ==
    ASSUME NEW d \in Disk, NEW a, NEW v \in Dispositions
    PROVE  [d EXCEPT !.own[a] = v] \in Disk
BY DEF Disk, Dispositions

LEMMA DiskExt ==
    ASSUME NEW d \in Disk, NEW e \in SUBSET Profiles
    PROVE  [d EXCEPT !.ext = e] \in Disk
BY DEF Disk

LEMMA DiskIntegAt ==
    ASSUME NEW d \in Disk, NEW c,
           NEW v \in {"none", "verified", "external-verified", "removed", "retained-external"}
    PROVE  [d EXCEPT !.integ[c] = v] \in Disk
BY DEF Disk

LEMMA DiskInteg ==
    ASSUME NEW d \in Disk,
           NEW v \in [Clients -> {"none", "verified", "external-verified", "removed",
                                  "retained-external"}]
    PROVE  [d EXCEPT !.integ = v] \in Disk
BY DEF Disk

LEMMA DiskBridge ==
    ASSUME NEW d \in Disk, NEW b \in [Clients -> Key]
    PROVE  [d EXCEPT !.bridge = b] \in Disk
BY DEF Disk

LEMMA DiskBridgeAt ==
    ASSUME NEW d \in Disk, NEW c, NEW k \in Key
    PROVE  [d EXCEPT !.bridge[c] = k] \in Disk
BY DEF Disk

LEMMA DiskRecord ==
    ASSUME NEW d \in Disk, NEW e \in Disk, NEW r \in Records
    PROVE  [d EXCEPT ![r] = e[r]] \in Disk
BY DEF Disk, Records

LEMMA KeyZero == 0 \in Key
BY BoundsAssumption DEF Key

LEMMA NoRecordsType == NoRecords \in Disk
<1>1. [c \in Clients |-> 0] \in [Clients -> Key]
  BY KeyZero
<1> QED
  BY <1>1 DEF NoRecords, Disk, Statuses

LEMMA IdleType == Idle \in Process
<1>1. /\ "idle" \in Pcs /\ "setup" \in Commands /\ 0 \in Key /\ NoRecords \in Disk
      /\ [k \in {"mcp", "plugin"} |-> "absent"] \in [{"mcp", "plugin"} -> Conditions]
      /\ <<>> \in Seq({"inst", "own", "ext", "integ", "bridge"})
      /\ "none" \in {"none", "proven", "unproven"}
      /\ "success" \in {"success", "incomplete", "recovery-required"}
      /\ FALSE \in BOOLEAN /\ None \in Clients \cup {None}
  BY KeyZero, NoRecordsType DEF Pcs, Commands, Conditions
<1> HIDE DEF NoRecords, Disk
<1> QED
  BY <1>1, ZenonT(60) DEF Process, Idle

LEMMA ProcessFields ==
    ASSUME NEW x \in Process
    PROVE  /\ x.pc \in Pcs /\ x.command \in Commands /\ x.clients \in SUBSET Clients
           /\ x.client \in Clients \cup {None} /\ x.todo \in SUBSET Assets
           /\ x.current \in SUBSET {"inst", "own"} /\ x.seen \in Disk
           /\ x.look \in [{"mcp", "plugin"} -> Conditions] /\ x.draft \in Disk
           /\ x.left \in Seq({"inst", "own", "ext", "integ", "bridge"})
           /\ x.plan \in SUBSET {"mcp", "plugin"} /\ x.tried \in SUBSET {"mcp", "plugin"}
           /\ x.posted \in SUBSET {"mcp", "plugin"} /\ x.foul \in SUBSET {"mcp", "plugin"}
           /\ x.key \in Key /\ x.made \in BOOLEAN /\ x.broken \in BOOLEAN
           /\ x.effects \in {"none", "proven", "unproven"}
           /\ x.result \in {"success", "incomplete", "recovery-required"}
BY DEF Process

LEMMA Tails ==
    ASSUME NEW a, NEW b, NEW c, NEW d, NEW e
    PROVE  /\ Head(<<a>>) = a /\ Len(<<a>>) = 1 /\ Tail(<<a>>) = <<>>
           /\ Head(<<a, b>>) = a /\ Len(<<a, b>>) = 2 /\ Tail(<<a, b>>) = <<b>>
           /\ Head(<<a, b, c>>) = a /\ Len(<<a, b, c>>) = 3 /\ Tail(<<a, b, c>>) = <<b, c>>
           /\ Head(<<a, b, c, d>>) = a /\ Len(<<a, b, c, d>>) = 4
           /\ Tail(<<a, b, c, d>>) = <<b, c, d>>
           /\ Head(<<a, b, c, d, e>>) = a /\ Len(<<a, b, c, d, e>>) = 5
           /\ Tail(<<a, b, c, d, e>>) = <<b, c, d, e>>
OBVIOUS

LEMMA Tuples ==
    ASSUME NEW a \in Records, NEW b \in Records, NEW c \in Records, NEW d \in Records,
           NEW e \in Records
    PROVE  /\ <<a>> \in Seq(Records) /\ <<a, b>> \in Seq(Records) /\ <<a, b, c>> \in Seq(Records)
           /\ <<a, b, c, d>> \in Seq(Records) /\ <<a, b, c, d, e>> \in Seq(Records)
OBVIOUS

LEMMA ListFacts ==
    ASSUME NEW l \in Lists
    PROVE  /\ l # <<>> /\ Head(l) \in Records /\ l \in Seq(Records)
           /\ Tail(l) \in Seq(Records)
           /\ Len(l) = 1 \/ Tail(l) \in Lists
<1>1. l # <<>> /\ Head(l) \in Records
  BY Tails DEF Lists, Records
<1> DEFINE Good(m) == m \in Seq(Records) /\ (Len(m) = 1 \/ Tail(m) \in Lists)
<1>2. /\ "inst" \in Records /\ "own" \in Records /\ "ext" \in Records /\ "integ" \in Records
      /\ "bridge" \in Records
  BY DEF Records
<1> HIDE DEF Records
<1>3. Good(<<"inst", "own", "ext", "integ">>)
  BY <1>2, Tuples, Tails, <<"own", "ext", "integ">> \in Lists DEF Lists
<1>4. Good(<<"own", "ext", "integ">>)
  BY <1>2, Tuples, Tails, <<"ext", "integ">> \in Lists DEF Lists
<1>5. Good(<<"ext", "integ">>)
  BY <1>2, Tuples, Tails, <<"integ">> \in Lists DEF Lists
<1>6. Good(<<"integ">>)
  BY <1>2, Tuples, Tails
<1>7. Good(<<"own", "ext", "integ", "bridge", "inst">>)
  BY <1>2, Tuples, Tails, <<"ext", "integ", "bridge", "inst">> \in Lists DEF Lists
<1>8. Good(<<"ext", "integ", "bridge", "inst">>)
  BY <1>2, Tuples, Tails, <<"integ", "bridge", "inst">> \in Lists DEF Lists
<1>9. Good(<<"integ", "bridge", "inst">>)
  BY <1>2, Tuples, Tails, <<"bridge", "inst">> \in Lists DEF Lists
<1>10. Good(<<"bridge", "inst">>)
  BY <1>2, Tuples, Tails, <<"inst">> \in Lists DEF Lists
<1>11. Good(<<"inst">>)
  BY <1>2, Tuples, Tails
<1>12. Good(<<"own", "integ", "bridge", "inst">>)
  BY <1>2, Tuples, Tails, <<"integ", "bridge", "inst">> \in Lists DEF Lists
<1>13. Good(<<"own", "inst">>)
  BY <1>2, Tuples, Tails, <<"inst">> \in Lists DEF Lists
<1>14. Good(<<"own">>)
  BY <1>2, Tuples, Tails
<1> HIDE DEF Good
<1>15. Good(l)
  BY <1>3, <1>4, <1>5, <1>6, <1>7, <1>8, <1>9, <1>10, <1>11, <1>12, <1>13, <1>14 DEF Lists
<1>16. Tail(l) \in Seq(Records)
  BY <1>1, <1>15 DEF Good
<1> QED
  BY <1>1, <1>15, <1>16 DEF Good
(***************************************************************************)
(* What the steps share: one process goes on, and the lock is where it     *)
(* was, or is taken, or is let go.                                         *)
(***************************************************************************)
OutTyped == disk' \in Disk /\ world' \in [Things -> Conditions] /\ keys' \in Keys

Quiet == holder' = holder /\ trouble' = trouble /\ (UNCHANGED ghosts \/ Fault)

LEMMA ThingsFinite == IsFiniteSet(Things)
<1>1. IsFiniteSet({"mcp", "plugin"})
  <2>1. IsFiniteSet({"mcp"})
    BY FS_Singleton
  <2>2. IsFiniteSet({"mcp"} \cup {"plugin"})
    BY <2>1, FS_AddElement
  <2>3. {"mcp"} \cup {"plugin"} = {"mcp", "plugin"}
    OBVIOUS
  <2> QED
    BY <2>2, <2>3
<1>2. IsFiniteSet(Profiles)
  BY <1>1, ClientsAssumption, FS_Product DEF Profiles
<1>3. IsFiniteSet(((Profiles \cup {Service}) \cup {Release}) \cup {Volume} \cup {Paths})
  BY <1>2, FS_AddElement
<1>4. Things = ((Profiles \cup {Service}) \cup {Release}) \cup {Volume} \cup {Paths}
  BY DEF Things
<1> QED
  BY <1>3, <1>4

LEMMA FaultTyped ==
    ASSUME TypeOK, Fault
    PROVE  faults' \in 0 .. MaxMishaps /\ touched' = touched
<1>1. Cardinality(touched) \in Nat
  BY ThingsFinite, FS_Subset, FS_CardinalityType DEF TypeOK
<1> QED
  BY <1>1, BoundsAssumption DEF TypeOK, Fault, Mishaps

LEMMA Process_ ==
    ASSUME Typed, NEW p \in Procs
    PROVE  /\ proc[p] \in Process /\ ShapeOK(proc[p])
           /\ disk \in Disk /\ world \in [Things -> Conditions] /\ keys \in Keys
           /\ proc \in [Procs -> Process]
BY DEF Typed, TypeOK, Keys

LEMMA MoveTyped ==
    ASSUME Typed, NEW p \in Procs, NEW y \in Process, ShapeOK(y),
           proc' = [proc EXCEPT ![p] = y], OutTyped,
           trouble' \in {"none", "reported", "interrupted"}, UNCHANGED ghosts \/ Fault,
           \/ holder' = holder /\ (proc[p].pc \in Free <=> y.pc \in Free)
           \/ holder = None /\ holder' = p /\ y.pc \notin Free
           \/ proc[p].pc \notin Free /\ holder' = None /\ y.pc \in Free
    PROVE  Typed'
<1>1. TypeOK /\ LockOK
  BY DEF Typed
<1>2. proc' \in [Procs -> Process] /\ \A q \in Procs : proc'[q] = IF q = p THEN y ELSE proc[q]
  BY <1>1 DEF TypeOK
<1>3. touched' \in SUBSET Things /\ faults' \in 0 .. MaxMishaps
  BY <1>1, FaultTyped DEF TypeOK, ghosts
<1>4. holder' \in Procs \cup {None}
  BY <1>1 DEF TypeOK
<1>5. TypeOK'
  BY <1>2, <1>3, <1>4 DEF TypeOK, OutTyped, Keys
<1>6. LockOK'
  BY <1>1, <1>2, NobodyAssumption DEF LockOK, TypeOK
<1>7. \A q \in Procs : ShapeOK(proc[q])'
  BY <1>2 DEF Typed, ShapeOK
<1> QED
  BY <1>5, <1>6, <1>7 DEF Typed

\* The holder of the lock goes on.
LEMMA StayTyped ==
    ASSUME Typed, NEW p \in Procs, NEW y \in Process, ShapeOK(y),
           proc' = [proc EXCEPT ![p] = y], OutTyped, Quiet,
           proc[p].pc \notin Free, y.pc \notin Free
    PROVE  Typed'
<1>1. trouble' \in {"none", "reported", "interrupted"}
  BY DEF Quiet, Typed, TypeOK
<1> QED
  BY <1>1, MoveTyped DEF Quiet

LEMMA GoType ==
    ASSUME NEW x \in Process, NEW pc \in Pcs
    PROVE  [x EXCEPT !.pc = pc] \in Process
BY ZenonT(60) DEF Process

LEMMA GoEffectsType ==
    ASSUME NEW x \in Process, NEW pc \in Pcs, NEW e \in Effects
    PROVE  [x EXCEPT !.pc = pc, !.effects = e] \in Process
<1> e \in {"none", "proven", "unproven"}
  BY DEF Effects
<1> QED
  BY ZenonT(60) DEF Process

LEMMA GotoTyped ==
    ASSUME Typed, NEW p \in Procs, NEW pc \in Pcs, Goto(p, pc), OutTyped, Quiet,
           proc[p].pc \notin Free, pc \notin Free,
           ShapeOK([proc[p] EXCEPT !.pc = pc])
    PROVE  Typed'
<1> DEFINE y == [proc[p] EXCEPT !.pc = pc]
<1>1. proc[p] \in Process
  BY Process_
<1>2. y \in Process /\ y.pc = pc
  BY <1>1, GoType, ProcessFields DEF Process
<1>3. proc' = [proc EXCEPT ![p] = y]
  BY DEF Goto
<1> HIDE DEF y
<1> QED
  BY <1>2, <1>3, StayTyped DEF y

LEMMA EffectsTyped ==
    ASSUME Typed, NEW p \in Procs, NEW pc \in Pcs, Effect(p, pc) \/ Unproven(p, pc), OutTyped, Quiet,
           proc[p].pc \notin Free, pc \notin Free,
           ShapeOK([proc[p] EXCEPT !.pc = pc])
    PROVE  Typed'
<1>1. proc[p] \in Process
  BY Process_
<1>2. Proven(proc[p].effects) \in Effects /\ "unproven" \in Effects
  BY <1>1, ProcessFields DEF Proven, Effects
<1>3. PICK e \in Effects : proc' = [proc EXCEPT ![p].pc = pc, ![p].effects = e]
  BY <1>2 DEF Effect, Unproven
<1> DEFINE y == [proc[p] EXCEPT !.pc = pc, !.effects = e]
<1>4. y \in Process
  BY <1>1, GoEffectsType
<1>5. y.pc = pc /\ y.client = proc[p].client /\ y.command = proc[p].command /\ y.left = proc[p].left
  BY <1>1 DEF Process
<1>6. proc' = [proc EXCEPT ![p] = y]
  BY <1>3
<1>7. ShapeOK(y)
  <2> DEFINE z == [proc[p] EXCEPT !.pc = pc]
  <2>1. z.pc = pc /\ z.client = proc[p].client /\ z.command = proc[p].command /\ z.left = proc[p].left
    BY <1>1 DEF Process
  <2> HIDE DEF y
  <2> QED
    BY <1>5, <2>1 DEF ShapeOK
<1> HIDE DEF y
<1> QED
  BY <1>4, <1>5, <1>6, <1>7, StayTyped
(***************************************************************************)
(* Setup keeps the types.                                                  *)
(***************************************************************************)
LEMMA ShapeAt ==
    ASSUME NEW x \in Process, ShapeOK(x), NEW pc \in Pcs,
           \/ pc \in {"failed", "commit"}
           \/ pc \in SetupPcs /\ x.pc \in SetupPcs /\ (pc \in InClient => x.client \in Clients)
    PROVE  ShapeOK([x EXCEPT !.pc = pc])
<1> DEFINE y == [x EXCEPT !.pc = pc]
<1>1. y.pc = pc /\ y.client = x.client /\ y.command = x.command /\ y.left = x.left
  BY DEF Process
<1> HIDE DEF y
<1> QED
  BY <1>1 DEF ShapeOK, SetupPcs, InClient

LEMMA StartBecomes ==
    ASSUME Typed, NEW p \in Procs, StartSetup(p)
    PROVE  /\ Typed' /\ UNCHANGED <<disk, world, touched, trouble>> /\ holder = None
           /\ proc[p].pc = "idle"
           /\ \E y \in Process :
                /\ proc' = [proc EXCEPT ![p] = y] /\ y.seen = disk /\ y.draft.own = disk.own
                /\ y.pc = CASE disk.inst.status = "none" -> "install"
                            [] disk.inst.status = "data-retained" -> "deploy"
                            [] OTHER -> "verify-prior"
                /\ y.effects = "none" /\ y.broken = FALSE /\ y.result = "success"
                /\ y.tried = {} /\ y.made = FALSE
<1>1. PICK request \in SUBSET Clients :
        LET all == request \cup
                (IF disk.inst.status = "data-retained" THEN {} ELSE disk.inst.selected)
        IN  proc' = [proc EXCEPT ![p] =
                    [Idle EXCEPT
                        !.pc = CASE disk.inst.status = "none" -> "install"
                                 [] disk.inst.status = "data-retained" -> "deploy"
                                 [] OTHER -> "verify-prior",
                        !.clients = all, !.seen = disk,
                        !.draft = [disk EXCEPT !.inst.selected = all]]]
  BY DEF StartSetup
<1> DEFINE all == request \cup
                (IF disk.inst.status = "data-retained" THEN {} ELSE disk.inst.selected)
           pc == CASE disk.inst.status = "none" -> "install"
                   [] disk.inst.status = "data-retained" -> "deploy"
                   [] OTHER -> "verify-prior"
           d == [disk EXCEPT !.inst.selected = all]
           y == [Idle EXCEPT !.pc = pc, !.clients = all, !.seen = disk, !.draft = d]
<1>2. disk \in Disk /\ all \in SUBSET Clients
  BY Process_, DiskFields
<1>3. d \in Disk
  <2>1. [disk.inst EXCEPT !.selected = all] \in [status : Statuses, selected : SUBSET Clients]
    BY <1>2, DiskFields
  <2> HIDE DEF all
  <2> QED
    BY <1>2, <2>1, DiskInst
<1>4. pc \in {"install", "deploy", "verify-prior"}
  OBVIOUS
<1>5. proc' = [proc EXCEPT ![p] = y]
  BY <1>1
<1> HIDE DEF all, pc, d
<1>6. pc \in Pcs
  BY <1>4 DEF Pcs
<1>7. y \in Process
  BY <1>2, <1>3, <1>6, IdleType, ZenonT(60) DEF Process
<1>8. /\ y.pc = pc /\ y.command = "setup" /\ y.seen = disk /\ y.draft = d
      /\ y.effects = "none" /\ y.broken = FALSE /\ y.result = "success"
      /\ y.tried = {} /\ y.made = FALSE
  BY DEF Idle
<1>14. d.own = disk.own
  BY <1>2 DEF d, Disk
<1> HIDE DEF y
<1>9. ShapeOK(y) /\ y.pc \notin Free
  BY <1>4, <1>8 DEF ShapeOK, InClient, Free
<1>10. OutTyped /\ trouble' = trouble /\ UNCHANGED ghosts /\ holder = None /\ holder' = p
  BY Process_ DEF StartSetup, OutTyped, outside
<1>11. trouble' \in {"none", "reported", "interrupted"}
  BY <1>10 DEF Typed, TypeOK
<1>12. Typed'
  BY <1>5, <1>7, <1>9, <1>10, <1>11, MoveTyped
<1>13. proc[p].pc = "idle" /\ UNCHANGED <<disk, world, touched, trouble>> /\ holder = None
  BY DEF StartSetup, outside, ghosts
<1> QED
  BY <1>5, <1>7, <1>8, <1>12, <1>13, <1>14 DEF pc

\* Every other step of setup but the last: it works on, or gives up.  Nothing is struck off
\* the draft, of the service nothing is but entered again, and the record of ownership
\* stays as it is.
Working(p, y) ==
    /\ proc' = [proc EXCEPT ![p] = y]
    /\ proc[p].pc \in SetupPcs /\ y.pc \in SetupPcs \cup {"failed"}
    /\ y.pc \in InClient => y.client \in Clients
    /\ y.command = proc[p].command /\ y.seen = proc[p].seen
    /\ \A a \in Assets : y.draft.own[a] = "removed" => proc[p].draft.own[a] = "removed"
    /\ \A a \in ServiceAssets :
          \/ y.draft.own[a] = proc[p].draft.own[a]
          \/ a = Service /\ proc[p].draft.own[a] = "removed" /\ y.draft.own[a] = "present"
    /\ disk'.own = disk.own
    /\ OutTyped /\ Quiet

LEMMA WorkTyped ==
    ASSUME Typed, NEW p \in Procs, NEW y \in Process, Working(p, y)
    PROVE  Typed'
<1>1. ShapeOK(proc[p])
  BY Process_
<1>2. ShapeOK(y)
  BY <1>1 DEF Working, ShapeOK, SetupPcs, InClient
<1>3. proc[p].pc \notin Free /\ y.pc \notin Free
  BY DEF Working, SetupPcs, InClient, Free
<1> QED
  BY <1>2, <1>3, StayTyped DEF Working

LEMMA GotoWorks ==
    ASSUME Typed, NEW p \in Procs, NEW pc \in Pcs, Goto(p, pc), OutTyped, Quiet,
           disk'.own = disk.own,
           proc[p].pc \in SetupPcs, pc \in SetupPcs \cup {"failed"},
           pc \in InClient => proc[p].client \in Clients
    PROVE  \E y \in Process : Working(p, y)
<1> DEFINE y == [proc[p] EXCEPT !.pc = pc]
<1>1. proc[p] \in Process
  BY Process_
<1>2. y \in Process
  BY <1>1, GoType
<1>3. /\ y.pc = pc /\ y.client = proc[p].client /\ y.command = proc[p].command
      /\ y.seen = proc[p].seen /\ y.draft = proc[p].draft
  BY <1>1 DEF Process
<1>4. proc' = [proc EXCEPT ![p] = y]
  BY DEF Goto
<1> HIDE DEF y
<1> QED
  BY <1>2, <1>3, <1>4 DEF Working

LEMMA EffectWorks ==
    ASSUME Typed, NEW p \in Procs, NEW pc \in Pcs, Effect(p, pc) \/ Unproven(p, pc),
           OutTyped, Quiet, disk'.own = disk.own,
           proc[p].pc \in SetupPcs, pc \in SetupPcs \cup {"failed"}, pc \notin InClient
    PROVE  \E y \in Process : Working(p, y)
<1>1. proc[p] \in Process
  BY Process_
<1>2. Proven(proc[p].effects) \in Effects /\ "unproven" \in Effects
  BY <1>1, ProcessFields DEF Proven, Effects
<1>3. PICK e \in Effects : proc' = [proc EXCEPT ![p].pc = pc, ![p].effects = e]
  BY <1>2 DEF Effect, Unproven
<1> DEFINE y == [proc[p] EXCEPT !.pc = pc, !.effects = e]
<1>4. y \in Process
  BY <1>1, GoEffectsType
<1>5. /\ y.pc = pc /\ y.command = proc[p].command
      /\ y.seen = proc[p].seen /\ y.draft = proc[p].draft
  BY <1>1 DEF Process
<1>6. proc' = [proc EXCEPT ![p] = y]
  BY <1>3
<1> HIDE DEF y
<1> QED
  BY <1>4, <1>5, <1>6 DEF Working

LEMMA InstallWorks ==
    ASSUME Typed, NEW p \in Procs,
           InstallRelease(p) \/ InstallFails(p) \/ DeployFails(p) \/ VerifyPrior(p)
    PROVE  \E y \in Process : Working(p, y)
<1>1. proc[p].pc \in SetupPcs
  BY DEF InstallRelease, InstallFails, DeployFails, VerifyPrior, SetupPcs
<1>2. OutTyped /\ Quiet /\ disk' = disk
  BY Process_ DEF InstallRelease, InstallFails, DeployFails, VerifyPrior, OutTyped, Quiet, outside,
     Conditions
<1>3. \A pc \in {"deploy", "failed", "clients"} :
          pc \in Pcs /\ pc \in SetupPcs \cup {"failed"} /\ pc \notin InClient
  BY DEF Pcs, SetupPcs, InClient
<1>4. \/ Effect(p, "deploy") \/ Unproven(p, "failed")
      \/ Goto(p, "clients") \/ Goto(p, "failed")
  BY DEF InstallRelease, InstallFails, DeployFails, VerifyPrior
<1> QED
  BY <1>1, <1>2, <1>3, <1>4, GotoWorks, EffectWorks

LEMMA DeployWorks ==
    ASSUME Typed, NEW p \in Procs, Deploy(p)
    PROVE  \E y \in Process : Working(p, y)
<1> DEFINE x == proc[p]
           o == Redeployed(p)
           d == [x.draft EXCEPT !.own = o]
           e == Proven(x.effects)
           y == [x EXCEPT !.pc = "clients", !.effects = e, !.draft = d]
<1>1. x \in Process /\ ShapeOK(x) /\ x.pc = "deploy"
  BY Process_ DEF Deploy
<1>2. e \in {"none", "proven", "unproven"}
  BY <1>1, ProcessFields DEF Proven
<1>3. /\ o \in [Assets -> Dispositions]
      /\ \A a \in Assets : o[a] = "removed" => x.draft.own[a] = "removed"
      /\ \A a \in ServiceAssets :
            \/ o[a] = x.draft.own[a]
            \/ a = Service /\ x.draft.own[a] = "removed" /\ o[a] = "present"
  <2>1. x.draft \in Disk
    BY <1>1, ProcessFields
  <2>2. x.draft.own \in [Assets -> Dispositions]
    BY <2>1, DiskFields
  <2>3. PICK v \in Dispositions :
          /\ o = [x.draft.own EXCEPT ![Service] = v]
          /\ v = x.draft.own[Service] \/ (v = "present" /\ x.draft.own[Service] = "removed")
    BY <2>2, NamesDiffer DEF Redeployed, Dispositions, Assets, Things
  <2> QED
    BY <2>2, <2>3, NamesDiffer
<1>4. d \in Disk
  BY <1>1, <1>3, ProcessFields, DiskOwn
<1>5. proc' = [proc EXCEPT ![p] = y]
  BY DEF Deploy
<1>6. d.own = o
  BY <1>1, ProcessFields DEF Disk
<1> HIDE DEF d, e, o
<1>7. y \in Process
  BY <1>1, <1>2, <1>4, "clients" \in Pcs, ZenonT(60) DEF Process, Pcs
<1>8. y.pc = "clients" /\ y.command = x.command /\ y.seen = x.seen /\ y.draft = d
  BY <1>1 DEF Process
<1> HIDE DEF y
<1>9. OutTyped /\ Quiet /\ disk' = disk
  BY Process_ DEF Deploy, OutTyped, Quiet, Conditions
<1> QED
  BY <1>1, <1>3, <1>5, <1>6, <1>7, <1>8, <1>9 DEF Working, SetupPcs, InClient

LEMMA SkipWorks ==
    ASSUME Typed, NEW p \in Procs, SkipClient(p)
    PROVE  \E y \in Process : Working(p, y)
<1>1. PICK c : proc' = [proc EXCEPT ![p].clients = @ \ {c}]
  BY DEF SkipClient
<1> DEFINE x == proc[p]
           rest == x.clients \ {c}
           y == [x EXCEPT !.clients = rest]
<1>2. x \in Process /\ x.pc = "clients"
  BY Process_ DEF SkipClient
<1>3. rest \in SUBSET Clients
  BY <1>2, ProcessFields
<1>4. proc' = [proc EXCEPT ![p] = y]
  BY <1>1
<1> HIDE DEF rest
<1>5. y \in Process
  BY <1>2, <1>3, ZenonT(60) DEF Process
<1>6. y.pc = "clients" /\ y.command = x.command /\ y.seen = x.seen /\ y.draft = x.draft
  BY <1>2 DEF Process
<1> HIDE DEF y
<1>7. OutTyped /\ Quiet /\ disk' = disk
  BY Process_ DEF SkipClient, OutTyped, Quiet, outside
<1> QED
  BY <1>2, <1>4, <1>5, <1>6, <1>7 DEF Working, SetupPcs, InClient

\* A client that is done with.
LEMMA DoneType ==
    ASSUME NEW p \in Procs, proc[p] \in Process,
           NEW r \in {"success", "incomplete", "recovery-required"}
    PROVE  /\ Done(p, r) \in Process
           /\ Done(p, r).pc = "clients" /\ Done(p, r).command = proc[p].command
           /\ Done(p, r).seen = proc[p].seen /\ Done(p, r).draft = proc[p].draft
           /\ Done(p, r).clients \in SUBSET Clients /\ Done(p, r).effects = proc[p].effects
           /\ Done(p, r).client = None /\ Done(p, r).broken = FALSE
           /\ Done(p, r).result = Worse(proc[p].result, r)
           /\ Done(p, r).tried = {} /\ Done(p, r).made = FALSE
<1> DEFINE x == proc[p]
           rest == x.clients \ {x.client}
           w == Worse(x.result, r)
<1>1. rest \in SUBSET Clients /\ w \in {"success", "incomplete", "recovery-required"}
  BY ProcessFields DEF Worse
<1>2. "clients" \in Pcs /\ 0 \in Key /\ FALSE \in BOOLEAN /\ None \in Clients \cup {None}
      /\ {} \in SUBSET {"mcp", "plugin"}
  BY KeyZero DEF Pcs
<1> HIDE DEF rest, w
<1>3. Done(p, r) \in Process
  BY <1>1, <1>2, ZenonT(60) DEF Process, Done, rest, w
<1>4. /\ Done(p, r).pc = "clients" /\ Done(p, r).command = x.command
      /\ Done(p, r).seen = x.seen /\ Done(p, r).draft = x.draft /\ Done(p, r).clients = rest
      /\ Done(p, r).effects = x.effects /\ Done(p, r).client = None /\ Done(p, r).broken = FALSE
      /\ Done(p, r).result = w /\ Done(p, r).tried = {} /\ Done(p, r).made = FALSE
  BY DEF Done, rest, Process, w
<1> QED
  BY <1>1, <1>3, <1>4 DEF w

LEMMA PreflightWorks ==
    ASSUME Typed, NEW p \in Procs, Preflight(p)
    PROVE  \E y \in Process : Working(p, y)
<1>1. PICK c \in proc[p].clients :
        LET plan == {k \in {"mcp", "plugin"} : world[<<c, k>>] = "absent"}
            chosen == [proc[p] EXCEPT !.client = c, !.plan = plan]
        IN  \/ proc' = [proc EXCEPT ![p] =
                    [chosen EXCEPT !.pc = IF "mcp" \in plan THEN "key"
                                          ELSE IF "plugin" \in plan THEN "plugin"
                                          ELSE "verify"]]
            \/ proc' = [proc EXCEPT ![p] = [Done(p, "incomplete") EXCEPT !.clients = @ \ {c}]]
  BY DEF Preflight
<1> DEFINE x == proc[p]
           plan == {k \in {"mcp", "plugin"} : world[<<c, k>>] = "absent"}
           pc == IF "mcp" \in plan THEN "key" ELSE IF "plugin" \in plan THEN "plugin" ELSE "verify"
           done == Done(p, "incomplete")
           rest == done.clients \ {c}
           y == [x EXCEPT !.client = c, !.plan = plan, !.pc = pc]
           z == [done EXCEPT !.clients = rest]
<1>2. x \in Process /\ x.pc = "clients" /\ c \in Clients \cup {None} /\ c \in Clients
  BY Process_, ProcessFields DEF Preflight
<1>3. OutTyped /\ Quiet /\ disk' = disk
  BY Process_ DEF Preflight, OutTyped, Quiet, outside
<1>4. proc' = [proc EXCEPT ![p] = y] \/ proc' = [proc EXCEPT ![p] = z]
  BY <1>1
<1>5. plan \in SUBSET {"mcp", "plugin"} /\ pc \in {"key", "plugin", "verify"}
  OBVIOUS
<1>6. /\ done \in Process /\ done.pc = "clients" /\ done.command = x.command
      /\ done.seen = x.seen /\ done.draft = x.draft /\ rest \in SUBSET Clients
  BY <1>2, DoneType
<1> HIDE DEF plan, pc, rest, done
<1>7. pc \in Pcs
  BY <1>5 DEF Pcs
<1>8. y \in Process
  BY <1>2, <1>5, <1>7, ZenonT(60) DEF Process
<1>9. z \in Process
  BY <1>6, ZenonT(60) DEF Process
<1>10. y.pc = pc /\ y.client = c /\ y.command = x.command /\ y.seen = x.seen /\ y.draft = x.draft
  BY <1>2 DEF Process
<1>11. z.pc = "clients" /\ z.command = x.command /\ z.seen = x.seen /\ z.draft = x.draft
  BY <1>6 DEF Process
<1> HIDE DEF y, z
<1>12. CASE proc' = [proc EXCEPT ![p] = y]
  BY <1>2, <1>3, <1>5, <1>8, <1>10, <1>12 DEF Working, SetupPcs, InClient
<1>13. CASE proc' = [proc EXCEPT ![p] = z]
  BY <1>2, <1>3, <1>9, <1>11, <1>13 DEF Working, SetupPcs, InClient
<1> QED
  BY <1>4, <1>12, <1>13

LEMMA KeyWorks ==
    ASSUME Typed, NEW p \in Procs, ReuseKey(p) \/ CreateKey(p) \/ CreateKeyFails(p)
    PROVE  \E y \in Process : Working(p, y)
<1> DEFINE x == proc[p]
<1>1. x \in Process /\ x.pc = "key" /\ x.client \in Clients /\ x.pc \in SetupPcs
  BY Process_ DEF ReuseKey, CreateKey, CreateKeyFails, NeedsKey, ShapeOK, InClient, SetupPcs
<1>2. x.draft.bridge[x.client] \in Key
  BY <1>1, ProcessFields, DiskFields
<1>3. keys \in Keys /\ (keys.issued < MaxKeys => keys.issued + 1 \in Key)
  BY Process_, BoundsAssumption DEF Keys, Key
<1>4. OutTyped /\ Quiet /\ disk' = disk
  <2>1. Quiet /\ disk' = disk /\ world' = world
    BY DEF ReuseKey, CreateKey, CreateKeyFails, outside, Quiet
  <2>2. \/ keys' = keys
        \/ /\ keys.issued < MaxKeys
           /\ keys' = [keys EXCEPT !.issued = @ + 1, !.live = @ \cup {keys.issued + 1}]
    BY DEF ReuseKey, CreateKey, CreateKeyFails, outside
  <2>3. keys' \in Keys
    BY <1>3, <2>2 DEF Keys
  <2> QED
    BY <2>1, <2>3, Process_ DEF OutTyped
<1> DEFINE Goes(pc, k, e, b) ==
             proc' = [proc EXCEPT ![p] = [x EXCEPT !.pc = pc, !.key = k, !.effects = e, !.broken = b]]
<1>5. \E pc \in {"mcp", "store", "catch"}, k \in Key, e \in Effects, b \in BOOLEAN : Goes(pc, k, e, b)
  <2>1. x.key \in Key /\ x.effects \in Effects /\ x.broken \in BOOLEAN /\ Proven(x.effects) \in Effects
        /\ "unproven" \in Effects
    BY <1>1, ProcessFields DEF Effects, Proven
  <2>2. CASE ReuseKey(p)
    <3>1. proc' = [proc EXCEPT ![p] = [x EXCEPT !.pc = "mcp", !.key = x.draft.bridge[x.client]]]
      BY <2>2 DEF ReuseKey
    <3>2. [x EXCEPT !.pc = "mcp", !.key = x.draft.bridge[x.client]]
            = [x EXCEPT !.pc = "mcp", !.key = x.draft.bridge[x.client],
                        !.effects = x.effects, !.broken = x.broken]
      BY <1>1 DEF Process
    <3>3. Goes("mcp", x.draft.bridge[x.client], x.effects, x.broken)
      BY <3>1, <3>2
    <3> HIDE DEF Goes
    <3> QED
      BY <1>2, <2>1, <3>3
  <2>3. CASE CreateKey(p)
    <3>1. proc' = [proc EXCEPT ![p] = [x EXCEPT !.pc = "store", !.effects = Proven(x.effects),
                                                !.key = keys.issued + 1]]
      BY <2>3 DEF CreateKey
    <3>2. [x EXCEPT !.pc = "store", !.effects = Proven(x.effects), !.key = keys.issued + 1]
            = [x EXCEPT !.pc = "store", !.key = keys.issued + 1,
                        !.effects = Proven(x.effects), !.broken = x.broken]
      BY <1>1 DEF Process
    <3>3. keys.issued + 1 \in Key
      BY <1>3, <2>3 DEF CreateKey
    <3>4. Goes("store", keys.issued + 1, Proven(x.effects), x.broken)
      BY <3>1, <3>2
    <3> HIDE DEF Goes
    <3> QED
      BY <2>1, <3>3, <3>4
  <2>4. CASE CreateKeyFails(p)
    <3>1. PICK b \in BOOLEAN :
            proc' = [proc EXCEPT ![p] = [x EXCEPT !.pc = "catch", !.effects = "unproven", !.broken = b]]
      BY <2>4 DEF CreateKeyFails
    <3>2. [x EXCEPT !.pc = "catch", !.effects = "unproven", !.broken = b]
            = [x EXCEPT !.pc = "catch", !.key = x.key, !.effects = "unproven", !.broken = b]
      BY <1>1 DEF Process
    <3>3. Goes("catch", x.key, "unproven", b)
      BY <3>1, <3>2
    <3> HIDE DEF Goes
    <3> QED
      BY <2>1, <3>3
  <2> QED
    BY <2>2, <2>3, <2>4
<1>10. PICK pc \in {"mcp", "store", "catch"}, k \in Key, e \in Effects, b \in BOOLEAN : Goes(pc, k, e, b)
  BY <1>5
<1> DEFINE y == [x EXCEPT !.pc = pc, !.key = k, !.effects = e, !.broken = b]
<1>6. pc \in Pcs /\ e \in {"none", "proven", "unproven"}
  BY DEF Pcs, Effects
<1>7. y \in Process
  BY <1>1, <1>6, ZenonT(60) DEF Process
<1>8. y.pc = pc /\ y.client = x.client /\ y.command = x.command /\ y.seen = x.seen /\ y.draft = x.draft
  BY <1>1 DEF Process
<1>9. proc' = [proc EXCEPT ![p] = y]
  BY <1>10
<1> HIDE DEF y
<1> QED
  BY <1>1, <1>4, <1>7, <1>8, <1>9 DEF Working, SetupPcs, InClient

\* The bridge of one client, in the records and in the draft.
LEMMA BridgeFields ==
    ASSUME NEW d \in Disk, NEW c \in Clients, NEW k \in Key
    PROVE  [d EXCEPT !.bridge[c] = k] \in Disk /\ [d EXCEPT !.bridge[c] = k].own = d.own
BY DiskBridgeAt DEF Disk

LEMMA StoredKeys ==
    ASSUME Typed, NEW k \in Key, NEW s, NEW l, s \subseteq keys.stored \cup {k}, l \subseteq keys.live
    PROVE  /\ [keys EXCEPT !.stored = s] \in Keys /\ [keys EXCEPT !.live = l] \in Keys
           /\ [keys EXCEPT !.live = l, !.stored = s] \in Keys
           /\ [keys EXCEPT !.stored = s, !.live = l] \in Keys
BY DEF Typed, TypeOK, Keys

LEMMA StoreWorks ==
    ASSUME Typed, NEW p \in Procs, StoreCredential(p) \/ StoreFails(p)
    PROVE  \E y \in Process : Working(p, y)
<1> DEFINE x == proc[p]
           c == x.client
<1>1. /\ x \in Process /\ x.pc = "store" /\ c \in Clients /\ x.pc \in SetupPcs /\ x.key \in Key
      /\ x.draft \in Disk /\ disk \in Disk /\ x.made \in BOOLEAN
  BY Process_, ProcessFields DEF StoreCredential, StoreFails, ShapeOK, InClient, SetupPcs
<1>2. x.draft.bridge[c] \in Key /\ disk.bridge[c] \in Key
  BY <1>1, DiskFields
<1> DEFINE d(k) == [x.draft EXCEPT !.bridge[c] = k]
           y(pc, b, k) == [x EXCEPT !.pc = pc, !.made = b, !.draft = d(k)]
           Good(pc, b, k) == y(pc, b, k) \in Process /\ y(pc, b, k).pc = pc
                             /\ y(pc, b, k).client = c /\ y(pc, b, k).command = x.command
                             /\ y(pc, b, k).seen = x.seen /\ y(pc, b, k).draft.own = x.draft.own
<1>3. ASSUME NEW pc \in {"mcp", "unstore"}, NEW b \in BOOLEAN, NEW k \in Key
      PROVE  Good(pc, b, k)
  <2>1. d(k) \in Disk /\ d(k).own = x.draft.own
    BY <1>1, BridgeFields
  <2>2. pc \in Pcs
    BY DEF Pcs
  <2> HIDE DEF d
  <2>3. y(pc, b, k) \in Process
    BY <1>1, <2>1, <2>2, ZenonT(60) DEF Process
  <2>4. /\ y(pc, b, k).pc = pc /\ y(pc, b, k).client = c /\ y(pc, b, k).command = x.command
        /\ y(pc, b, k).seen = x.seen /\ y(pc, b, k).draft = d(k)
    BY <1>1 DEF Process
  <2> HIDE DEF y
  <2> QED
    BY <2>1, <2>3, <2>4
<1>4. Quiet /\ world' = world
  BY DEF StoreCredential, StoreFails, Quiet
<1>5. keys' \in Keys
  <2>1. \/ keys' = [keys EXCEPT !.stored = keys.stored \cup {x.key}]
        \/ keys' = [keys EXCEPT !.stored = @]
    BY DEF StoreCredential, StoreFails, Stored
  <2> QED
    BY <1>1, <2>1, StoredKeys
<1>6. disk' \in Disk /\ disk'.own = disk.own
  <2>1. \/ disk' = [disk EXCEPT !.bridge[c] = x.key]
        \/ disk' = [disk EXCEPT !.bridge[c] = disk.bridge[c]]
    BY DEF StoreCredential, StoreFails
  <2>2. PICK k \in Key : disk' = [disk EXCEPT !.bridge[c] = k]
    BY <1>1, <1>2, <2>1
  <2>3. [disk EXCEPT !.bridge[c] = k] \in Disk /\ [disk EXCEPT !.bridge[c] = k].own = disk.own
    BY <1>1, BridgeFields
  <2> QED
    BY <2>2, <2>3
<1>7. \E pc \in {"mcp", "unstore"}, b \in BOOLEAN, k \in Key : proc' = [proc EXCEPT ![p] = y(pc, b, k)]
  <2>1. CASE StoreCredential(p)
    <3>1. proc' = [proc EXCEPT ![p] = y("mcp", TRUE, x.key)]
      BY <2>1 DEF StoreCredential
    <3> HIDE DEF y
    <3> QED
      BY <1>1, <3>1
  <2>2. CASE StoreFails(p)
    <3>1. PICK k \in Key : proc' = [proc EXCEPT ![p] = [x EXCEPT !.pc = "unstore", !.draft = d(k)]]
      <4>1. PICK entered \in BOOLEAN :
              proc' = [proc EXCEPT ![p].pc = "unstore",
                          ![p].draft.bridge[c] = IF entered THEN x.key ELSE @]
        BY <2>2 DEF StoreFails
      <4>2. PICK k \in {x.key, x.draft.bridge[c]} :
              proc' = [proc EXCEPT ![p] = [x EXCEPT !.pc = "unstore", !.draft = d(k)]]
        <5>1. CASE entered
          BY <4>1, <5>1
        <5>2. CASE ~entered
          BY <4>1, <5>2
        <5> QED
          BY <5>1, <5>2
      <4> HIDE DEF d
      <4> QED
        BY <1>1, <1>2, <4>2
    <3> HIDE DEF d
    <3>2. [x EXCEPT !.pc = "unstore", !.draft = d(k)] = y("unstore", x.made, k)
      BY <1>1 DEF Process
    <3> HIDE DEF y
    <3> QED
      BY <1>1, <3>1, <3>2
  <2> QED
    BY <2>1, <2>2
<1>8. PICK pc \in {"mcp", "unstore"}, b \in BOOLEAN, k \in Key : proc' = [proc EXCEPT ![p] = y(pc, b, k)]
  BY <1>7
<1>9. Good(pc, b, k)
  <2> HIDE DEF y, Good
  <2> QED
    BY <1>3
<1> HIDE DEF y
<1> QED
  BY <1>1, <1>4, <1>5, <1>6, <1>8, <1>9 DEF Working, SetupPcs, InClient, OutTyped, Typed, TypeOK

LEMMA UndoStoreWorks ==
    ASSUME Typed, NEW p \in Procs, UndoStore(p) \/ UndoStoreFails(p)
    PROVE  \E y \in Process : Working(p, y)
<1> DEFINE x == proc[p]
           c == x.client
<1>1. /\ x \in Process /\ x.pc = "unstore" /\ c \in Clients /\ x.pc \in SetupPcs /\ x.key \in Key
      /\ x.draft \in Disk /\ disk \in Disk /\ x.broken \in BOOLEAN
  BY Process_, ProcessFields DEF UndoStore, UndoStoreFails, ShapeOK, InClient, SetupPcs
<1>2. x.draft.bridge[c] \in Key /\ disk.bridge[c] \in Key /\ 0 \in Key
  BY <1>1, DiskFields, KeyZero
<1> DEFINE d(k) == [x.draft EXCEPT !.bridge[c] = k]
           y(b, k) == [x EXCEPT !.pc = "catch", !.broken = b, !.draft = d(k)]
           Good(b, k) == y(b, k) \in Process /\ y(b, k).pc = "catch"
                             /\ y(b, k).client = c /\ y(b, k).command = x.command
                             /\ y(b, k).seen = x.seen /\ y(b, k).draft.own = x.draft.own
<1>3. ASSUME NEW b \in BOOLEAN, NEW k \in Key
      PROVE  Good(b, k)
  <2>1. d(k) \in Disk /\ d(k).own = x.draft.own
    BY <1>1, BridgeFields
  <2>2. "catch" \in Pcs
    BY DEF Pcs
  <2> HIDE DEF d
  <2>3. y(b, k) \in Process
    BY <1>1, <2>1, <2>2, ZenonT(60) DEF Process
  <2>4. /\ y(b, k).pc = "catch" /\ y(b, k).client = c /\ y(b, k).command = x.command
        /\ y(b, k).seen = x.seen /\ y(b, k).draft = d(k)
    BY <1>1 DEF Process
  <2> HIDE DEF y
  <2> QED
    BY <2>1, <2>3, <2>4
<1>4. Quiet /\ world' = world
  BY DEF UndoStore, UndoStoreFails, Quiet
<1>5. keys' \in Keys
  <2>1. PICK s, l : /\ s \subseteq keys.stored /\ l \subseteq keys.live
                    /\ \/ keys' = [keys EXCEPT !.live = l, !.stored = s]
                       \/ keys' = [keys EXCEPT !.stored = s]
    BY DEF UndoStore, UndoStoreFails, Cleared
  <2>2. s \subseteq keys.stored \cup {x.key} /\ l \subseteq keys.live
    BY <2>1
  <2>3. [keys EXCEPT !.live = l, !.stored = s] \in Keys /\ [keys EXCEPT !.stored = s] \in Keys
    BY <1>1, <2>2, StoredKeys
  <2> QED
    BY <2>1, <2>3
<1>6. disk' \in Disk /\ disk'.own = disk.own
  <2>1. \/ disk' = [disk EXCEPT !.bridge[c] = 0]
        \/ disk' = [disk EXCEPT !.bridge[c] = disk.bridge[c]]
        \/ disk' = disk
    BY DEF UndoStore, UndoStoreFails
  <2>2. (\E k \in Key : disk' = [disk EXCEPT !.bridge[c] = k]) \/ disk' = disk
    BY <1>1, <1>2, <2>1
  <2>3. ASSUME NEW k \in Key
        PROVE  [disk EXCEPT !.bridge[c] = k] \in Disk /\ [disk EXCEPT !.bridge[c] = k].own = disk.own
    BY <1>1, BridgeFields
  <2> QED
    BY <1>1, <2>2, <2>3
<1>7. \E b \in BOOLEAN, k \in Key : proc' = [proc EXCEPT ![p] = y(b, k)]
  <2>1. PICK f \in BOOLEAN : f = Fresh(p)
    BY DEF Fresh
  <2>2. PICK k : k = IF f THEN 0 ELSE x.draft.bridge[c]
    OBVIOUS
  <2>3. k \in Key
    BY <1>2, <2>2
  <2>4. \/ proc' = [proc EXCEPT ![p].pc = "catch", ![p].draft.bridge[c] = k]
        \/ proc' = [proc EXCEPT ![p].pc = "catch", ![p].broken = f, ![p].draft.bridge[c] = k]
    BY <2>1, <2>2 DEF UndoStore, UndoStoreFails
  <2>5. \/ proc' = [proc EXCEPT ![p] = [x EXCEPT !.pc = "catch", !.draft = d(k)]]
        \/ proc' = [proc EXCEPT ![p] = y(f, k)]
    <3>1. [proc EXCEPT ![p].pc = "catch", ![p].draft.bridge[c] = k]
            = [proc EXCEPT ![p] = [x EXCEPT !.pc = "catch", !.draft = d(k)]]
      OBVIOUS
    <3>2. ASSUME NEW g
          PROVE  [proc EXCEPT ![p].pc = "catch", ![p].broken = g, ![p].draft.bridge[c] = k]
                   = [proc EXCEPT ![p] = y(g, k)]
      OBVIOUS
    <3> HIDE DEF y
    <3> QED
      BY <2>4, <3>1, <3>2
  <2> HIDE DEF d
  <2>6. [x EXCEPT !.pc = "catch", !.draft = d(k)] = y(x.broken, k)
    BY <1>1 DEF Process
  <2> HIDE DEF y
  <2> QED
    BY <1>1, <2>3, <2>5, <2>6
<1>8. PICK b \in BOOLEAN, k \in Key : proc' = [proc EXCEPT ![p] = y(b, k)]
  BY <1>7
<1>9. Good(b, k)
  <2> HIDE DEF y, Good
  <2> QED
    BY <1>3
<1> HIDE DEF y
<1> QED
  BY <1>1, <1>4, <1>5, <1>6, <1>8, <1>9 DEF Working, SetupPcs, InClient, OutTyped, Typed, TypeOK

LEMMA PutTyped ==
    ASSUME Typed, NEW a, NEW v \in Conditions, Put(a, v), UNCHANGED <<disk, keys>>
    PROVE  OutTyped /\ disk' = disk
BY DEF Put, OutTyped, Typed, TypeOK, Keys

LEMMA AddWorks ==
    ASSUME Typed, NEW p \in Procs, AddComponent(p) \/ AddRefused(p) \/ AddFails(p)
    PROVE  \E y \in Process : Working(p, y)
<1> DEFINE x == proc[p]
           Bits == SUBSET {"mcp", "plugin"}
<1>1. x \in Process /\ x.pc \in {"mcp", "plugin"} /\ x.client \in Clients /\ x.pc \in SetupPcs
  BY Process_ DEF AddComponent, AddRefused, AddFails, Adding, ShapeOK, InClient, SetupPcs
<1>2. OutTyped /\ Quiet /\ disk' = disk
  <2>1. Quiet
    BY DEF AddComponent, AddRefused, AddFails, Quiet
  <2>2. \/ OutTyped /\ disk' = disk
        \/ UNCHANGED <<disk, keys>> /\ \E v \in Conditions : Put(Added(p), v)
    <3>1. "ours" \in Conditions /\ "absent" \in Conditions /\ "partial" \in Conditions
      BY DEF Conditions
    <3> QED
      BY <3>1, Process_ DEF AddComponent, AddRefused, AddFails, OutTyped, outside
  <2> QED
    BY <2>1, <2>2, PutTyped
<1>3. x.effects \in Effects /\ Proven(x.effects) \in Effects /\ "unproven" \in Effects
      /\ x.tried \in Bits /\ x.posted \in Bits
  BY <1>1, ProcessFields DEF Effects, Proven
<1>4. CASE AddRefused(p)
  <2>1. "catch" \in Pcs /\ "catch" \in SetupPcs
    BY DEF Pcs, SetupPcs, InClient
  <2> QED
    BY <1>1, <1>2, <1>4, <2>1, GotoWorks DEF AddRefused
<1> DEFINE Goes(pc, e, t, s) ==
             proc' = [proc EXCEPT ![p] = [x EXCEPT !.pc = pc, !.effects = e, !.tried = t, !.posted = s]]
<1>5. ASSUME NEW pc \in {"plugin", "verify", "catch"}, NEW e \in Effects, NEW t \in Bits, NEW s \in Bits,
             Goes(pc, e, t, s)
      PROVE  \E y \in Process : Working(p, y)
  <2> DEFINE y == [x EXCEPT !.pc = pc, !.effects = e, !.tried = t, !.posted = s]
  <2>1. pc \in Pcs /\ e \in {"none", "proven", "unproven"}
    BY DEF Pcs, Effects
  <2>2. y \in Process
    BY <1>1, <2>1, ZenonT(60) DEF Process
  <2>3. y.pc = pc /\ y.client = x.client /\ y.command = x.command /\ y.seen = x.seen /\ y.draft = x.draft
    BY <1>1 DEF Process
  <2>4. proc' = [proc EXCEPT ![p] = y]
    BY <1>5
  <2> HIDE DEF y
  <2> QED
    BY <1>1, <1>2, <2>2, <2>3, <2>4 DEF Working, SetupPcs, InClient
<1>6. CASE AddComponent(p)
  <2>1. proc' = [proc EXCEPT ![p] = [x EXCEPT
            !.pc = IF x.pc = "mcp" /\ "plugin" \in x.plan THEN "plugin" ELSE "verify",
            !.effects = Proven(x.effects), !.tried = x.tried \cup {x.pc}, !.posted = x.posted \cup {x.pc}]]
    BY <1>6 DEF AddComponent
  <2>2. (IF x.pc = "mcp" /\ "plugin" \in x.plan THEN "plugin" ELSE "verify") \in {"plugin", "verify", "catch"}
    OBVIOUS
  <2>3. x.tried \cup {x.pc} \in Bits /\ x.posted \cup {x.pc} \in Bits
    BY <1>1, <1>3
  <2>4. Goes(IF x.pc = "mcp" /\ "plugin" \in x.plan THEN "plugin" ELSE "verify", Proven(x.effects),
             x.tried \cup {x.pc}, x.posted \cup {x.pc})
    BY <2>1
  <2> HIDE DEF Goes
  <2> QED
    BY <1>3, <1>5, <2>2, <2>3, <2>4
<1>7. CASE AddFails(p)
  <2>1. proc' = [proc EXCEPT ![p] = [x EXCEPT !.pc = "catch", !.effects = "unproven",
                                              !.tried = x.tried \cup {x.pc}]]
    BY <1>7 DEF AddFails
  <2>2. [x EXCEPT !.pc = "catch", !.effects = "unproven", !.tried = x.tried \cup {x.pc}]
          = [x EXCEPT !.pc = "catch", !.effects = "unproven", !.tried = x.tried \cup {x.pc},
                      !.posted = x.posted]
    BY <1>1 DEF Process
  <2>3. x.tried \cup {x.pc} \in Bits
    BY <1>1, <1>3
  <2>4. Goes("catch", "unproven", x.tried \cup {x.pc}, x.posted)
    BY <2>1, <2>2
  <2> HIDE DEF Goes
  <2> QED
    BY <1>3, <1>5, <2>3, <2>4
<1> QED
  BY <1>4, <1>6, <1>7

LEMMA RecordedType ==
    ASSUME Typed, NEW p \in Procs, proc[p].client \in Clients
    PROVE  /\ Recorded(p) \in Disk
           /\ \A a \in Assets : Recorded(p).own[a] =
                 IF \/ \E k \in proc[p].plan : a = <<proc[p].client, k>>
                    \/ /\ a = Credential(proc[p].client)
                       /\ proc[p].draft.bridge[proc[p].client] # 0
                       /\ \/ proc[p].draft.own[Credential(proc[p].client)] = "retained"
                          \/ proc[p].seen.bridge[proc[p].client] = 0
                 THEN "present" ELSE proc[p].draft.own[a]
<1> DEFINE x == proc[p]
           c == x.client
           d == x.draft
           created == {<<c, k>> : k \in x.plan}
           credited == /\ d.bridge[c] # 0
                       /\ d.own[Credential(c)] = "retained" \/ x.seen.bridge[c] = 0
           present == created \cup (IF credited THEN {Credential(c)} ELSE {})
           own == [a \in Assets |-> IF a \in present THEN "present" ELSE d.own[a]]
           ext == d.ext \cup ({<<c, "mcp">>, <<c, "plugin">>} \ created)
           v == IF created # {} THEN "verified" ELSE "external-verified"
<1>1. x \in Process /\ d \in Disk
  BY Process_, ProcessFields
<1>2. Recorded(p) = [d EXCEPT !.own = own, !.ext = ext, !.integ[c] = v]
  BY DEF Recorded
<1>3. own \in [Assets -> Dispositions] /\ ext \in SUBSET Profiles
      /\ v \in {"none", "verified", "external-verified", "removed", "retained-external"}
  <2>1. d.own \in [Assets -> Dispositions] /\ d.ext \subseteq Profiles
    BY <1>1, DiskFields
  <2>2. "present" \in Dispositions /\ <<c, "mcp">> \in Profiles /\ <<c, "plugin">> \in Profiles
    BY DEF Dispositions, Profiles
  <2> QED
    BY <2>1, <2>2
<1>4. \A a \in Assets : own[a] = IF a \in present THEN "present" ELSE d.own[a]
  OBVIOUS
<1>5. \A a : a \in present <=> \/ \E k \in x.plan : a = <<c, k>>
                               \/ a = Credential(c) /\ credited
  OBVIOUS
<1> HIDE DEF own, ext, v
<1>6. [d EXCEPT !.own = own] \in Disk
  BY <1>1, <1>3, DiskOwn
<1>7. [[d EXCEPT !.own = own] EXCEPT !.ext = ext] \in Disk
  BY <1>3, <1>6, DiskExt
<1>8. [[[d EXCEPT !.own = own] EXCEPT !.ext = ext] EXCEPT !.integ[c] = v] \in Disk
  BY <1>3, <1>7, DiskIntegAt
<1>9. Recorded(p) = [[[d EXCEPT !.own = own] EXCEPT !.ext = ext] EXCEPT !.integ[c] = v]
  BY <1>2
<1>10. Recorded(p).own = own
  BY <1>1, <1>2 DEF Disk
<1> QED
  BY <1>4, <1>5, <1>8, <1>9, <1>10

LEMMA VerifyWorks ==
    ASSUME Typed, NEW p \in Procs, VerifyClient(p) \/ VerifyFails(p)
    PROVE  \E y \in Process : Working(p, y)
<1>1. proc[p] \in Process /\ proc[p].pc = "verify" /\ proc[p].client \in Clients /\ proc[p].pc \in SetupPcs
  BY Process_ DEF VerifyClient, VerifyFails, ShapeOK, InClient, SetupPcs
<1>2. OutTyped /\ Quiet /\ disk' = disk
  BY Process_ DEF VerifyClient, VerifyFails, OutTyped, Quiet, outside
<1>3. CASE Goto(p, "catch") \/ Goto(p, "failed")
  <2>1. \A pc \in {"catch", "failed"} : pc \in Pcs /\ pc \in SetupPcs \cup {"failed"}
    BY DEF Pcs, SetupPcs, InClient
  <2> QED
    BY <1>1, <1>2, <1>3, <2>1, GotoWorks
<1>4. CASE proc' = [proc EXCEPT ![p] = [Done(p, "success") EXCEPT !.draft = Recorded(p)]]
  <2> DEFINE done == Done(p, "success")
             y == [done EXCEPT !.draft = Recorded(p)]
  <2>1. /\ done \in Process /\ done.pc = "clients" /\ done.command = proc[p].command
        /\ done.seen = proc[p].seen
    BY <1>1, DoneType
  <2>2. /\ Recorded(p) \in Disk
        /\ \A a \in Assets : Recorded(p).own[a] = "removed" => proc[p].draft.own[a] = "removed"
    BY <1>1, RecordedType
  <2>6. ASSUME NEW a \in ServiceAssets
        PROVE  Recorded(p).own[a] = proc[p].draft.own[a]
    <3>1. a \in Assets /\ a \notin Profiles /\ a # Credential(proc[p].client)
      BY <1>1, NamesDiffer DEF ServiceAssets
    <3>2. \A k \in proc[p].plan : <<proc[p].client, k>> \in Profiles
      BY <1>1, ProcessFields DEF Profiles
    <3> QED
      BY <1>1, <3>1, <3>2, RecordedType
  <2> HIDE DEF done
  <2>3. y \in Process
    BY <2>1, <2>2, ZenonT(60) DEF Process
  <2>4. y.pc = "clients" /\ y.command = proc[p].command /\ y.seen = proc[p].seen /\ y.draft = Recorded(p)
    BY <2>1 DEF Process
  <2>5. proc' = [proc EXCEPT ![p] = y]
    BY <1>4 DEF done
  <2> HIDE DEF y
  <2> QED
    BY <1>1, <1>2, <2>2, <2>3, <2>4, <2>5, <2>6 DEF Working, SetupPcs, InClient
<1> QED
  BY <1>3, <1>4 DEF VerifyClient, VerifyFails

LEMMA UndoWorks ==
    ASSUME Typed, NEW p \in Procs,
           Catch(p) \/ GuardFails(p) \/ Unplug(p) \/ UnplugFails(p) \/ Unmcp(p) \/ UnmcpFails(p)
    PROVE  \E y \in Process : Working(p, y)
<1> DEFINE x == proc[p]
           Bits == SUBSET {"mcp", "plugin"}
           Goes(pc, b, s) == proc' = [proc EXCEPT ![p] = [x EXCEPT !.pc = pc, !.broken = b, !.posted = s]]
<1>1. /\ x \in Process /\ x.pc \in {"catch", "unplug", "unmcp"} /\ x.client \in Clients
      /\ x.pc \in SetupPcs
  BY Process_ DEF Catch, GuardFails, Unplug, UnplugFails, Unmcp, UnmcpFails, ShapeOK, InClient, SetupPcs
<1>2. OutTyped /\ Quiet /\ disk' = disk
  <2>1. Quiet
    BY DEF Catch, GuardFails, Unplug, UnplugFails, Unmcp, UnmcpFails, Quiet
  <2> DEFINE Puts(a, v) == world' = [world EXCEPT ![a] = v]
  <2>4. PICK a, b : a = Plugin(x.client) /\ b = Mcp(x.client)
    OBVIOUS
  <2>2. /\ disk' = disk /\ keys' = keys
        /\ \/ world' = world
           \/ Puts(a, "absent") \/ Puts(a, "partial") \/ Puts(b, "absent")
    <3>1. CASE Catch(p) \/ GuardFails(p)
      BY <3>1 DEF Catch, GuardFails, outside
    <3>2. CASE Unplug(p)
      BY <2>4, <3>2 DEF Unplug, Put
    <3>3. CASE UnplugFails(p)
      BY <2>4, <3>3 DEF UnplugFails
    <3>4. CASE Unmcp(p)
      BY <2>4, <3>4 DEF Unmcp, Put
    <3>5. CASE UnmcpFails(p)
      BY <2>4, <3>5 DEF UnmcpFails
    <3> QED
      BY <3>1, <3>2, <3>3, <3>4, <3>5
  <2>3. world' \in [Things -> Conditions]
    <3>1. \A c : \A v \in Conditions : Puts(c, v) => world' \in [Things -> Conditions]
      BY Process_
    <3>2. "absent" \in Conditions /\ "partial" \in Conditions
      BY DEF Conditions
    <3> HIDE DEF Puts
    <3> QED
      BY <2>2, <3>1, <3>2, Process_
  <2> QED
    BY <2>1, <2>2, <2>3, Process_ DEF OutTyped
<1>3. x.posted \in Bits /\ x.tried \in Bits /\ x.broken \in BOOLEAN
  BY <1>1, ProcessFields
<1>4. \E pc \in {"unplug", "unmcp", "revoke"}, b \in BOOLEAN, s \in Bits : Goes(pc, b, s)
  <2>1. CASE Catch(p)
    <3> DEFINE pc == IF "plugin" \in x.tried THEN "unplug" ELSE IF "mcp" \in x.tried THEN "unmcp" ELSE "revoke"
               s == IF x.posted = {} THEN (IF "plugin" \in x.tried THEN {"plugin"} ELSE x.tried) ELSE x.posted
    <3>1. proc' = [proc EXCEPT ![p] = [x EXCEPT !.pc = pc, !.posted = s]]
      BY <2>1 DEF Catch
    <3>2. pc \in {"unplug", "unmcp", "revoke"} /\ s \in Bits
      BY <1>3
    <3> HIDE DEF pc, s
    <3>3. Goes(pc, x.broken, s)
      <4>1. [x EXCEPT !.pc = pc, !.posted = s] = [x EXCEPT !.pc = pc, !.broken = x.broken, !.posted = s]
        BY <1>1 DEF Process
      <4> QED
        BY <3>1, <4>1
    <3> HIDE DEF Goes
    <3> QED
      BY <1>3, <3>2, <3>3
  <2>2. ASSUME NEW pc \in {"unmcp", "revoke"}, NEW b \in BOOLEAN,
               proc' = [proc EXCEPT ![p] = [x EXCEPT !.pc = pc, !.broken = b]]
        PROVE  \E pd \in {"unplug", "unmcp", "revoke"}, c \in BOOLEAN, s \in Bits : Goes(pd, c, s)
    <3>1. [x EXCEPT !.pc = pc, !.broken = b] = [x EXCEPT !.pc = pc, !.broken = b, !.posted = x.posted]
      BY <1>1 DEF Process
    <3>2. Goes(pc, b, x.posted)
      BY <2>2, <3>1
    <3> HIDE DEF Goes
    <3> QED
      BY <1>3, <3>2
  <2>3. CASE GuardFails(p) \/ UnplugFails(p) \/ UnmcpFails(p)
    <3>1. proc' = [proc EXCEPT ![p] = [x EXCEPT !.pc = "revoke", !.broken = TRUE]]
      BY <2>3 DEF GuardFails, UnplugFails, UnmcpFails
    <3> HIDE DEF Goes
    <3> QED
      BY <2>2, <3>1
  <2>4. CASE Unplug(p)
    <3>1. PICK pc \in {"unmcp", "revoke"} :
            pc = IF "mcp" \in x.tried /\ ~Outdated(p, "mcp") THEN "unmcp" ELSE "revoke"
      OBVIOUS
    <3>2. PICK b \in BOOLEAN : b = (x.broken \/ Outdated(p, "mcp"))
      OBVIOUS
    <3>3. proc' = [proc EXCEPT ![p].pc = pc, ![p].broken = b]
      BY <2>4, <3>1, <3>2 DEF Unplug
    <3>4. proc' = [proc EXCEPT ![p] = [x EXCEPT !.pc = pc, !.broken = b]]
      BY <3>3
    <3> HIDE DEF Goes
    <3> QED
      BY <2>2, <3>4
  <2>5. CASE Unmcp(p)
    <3>1. proc' = [proc EXCEPT ![p] = [x EXCEPT !.pc = "revoke"]]
      BY <2>5 DEF Unmcp, Goto
    <3>2. [x EXCEPT !.pc = "revoke"] = [x EXCEPT !.pc = "revoke", !.broken = x.broken]
      BY <1>1 DEF Process
    <3> HIDE DEF Goes
    <3> QED
      BY <1>3, <2>2, <3>1, <3>2
  <2> QED
    BY <2>1, <2>3, <2>4, <2>5
<1>5. PICK pc \in {"unplug", "unmcp", "revoke"}, b \in BOOLEAN, s \in Bits : Goes(pc, b, s)
  BY <1>4
<1> DEFINE y == [x EXCEPT !.pc = pc, !.broken = b, !.posted = s]
<1>6. y \in Process
  <2>1. pc \in Pcs
    BY DEF Pcs
  <2> QED
    BY <1>1, <2>1, ZenonT(60) DEF Process
<1>7. y.pc = pc /\ y.client = x.client /\ y.command = x.command /\ y.seen = x.seen /\ y.draft = x.draft
  BY <1>1 DEF Process
<1>8. proc' = [proc EXCEPT ![p] = y]
  BY <1>5
<1> HIDE DEF y
<1> QED
  BY <1>1, <1>2, <1>6, <1>7, <1>8 DEF Working, SetupPcs, InClient

LEMMA ForgottenType ==
    ASSUME Typed, NEW p \in Procs, proc[p].client \in Clients, NEW d \in Disk
    PROVE  Forgotten(p, d) \in Disk /\ Forgotten(p, d).own = d.own
BY BridgeFields, KeyZero DEF Forgotten

LEMMA RevokeWorks ==
    ASSUME Typed, NEW p \in Procs, Revoke(p) \/ RevokeFails(p)
    PROVE  \E y \in Process : Working(p, y)
<1> DEFINE x == proc[p]
<1>1. x \in Process /\ x.pc = "revoke" /\ x.client \in Clients /\ x.pc \in SetupPcs /\ x.key \in Key
      /\ disk \in Disk /\ x.draft \in Disk
  BY Process_, ProcessFields DEF Revoke, RevokeFails, ShapeOK, InClient, SetupPcs
<1>2. Quiet /\ world' = world
  BY DEF Revoke, RevokeFails, Quiet
<1>3. disk' \in Disk /\ disk'.own = disk.own
  <2>1. disk' = disk \/ disk' = Forgotten(p, disk)
    BY DEF Revoke, RevokeFails
  <2> QED
    BY <1>1, <2>1, ForgottenType
<1>4. keys' \in Keys
  <2>1. PICK s, l : /\ s \subseteq keys.stored /\ l \subseteq keys.live
                    /\ \/ keys' = [keys EXCEPT !.live = l, !.stored = s]
                       \/ keys' = [keys EXCEPT !.stored = s, !.live = l]
                       \/ keys' = keys
    <3>1. CASE Revoke(p)
      <4>1. keys' = keys \/ keys' = [keys EXCEPT !.live = keys.live \ {x.key}, !.stored = keys.stored \ {x.key}]
        BY <3>1 DEF Revoke, Cleared
      <4> QED
        BY <4>1
    <3>2. CASE RevokeFails(p)
      <4>1. PICK s, l : /\ s \in {keys.stored, keys.stored \ {x.key}} /\ l \in {keys.live, keys.live \ {x.key}}
                        /\ keys' = [keys EXCEPT !.stored = s, !.live = l]
        BY <3>2 DEF RevokeFails, Cleared
      <4> QED
        BY <4>1
    <3> QED
      BY <3>1, <3>2
  <2>2. s \subseteq keys.stored \cup {x.key} /\ l \subseteq keys.live
    BY <2>1
  <2>3. /\ [keys EXCEPT !.live = l, !.stored = s] \in Keys
        /\ [keys EXCEPT !.stored = s, !.live = l] \in Keys
    BY <1>1, <2>2, StoredKeys
  <2> QED
    BY <2>1, <2>3, Process_
<1>5. ASSUME NEW b \in BOOLEAN, NEW d \in Disk, d.own = x.draft.own,
             proc' = [proc EXCEPT ![p] = [Settled(p, b) EXCEPT !.draft = d]]
      PROVE  \E y \in Process : Working(p, y)
  <2> DEFINE done == Settled(p, b)
             y == [done EXCEPT !.draft = d]
  <2>1. PICK r \in {"success", "incomplete", "recovery-required"} : done = Done(p, r)
    BY DEF Settled
  <2> HIDE DEF done
  <2>2. done \in Process /\ done.pc = "clients" /\ done.command = x.command /\ done.seen = x.seen
    BY <1>1, <2>1, DoneType
  <2>3. y \in Process
    BY <2>2, ZenonT(60) DEF Process
  <2>4. y.pc = "clients" /\ y.command = x.command /\ y.seen = x.seen /\ y.draft = d
    BY <2>2 DEF Process
  <2>5. proc' = [proc EXCEPT ![p] = y]
    BY <1>5 DEF done
  <2> HIDE DEF y
  <2> QED
    BY <1>1, <1>2, <1>3, <1>4, <1>5, <2>3, <2>4, <2>5 DEF Working, SetupPcs, InClient, OutTyped, Typed, TypeOK
<1>6. \E b \in BOOLEAN, d \in {x.draft, Forgotten(p, x.draft)} :
          proc' = [proc EXCEPT ![p] = [Settled(p, b) EXCEPT !.draft = d]]
  <2> DEFINE Goes(b, d) == proc' = [proc EXCEPT ![p] = [Settled(p, b) EXCEPT !.draft = d]]
  <2>1. Settled(p, x.broken).draft = x.draft /\ Settled(p, TRUE).draft = x.draft /\ x.broken \in BOOLEAN
    BY <1>1, DoneType, ProcessFields DEF Settled
  <2>2. CASE Revoke(p) /\ x.made
    <3>1. Goes(x.broken, Forgotten(p, x.draft))
      BY <2>1, <2>2 DEF Revoke
    <3> HIDE DEF Goes
    <3>2. \E b \in BOOLEAN, d \in {x.draft, Forgotten(p, x.draft)} : Goes(b, d)
      BY <2>1, <3>1
    <3> QED
      BY <3>2 DEF Goes
  <2>3. CASE Revoke(p) /\ ~x.made
    <3>1. Goes(x.broken, x.draft)
      BY <2>1, <2>3 DEF Revoke
    <3> HIDE DEF Goes
    <3>2. \E b \in BOOLEAN, d \in {x.draft, Forgotten(p, x.draft)} : Goes(b, d)
      BY <2>1, <3>1
    <3> QED
      BY <3>2 DEF Goes
  <2>4. CASE RevokeFails(p)
    <3>1. Goes(TRUE, Forgotten(p, x.draft))
      BY <2>1, <2>4 DEF RevokeFails
    <3> HIDE DEF Goes
    <3>2. \E b \in BOOLEAN, d \in {x.draft, Forgotten(p, x.draft)} : Goes(b, d)
      BY <2>1, <3>1
    <3> QED
      BY <3>2 DEF Goes
  <2> QED
    BY <2>2, <2>3, <2>4
<1>7. Forgotten(p, x.draft) \in Disk /\ Forgotten(p, x.draft).own = x.draft.own
  BY <1>1, ForgottenType
<1> QED
  BY <1>1, <1>5, <1>6, <1>7

\* All of setup but its first and its last step.
WorkOfSetup(p) ==
    \/ InstallRelease(p) \/ InstallFails(p) \/ Deploy(p) \/ DeployFails(p)
    \/ VerifyPrior(p) \/ SkipClient(p) \/ Preflight(p)
    \/ ReuseKey(p) \/ CreateKey(p) \/ CreateKeyFails(p) \/ StoreCredential(p) \/ StoreFails(p)
    \/ UndoStore(p) \/ UndoStoreFails(p)
    \/ AddComponent(p) \/ AddRefused(p) \/ AddFails(p) \/ VerifyClient(p) \/ VerifyFails(p)
    \/ Catch(p) \/ GuardFails(p) \/ Unplug(p) \/ UnplugFails(p) \/ Unmcp(p) \/ UnmcpFails(p)
    \/ Revoke(p) \/ RevokeFails(p)

LEMMA SetupWorks ==
    ASSUME Typed, NEW p \in Procs, WorkOfSetup(p)
    PROVE  \E y \in Process : Working(p, y)
BY InstallWorks, DeployWorks, SkipWorks, PreflightWorks, KeyWorks, StoreWorks, UndoStoreWorks,
   AddWorks, VerifyWorks, UndoWorks, RevokeWorks DEF WorkOfSetup

LEMMA ConcludeTyped ==
    ASSUME Typed, NEW p \in Procs, Conclude(p)
    PROVE  \E y \in Process :
             /\ proc' = [proc EXCEPT ![p] = y]
             /\ y.pc = "publish" /\ y.command = proc[p].command /\ y.seen = proc[p].seen
             /\ y.left \in {<<"inst", "own", "ext", "integ">>,
                            <<"own", "ext", "integ", "bridge", "inst">>}
             /\ y.effects = proc[p].effects /\ y.broken = proc[p].broken /\ y.result = proc[p].result
             /\ \A a \in Assets : y.draft.own[a] =
                   IF Fresh(p) /\ a \in ServiceAssets THEN "present" ELSE proc[p].draft.own[a]
             /\ OutTyped /\ Quiet /\ UNCHANGED <<disk, world, touched>>
<1> DEFINE x == proc[p]
           own == IF Fresh(p)
                  THEN [a \in Assets |-> IF a \in {Service, Release, Volume, Paths} THEN "present"
                                         ELSE x.draft.own[a]]
                  ELSE x.draft.own
           d == [x.draft EXCEPT !.inst.status = Status(p), !.own = own]
           l == IF Fresh(p) THEN <<"inst", "own", "ext", "integ">>
                ELSE <<"own", "ext", "integ", "bridge", "inst">>
           y == [x EXCEPT !.pc = "publish", !.draft = d, !.left = l]
<1>1. x \in Process /\ x.pc = "clients" /\ x.draft \in Disk
  BY Process_, ProcessFields DEF Conclude
<1>2. proc' = [proc EXCEPT ![p] = y]
  <2>1. PICK s, o, m : s = Status(p) /\ o = own /\ m = l
    OBVIOUS
  <2>2. proc' = [proc EXCEPT ![p].pc = "publish", ![p].draft.inst.status = s,
                             ![p].draft.own = o, ![p].left = m]
    BY <2>1 DEF Conclude
  <2>3. [proc EXCEPT ![p].pc = "publish", ![p].draft.inst.status = s,
                     ![p].draft.own = o, ![p].left = m]
          = [proc EXCEPT ![p] = [x EXCEPT !.pc = "publish",
                 !.draft = [x.draft EXCEPT !.inst.status = s, !.own = o], !.left = m]]
    OBVIOUS
  <2> HIDE DEF own, l
  <2> QED
    BY <2>1, <2>2, <2>3
<1>3. x.draft.own \in [Assets -> Dispositions]
  BY <1>1, DiskFields
<1>4. /\ own \in [Assets -> Dispositions]
      /\ \A a \in Assets : own[a] =
           IF Fresh(p) /\ a \in ServiceAssets THEN "present" ELSE x.draft.own[a]
  BY <1>3 DEF ServiceAssets, Dispositions
<1>5. Status(p) \in Statuses
  BY <1>1, ProcessFields DEF Status, Statuses
<1>6. [x.draft.inst EXCEPT !.status = Status(p)] \in [status : Statuses, selected : SUBSET Clients]
  BY <1>1, <1>5, DiskFields
<1> HIDE DEF own
<1>7. d \in Disk /\ d.own = own
  <2>1. [x.draft EXCEPT !.inst = [x.draft.inst EXCEPT !.status = Status(p)]] \in Disk
    BY <1>1, <1>6, DiskInst
  <2>2. [[x.draft EXCEPT !.inst = [x.draft.inst EXCEPT !.status = Status(p)]] EXCEPT !.own = own] \in Disk
    BY <1>4, <2>1, DiskOwn
  <2>3. d = [[x.draft EXCEPT !.inst = [x.draft.inst EXCEPT !.status = Status(p)]] EXCEPT !.own = own]
    OBVIOUS
  <2>4. d.own = own
    BY <1>1 DEF Disk
  <2> QED
    BY <2>2, <2>3, <2>4
<1>8. /\ l \in {<<"inst", "own", "ext", "integ">>, <<"own", "ext", "integ", "bridge", "inst">>}
      /\ l \in Seq({"inst", "own", "ext", "integ", "bridge"})
  <2>1. l \in {<<"inst", "own", "ext", "integ">>, <<"own", "ext", "integ", "bridge", "inst">>}
    OBVIOUS
  <2>2. \A m \in Lists : m \in Seq(Records)
    BY ListFacts
  <2> HIDE DEF l
  <2>3. l \in Lists
    BY <2>1 DEF Lists
  <2> QED
    BY <2>1, <2>2, <2>3 DEF Records
<1> HIDE DEF d, l
<1>9. y \in Process
  <2>1. "publish" \in Pcs
    BY DEF Pcs
  <2> QED
    BY <1>1, <1>7, <1>8, <2>1, ZenonT(60) DEF Process
<1>10. /\ y.pc = "publish" /\ y.command = x.command /\ y.seen = x.seen /\ y.left = l
       /\ y.effects = x.effects /\ y.broken = x.broken /\ y.result = x.result /\ y.draft = d
  BY <1>1 DEF Process
<1>11. OutTyped /\ Quiet /\ UNCHANGED <<disk, world, touched>>
  BY Process_ DEF Conclude, OutTyped, Quiet, outside, ghosts
<1> HIDE DEF y
<1> QED
  BY <1>2, <1>4, <1>7, <1>8, <1>9, <1>10, <1>11

(***************************************************************************)
(* The removal commands.                                                   *)
(***************************************************************************)
\* The next state of a process that removes or restores, and what it keeps.
Remade(x, pc, todo, e, d, l) ==
    [x EXCEPT !.pc = pc, !.todo = todo, !.effects = e, !.draft = d, !.left = l]

Follows(x, y) ==
    /\ y.command = x.command /\ y.client = x.client /\ y.current = x.current /\ y.seen = x.seen
    /\ y.broken = x.broken /\ y.result = x.result

Becomes(p, y, pc, todo, e, d, l) ==
    /\ proc' = [proc EXCEPT ![p] = y] /\ Follows(proc[p], y)
    /\ y.pc = pc /\ y.todo = todo /\ y.effects = e /\ y.draft = d /\ y.left = l

LEMMA Remake ==
    ASSUME Typed, NEW p \in Procs, NEW pc \in Pcs, NEW todo \in SUBSET Assets, NEW e \in Effects,
           NEW d \in Disk, NEW l \in Seq(Records),
           proc' = [proc EXCEPT ![p] = Remade(proc[p], pc, todo, e, d, l)]
    PROVE  \E y \in Process : Becomes(p, y, pc, todo, e, d, l)
<1> DEFINE y == Remade(proc[p], pc, todo, e, d, l)
<1>1. proc[p] \in Process
  BY Process_
<1>2. e \in {"none", "proven", "unproven"} /\ l \in Seq({"inst", "own", "ext", "integ", "bridge"})
  BY DEF Effects, Records
<1>3. y \in Process
  BY <1>1, <1>2, ZenonT(60) DEF Process, Remade
<1>4. Follows(proc[p], y) /\ y.pc = pc /\ y.todo = todo /\ y.effects = e /\ y.draft = d /\ y.left = l
  BY <1>1 DEF Process, Remade, Follows
<1> HIDE DEF y
<1>5. proc' = [proc EXCEPT ![p] = y]
  BY DEF y
<1> QED
  BY <1>3, <1>4, <1>5 DEF Becomes

\* What a process that is at work keeps, as operands for Remake.
LEMMA Operands ==
    ASSUME Typed, NEW p \in Procs
    PROVE  /\ proc[p].todo \in SUBSET Assets /\ proc[p].effects \in Effects
           /\ Proven(proc[p].effects) \in Effects /\ "unproven" \in Effects
           /\ proc[p].draft \in Disk /\ proc[p].left \in Seq(Records)
           /\ proc[p].draft.own \in [Assets -> Dispositions]
<1>1. proc[p] \in Process
  BY Process_
<1>2. proc[p].draft \in Disk
  BY <1>1, ProcessFields
<1> QED
  BY <1>1, <1>2, ProcessFields, DiskFields DEF Effects, Proven, Records

LEMMA GotoBecomes ==
    ASSUME Typed, NEW p \in Procs, NEW pc \in Pcs, Goto(p, pc)
    PROVE  \E y \in Process :
             Becomes(p, y, pc, proc[p].todo, proc[p].effects, proc[p].draft, proc[p].left)
<1> DEFINE x == proc[p]
<1>1. [x EXCEPT !.pc = pc] = Remade(x, pc, x.todo, x.effects, x.draft, x.left)
  BY Process_ DEF Process, Remade
<1>2. proc' = [proc EXCEPT ![p] = [x EXCEPT !.pc = pc]]
  BY DEF Goto
<1> QED
  BY <1>1, <1>2, Operands, Remake

LEMMA UnprovenBecomes ==
    ASSUME Typed, NEW p \in Procs, NEW pc \in Pcs, Unproven(p, pc)
    PROVE  \E y \in Process :
             Becomes(p, y, pc, proc[p].todo, "unproven", proc[p].draft, proc[p].left)
<1> DEFINE x == proc[p]
<1>1. [x EXCEPT !.pc = pc, !.effects = "unproven"] = Remade(x, pc, x.todo, "unproven", x.draft, x.left)
  BY Process_ DEF Process, Remade
<1>2. proc' = [proc EXCEPT ![p] = [x EXCEPT !.pc = pc, !.effects = "unproven"]]
  BY DEF Unproven
<1> QED
  BY <1>1, <1>2, Operands, Remake

\* A command that gives up, and whose effects are on record.
Failing(p, y) ==
    /\ proc' = [proc EXCEPT ![p] = y] /\ Follows(proc[p], y) /\ y.pc = "failed"
    /\ proc[p].pc \notin Free
    /\ disk'.own = disk.own
    /\ y.effects = "unproven" \/ (y.effects = proc[p].effects /\ world' = world)
    /\ OutTyped /\ Quiet

LEMMA FailTyped ==
    ASSUME Typed, NEW p \in Procs, NEW y \in Process, Failing(p, y)
    PROVE  Typed'
<1>1. ShapeOK(y) /\ y.pc \notin Free
  BY DEF Failing, ShapeOK, InClient, SetupPcs, Free
<1> QED
  BY <1>1, StayTyped DEF Failing

LEMMA GiveUp ==
    ASSUME Typed, NEW p \in Procs, Unproven(p, "failed") \/ (Goto(p, "failed") /\ world' = world),
           proc[p].pc \notin Free, disk'.own = disk.own, OutTyped, Quiet
    PROVE  \E y \in Process : Failing(p, y)
<1>1. "failed" \in Pcs
  BY DEF Pcs
<1> QED
  BY <1>1, GotoBecomes, UnprovenBecomes DEF Becomes, Failing

\* What is removed, on the disk and in the world.
LEMMA RemovalOut ==
    ASSUME Typed, NEW p \in Procs, NEW a \in Assets, Removal(p, a)
    PROVE  OutTyped /\ disk'.own = disk.own
<1>1. world' \in [Things -> Conditions]
  BY Process_ DEF Removal, Conditions
<1>2. disk' \in Disk /\ disk'.own = disk.own
  <2>1. [c \in Clients |-> 0] \in [Clients -> Key] /\ disk \in Disk
    BY KeyZero, Process_
  <2>2. disk' = disk \/ disk' = [disk EXCEPT !.bridge = [c \in Clients |-> 0]]
    BY DEF Removal
  <2> HIDE DEF Disk
  <2>3. disk' \in Disk
    BY <2>1, <2>2, DiskBridge
  <2>4. disk'.own = disk.own
    BY <2>1, <2>2 DEF Disk
  <2> QED
    BY <2>3, <2>4
<1>3. keys' \in Keys
  <2>1. PICK k : keys' = [keys EXCEPT !.stored = @ \ k,
              !.live = IF a = Volume THEN {}
                       ELSE IF proc[p].command = "client-uninstall" THEN @ \ k ELSE @]
    BY DEF Removal
  <2> QED
    BY <2>1, Process_ DEF Keys
<1> QED
  BY <1>1, <1>2, <1>3 DEF OutTyped

LEMMA RemoveFailing ==
    ASSUME Typed, NEW p \in Procs, RemoveRefused(p) \/ RemoveFails(p)
    PROVE  \E y \in Process : Failing(p, y)
<1>1. proc[p].pc \notin Free
  BY DEF RemoveRefused, RemoveFails, InTurn, Free
<1>2. Quiet
  BY DEF RemoveRefused, RemoveFails, Quiet
<1>3. CASE RemoveRefused(p)
  <2>1. OutTyped /\ disk' = disk /\ world' = world
    BY <1>3, Process_ DEF RemoveRefused, OutTyped, outside
  <2>2. Unproven(p, "failed") \/ Goto(p, "failed")
    BY <1>3 DEF RemoveRefused
  <2> QED
    BY <1>1, <1>2, <2>1, <2>2, GiveUp
<1>4. CASE RemoveFails(p)
  <2>1. PICK a \in Assets :
          \/ keys' \in {keys} \cup Halfway(p, a) /\ UNCHANGED <<disk, world>>
          \/ Removal(p, a)
          \/ Put(a, "partial") /\ UNCHANGED <<disk, keys>>
          \/ Put(a, "quarantined") /\ UNCHANGED <<disk, keys>>
    BY <1>4 DEF RemoveFails
  <2>2. ASSUME keys' \in {keys} \cup Halfway(p, a), UNCHANGED <<disk, world>>
        PROVE  OutTyped /\ disk'.own = disk.own
    <3>1. keys' = keys \/ \E l \in SUBSET keys.live : keys' = [keys EXCEPT !.live = l]
      BY <2>2 DEF Halfway
    <3>2. keys' \in Keys
      BY <3>1, Process_ DEF Keys
    <3> QED
      BY <2>2, <3>2, Process_ DEF OutTyped
  <2>3. "partial" \in Conditions /\ "quarantined" \in Conditions
    BY DEF Conditions
  <2>4. OutTyped /\ disk'.own = disk.own
    BY <2>1, <2>2, <2>3, RemovalOut, PutTyped, Process_ DEF OutTyped
  <2>5. Unproven(p, "failed")
    BY <1>4 DEF RemoveFails
  <2> QED
    BY <1>1, <1>2, <2>4, <2>5, GiveUp
<1> QED
  BY <1>3, <1>4

LEMMA OtherFailing ==
    ASSUME Typed, NEW p \in Procs, StopFails(p) \/ RestoreFails(p)
    PROVE  \E y \in Process : Failing(p, y)
<1>1. proc[p].pc \notin Free
  BY DEF StopFails, RestoreFails, Free
<1>2. Quiet /\ disk' = disk
  BY DEF StopFails, RestoreFails, Quiet
<1>3. OutTyped
  <2>1. "ours" \in Conditions /\ "absent" \in Conditions
    BY DEF Conditions
  <2>2. keys' = keys
    BY DEF StopFails, RestoreFails
  <2>3. world' \in [Things -> Conditions]
    <3>1. CASE StopFails(p)
      BY <2>1, <3>1, Process_ DEF StopFails
    <3>2. CASE RestoreFails(p)
      BY <2>1, <3>2, Process_ DEF RestoreFails
    <3> QED
      BY <3>1, <3>2
  <2> QED
    BY <1>2, <2>2, <2>3, Process_ DEF OutTyped
<1>4. Unproven(p, "failed") \/ (Goto(p, "failed") /\ world' = world)
  BY DEF StopFails, RestoreFails
<1> QED
  BY <1>1, <1>2, <1>3, <1>4, GiveUp

LEMMA CheckAllBecomes ==
    ASSUME Typed, NEW p \in Procs, CheckAll(p) \/ CheckRepair(p)
    PROVE  /\ OutTyped /\ Quiet /\ UNCHANGED <<disk, world, touched>>
           /\ proc[p].pc = "check"
           /\ \E y \in Process :
                \/ Failing(p, y)
                \/ /\ Becomes(p, y, "remove", proc[p].todo, proc[p].effects, proc[p].draft, proc[p].left)
                   /\ proc[p].command \in {"uninstall", "purge"}
                   /\ proc[p].current = {"inst", "own"}
                   /\ \A a \in proc[p].todo : Removable(p, a)
                \/ /\ Becomes(p, y, "restore", proc[p].todo, proc[p].effects, proc[p].draft, proc[p].left)
                   /\ proc[p].command = "repair"
<1>1. /\ OutTyped /\ Quiet /\ UNCHANGED <<disk, world, touched>>
      /\ proc[p].pc = "check" /\ proc[p].pc \notin Free
  BY Process_ DEF CheckAll, CheckRepair, OutTyped, Quiet, outside, ghosts, Free
<1>2. \/ Goto(p, "failed")
      \/ /\ Goto(p, "remove") /\ proc[p].command \in {"uninstall", "purge"}
         /\ proc[p].current = {"inst", "own"} /\ \A a \in proc[p].todo : Removable(p, a)
      \/ Goto(p, "restore") /\ proc[p].command = "repair"
  BY DEF CheckAll, CheckRepair
<1>3. "remove" \in Pcs /\ "restore" \in Pcs
  BY DEF Pcs
<1> QED
  BY <1>1, <1>2, <1>3, GiveUp, GotoBecomes

LEMMA CheckClientBecomes ==
    ASSUME Typed, NEW p \in Procs, CheckClient(p)
    PROVE  /\ OutTyped /\ Quiet /\ UNCHANGED <<disk, world, touched>>
           /\ proc[p].pc = "check" /\ proc[p].command = "client-uninstall"
           /\ \E y \in Process :
                \/ Failing(p, y)
                \/ /\ \E d \in Disk, t \in SUBSET Assets :
                         /\ Becomes(p, y, "remove", t, proc[p].effects, d, proc[p].left)
                         /\ \A a \in Assets : d.own[a] = IF a \in proc[p].todo THEN "removed"
                                                         ELSE proc[p].draft.own[a]
                         /\ t \subseteq proc[p].todo
                         /\ \A a \in proc[p].todo \cap Things : a \notin t => world[a] = "absent"
                   /\ "own" \in proc[p].current
<1> DEFINE x == proc[p]
           absent == {a \in x.todo \ {Credential(x.client)} : world[a] = "absent"}
           same == \A a \in x.todo \ {Credential(x.client)} : world[a] = x.look[a[2]]
           blocked == \E a \in x.todo \ absent : ~Removable(p, a)
           stop == "own" \notin x.current \/ ~same \/ blocked
           o == [a \in Assets |-> IF a \in x.todo THEN "removed" ELSE x.draft.own[a]]
           d == [x.draft EXCEPT !.own = o]
           e == IF "own" \in x.current /\ same /\ blocked THEN "unproven" ELSE x.effects
           pc == IF stop THEN "failed" ELSE "remove"
           t == x.todo \ absent
<1>1. /\ OutTyped /\ Quiet /\ UNCHANGED <<disk, world, touched>>
      /\ x.pc = "check" /\ x.pc \notin Free /\ x.command = "client-uninstall"
  BY Process_ DEF CheckClient, OutTyped, Quiet, outside, ghosts, Free
<1>2. proc' = [proc EXCEPT ![p] = Remade(x, pc, t, e, d, x.left)]
  <2>1. proc' = [proc EXCEPT ![p].pc = pc, ![p].effects = e, ![p].todo = t, ![p].draft.own = o]
    BY DEF CheckClient
  <2> HIDE DEF pc, e, t, o
  <2>2. [proc EXCEPT ![p].pc = pc, ![p].effects = e, ![p].todo = t, ![p].draft.own = o]
          = [proc EXCEPT ![p] = [x EXCEPT !.pc = pc, !.effects = e, !.todo = t, !.draft = d]]
    OBVIOUS
  <2>3. [x EXCEPT !.pc = pc, !.effects = e, !.todo = t, !.draft = d] = Remade(x, pc, t, e, d, x.left)
    BY Process_ DEF Process, Remade
  <2> QED
    BY <2>1, <2>2, <2>3
<1>3. o \in [Assets -> Dispositions] /\ d \in Disk /\ d.own = o
  <2>1. o \in [Assets -> Dispositions]
    BY Operands DEF Dispositions
  <2> HIDE DEF o
  <2> QED
    BY <2>1, Operands, DiskOwn DEF Disk
<1>4. pc \in {"failed", "remove"} /\ pc \in Pcs
  BY DEF Pcs
<1>5. e \in Effects /\ t \in SUBSET Assets /\ x.left \in Seq(Records)
  BY Operands
<1>6. e = "unproven" \/ e = x.effects
  OBVIOUS
<1>7. pc = "remove" => "own" \in x.current /\ e = x.effects
  OBVIOUS
<1>8. \A a \in x.todo \cap Things : a \notin t => world[a] = "absent"
  OBVIOUS
<1>9. t \subseteq x.todo /\ \A a \in Assets : o[a] = IF a \in x.todo THEN "removed" ELSE x.draft.own[a]
  OBVIOUS
<1> HIDE DEF pc, e, t, o, d
<1>10. PICK y \in Process : Becomes(p, y, pc, t, e, d, x.left)
  BY <1>2, <1>3, <1>4, <1>5, Remake
<1>11. CASE pc = "failed"
  <2>1. Failing(p, y)
    BY <1>1, <1>6, <1>10, <1>11 DEF Becomes, Failing
  <2> QED
    BY <1>1, <2>1
<1>12. CASE pc = "remove"
  <2>1. Becomes(p, y, "remove", t, x.effects, d, x.left)
    BY <1>7, <1>10, <1>12
  <2> QED
    BY <1>1, <1>3, <1>5, <1>7, <1>8, <1>9, <1>12, <2>1
<1> QED
  BY <1>4, <1>11, <1>12

LEMMA RemoveBecomes ==
    ASSUME Typed, NEW p \in Procs, Remove(p)
    PROVE  \E y \in Process, a \in Assets, d \in Disk :
             /\ Becomes(p, y, "remove", proc[p].todo \ {a}, Proven(proc[p].effects), d, proc[p].left)
             /\ d.own = [proc[p].draft.own EXCEPT ![a] = "removed"]
             /\ InTurn(p, a) /\ Removable(p, a) /\ Possible(p, a) /\ Removal(p, a)
             /\ OutTyped /\ Quiet /\ disk'.own = disk.own /\ touched' = touched
<1> DEFINE x == proc[p]
<1>1. PICK a \in Assets :
        /\ InTurn(p, a) /\ Removable(p, a) /\ Possible(p, a) /\ Removal(p, a)
        /\ proc' = [proc EXCEPT ![p].todo = @ \ {a}, ![p].draft.own[a] = "removed",
                                ![p].effects = Proven(@)]
  BY DEF Remove
<1> DEFINE o == [x.draft.own EXCEPT ![a] = "removed"]
           d == [x.draft EXCEPT !.own = o]
<1>2. OutTyped /\ Quiet /\ disk'.own = disk.own /\ touched' = touched
  BY <1>1, RemovalOut DEF Remove, Quiet, ghosts
<1>3. x.pc = "remove" /\ "remove" \in Pcs
  BY <1>1 DEF InTurn, Pcs
<1>4. x.draft \in Disk /\ o \in [Assets -> Dispositions]
  BY Operands DEF Dispositions
<1>5. d \in Disk /\ d.own = o
  <2> HIDE DEF o
  <2> QED
    BY <1>4, DiskOwn DEF Disk
<1>6. proc' = [proc EXCEPT ![p] = Remade(x, "remove", x.todo \ {a}, Proven(x.effects), d, x.left)]
  <2>1. PICK t, e : t = x.todo \ {a} /\ e = Proven(x.effects)
    OBVIOUS
  <2>2. proc' = [proc EXCEPT ![p].todo = t, ![p].draft.own[a] = "removed", ![p].effects = e]
    BY <1>1, <2>1
  <2>3. [proc EXCEPT ![p].todo = t, ![p].draft.own[a] = "removed", ![p].effects = e]
          = [proc EXCEPT ![p] = [x EXCEPT !.todo = t, !.draft = d, !.effects = e]]
    OBVIOUS
  <2> HIDE DEF d
  <2>4. [x EXCEPT !.todo = t, !.draft = d, !.effects = e] = Remade(x, "remove", t, e, d, x.left)
    BY <1>3, Process_ DEF Process, Remade
  <2> QED
    BY <2>1, <2>2, <2>3, <2>4
<1>7. x.todo \ {a} \in SUBSET Assets /\ Proven(x.effects) \in Effects /\ x.left \in Seq(Records)
  BY Operands
<1> HIDE DEF d
<1>8. \E y \in Process : Becomes(p, y, "remove", x.todo \ {a}, Proven(x.effects), d, x.left)
  BY <1>3, <1>5, <1>6, <1>7, Remake
<1> QED
  BY <1>1, <1>2, <1>5, <1>8

LEMMA RestoreBecomes ==
    ASSUME Typed, NEW p \in Procs, Restore(p)
    PROVE  \E y \in Process, a \in proc[p].todo, d \in Disk, e \in {proc[p].effects, Proven(proc[p].effects)} :
             /\ Becomes(p, y, "restore", proc[p].todo \ {a}, e, d, proc[p].left)
             /\ proc[p].pc = "restore" /\ "own" \in proc[p].current
             /\ \/ /\ world[a] = "absent" /\ Put(a, "ours") /\ e = Proven(proc[p].effects)
                   /\ d.own = [proc[p].draft.own EXCEPT
                                 ![a] = IF @ = "removed" THEN "present" ELSE @]
                \/ world' = world /\ world[a] # "absent" /\ d = proc[p].draft /\ e = proc[p].effects
             /\ OutTyped /\ Quiet /\ UNCHANGED <<disk, touched>>
<1> DEFINE x == proc[p]
<1>1. PICK a \in x.todo :
        /\ x.pc = "restore" /\ "own" \in x.current
        /\ IF world[a] = "absent"
           THEN /\ Put(a, "ours")
                /\ proc' = [proc EXCEPT ![p].todo = @ \ {a}, ![p].effects = Proven(@),
                      ![p].draft.own[a] = IF @ = "removed" THEN "present" ELSE @]
           ELSE proc' = [proc EXCEPT ![p].todo = @ \ {a}] /\ UNCHANGED world
  BY DEF Restore
<1>2. OutTyped /\ Quiet /\ UNCHANGED <<disk, touched>>
  <2>1. "ours" \in Conditions
    BY DEF Conditions
  <2>2. Quiet /\ UNCHANGED <<disk, keys, touched>>
    BY DEF Restore, Quiet, ghosts
  <2> QED
    BY <1>1, <2>1, <2>2, PutTyped, Process_ DEF OutTyped
<1>3. "restore" \in Pcs /\ x.todo \ {a} \in SUBSET Assets /\ x.left \in Seq(Records)
      /\ x.draft \in Disk /\ a \in Assets /\ x.effects \in Effects /\ Proven(x.effects) \in Effects
  BY Operands DEF Pcs
<1>4. CASE world[a] = "absent"
  <2> DEFINE o == [x.draft.own EXCEPT ![a] = IF @ = "removed" THEN "present" ELSE @]
             d == [x.draft EXCEPT !.own = o]
  <2>1. o \in [Assets -> Dispositions]
    BY Operands DEF Dispositions
  <2>2. d \in Disk /\ d.own = o
    <3> HIDE DEF o
    <3> QED
      BY <1>3, <2>1, DiskOwn DEF Disk
  <2>3. proc' = [proc EXCEPT ![p] = Remade(x, "restore", x.todo \ {a}, Proven(x.effects), d, x.left)]
    <3>1. PICK t, e, v : t = x.todo \ {a} /\ e = Proven(x.effects)
                         /\ v = IF x.draft.own[a] = "removed" THEN "present" ELSE x.draft.own[a]
      OBVIOUS
    <3>2. proc' = [proc EXCEPT ![p].todo = t, ![p].effects = e, ![p].draft.own[a] = v]
      BY <1>1, <1>4, <3>1
    <3>3. [proc EXCEPT ![p].todo = t, ![p].effects = e, ![p].draft.own[a] = v]
            = [proc EXCEPT ![p] = [x EXCEPT !.todo = t, !.effects = e,
                                     !.draft = [x.draft EXCEPT !.own = [x.draft.own EXCEPT ![a] = v]]]]
      OBVIOUS
    <3>4. d = [x.draft EXCEPT !.own = [x.draft.own EXCEPT ![a] = v]]
      BY <3>1
    <3> HIDE DEF d
    <3>5. [x EXCEPT !.todo = t, !.effects = e, !.draft = d] = Remade(x, "restore", t, e, d, x.left)
      BY <1>1, Process_ DEF Process, Remade
    <3> QED
      BY <3>1, <3>2, <3>3, <3>4, <3>5
  <2> HIDE DEF d
  <2>4. PICK y \in Process :
          Becomes(p, y, "restore", x.todo \ {a}, Proven(x.effects), d, x.left)
    BY <1>3, <2>2, <2>3, Remake
  <2> QED
    BY <1>1, <1>2, <1>4, <2>2, <2>4
<1>5. CASE world[a] # "absent"
  <2>1. proc' = [proc EXCEPT ![p] = [x EXCEPT !.todo = x.todo \ {a}]]
    BY <1>1, <1>5
  <2>2. [x EXCEPT !.todo = x.todo \ {a}] = Remade(x, "restore", x.todo \ {a}, x.effects, x.draft, x.left)
    BY <1>1, Process_ DEF Process, Remade
  <2>3. PICK y \in Process :
          Becomes(p, y, "restore", x.todo \ {a}, x.effects, x.draft, x.left)
    BY <1>3, <2>1, <2>2, Remake
  <2> QED
    BY <1>1, <1>2, <1>3, <1>5, <2>3
<1> QED
  BY <1>4, <1>5

LEMMA StopBecomes ==
    ASSUME Typed, NEW p \in Procs, StopService(p)
    PROVE  \E y \in Process, d \in Disk :
             /\ Becomes(p, y, "publish", proc[p].todo, Proven(proc[p].effects), d, <<"own", "inst">>)
             /\ proc[p].pc = "remove" /\ proc[p].command = "uninstall" /\ proc[p].todo = {}
             /\ d.own = Retained(proc[p].draft.own)
             /\ Put(Service, "absent") /\ OutTyped /\ Quiet /\ UNCHANGED <<disk, touched>>
<1> DEFINE x == proc[p]
           o == Retained(x.draft.own)
           i == [x.draft.inst EXCEPT !.status = "data-retained"]
           d == [[x.draft EXCEPT !.own = o] EXCEPT !.inst = i]
           l == <<"own", "inst">>
<1>1. x.pc = "remove" /\ x.command = "uninstall" /\ x.todo = {} /\ Put(Service, "absent")
      /\ UNCHANGED <<disk, keys, touched>> /\ Quiet
  BY DEF StopService, Quiet, ghosts
<1>2. OutTyped
  BY <1>1, PutTyped DEF Conditions
<1>3. o \in [Assets -> Dispositions] /\ x.draft \in Disk /\ i \in [status : Statuses, selected : SUBSET Clients]
  BY Operands, DiskFields DEF Retained, Dispositions, Statuses
<1>4. d \in Disk /\ d.own = o
  <2> HIDE DEF o, i
  <2>1. [x.draft EXCEPT !.own = o] \in Disk
    BY <1>3, DiskOwn
  <2>2. d \in Disk
    BY <1>3, <2>1, DiskInst
  <2> QED
    BY <1>3, <2>2 DEF Disk
<1>5. proc' = [proc EXCEPT ![p] = Remade(x, "publish", x.todo, Proven(x.effects), d, l)]
  <2>1. PICK e, c : e = Proven(x.effects) /\ c = d
    OBVIOUS
  <2>2. d = [x.draft EXCEPT !.own = Retained(x.draft.own), !.inst.status = "data-retained"]
    OBVIOUS
  <2> HIDE DEF d
  <2>3. proc' = [proc EXCEPT ![p].pc = "publish", ![p].effects = e, ![p].draft = c, ![p].left = l]
    <3> HIDE DEF o, i, l
    <3> QED
      BY <2>1, <2>2 DEF StopService, l
  <2>4. [proc EXCEPT ![p].pc = "publish", ![p].effects = e, ![p].draft = c, ![p].left = l]
          = [proc EXCEPT ![p] = [x EXCEPT !.pc = "publish", !.effects = e, !.draft = c, !.left = l]]
    OBVIOUS
  <2>5. [x EXCEPT !.pc = "publish", !.effects = e, !.draft = c, !.left = l]
          = Remade(x, "publish", x.todo, e, c, l)
    BY Process_ DEF Process, Remade
  <2> QED
    BY <2>1, <2>3, <2>4, <2>5
<1>6. l \in Seq(Records) /\ "publish" \in Pcs
  BY Tuples DEF Records, Pcs
<1> HIDE DEF d
<1>7. PICK y \in Process : Becomes(p, y, "publish", x.todo, Proven(x.effects), d, l)
  BY <1>4, <1>5, <1>6, Operands, Remake
<1> QED
  BY <1>1, <1>2, <1>4, <1>7

LEMMA PurgeBecomes ==
    ASSUME Typed, NEW p \in Procs, PurgeDone(p)
    PROVE  \E y \in Process, d \in Disk :
             /\ Becomes(p, y, "publish", proc[p].todo, proc[p].effects, d, <<"own", "inst">>)
             /\ proc[p].pc = "remove" /\ proc[p].command = "purge" /\ proc[p].todo = {}
             /\ d.own = proc[p].draft.own
             /\ OutTyped /\ Quiet /\ UNCHANGED <<disk, world, touched>>
<1> DEFINE x == proc[p]
           i == [x.draft.inst EXCEPT !.status = "purged"]
           d == [x.draft EXCEPT !.inst = i]
           l == <<"own", "inst">>
<1>1. x.pc = "remove" /\ x.command = "purge" /\ x.todo = {}
      /\ UNCHANGED <<disk, world, keys, touched>> /\ Quiet
  BY DEF PurgeDone, Quiet, ghosts, outside
<1>2. OutTyped
  BY <1>1, Process_ DEF OutTyped
<1>3. x.draft \in Disk /\ i \in [status : Statuses, selected : SUBSET Clients]
  BY Operands, DiskFields DEF Statuses
<1>4. d \in Disk /\ d.own = x.draft.own
  <2> HIDE DEF i
  <2> QED
    BY <1>3, DiskInst DEF Disk
<1>5. proc' = [proc EXCEPT ![p] = Remade(x, "publish", x.todo, x.effects, d, l)]
  <2>2. proc' = [proc EXCEPT ![p].pc = "publish", ![p].draft.inst.status = "purged", ![p].left = l]
    BY DEF PurgeDone
  <2>3. [proc EXCEPT ![p].pc = "publish", ![p].draft.inst.status = "purged", ![p].left = l]
          = [proc EXCEPT ![p] = [x EXCEPT !.pc = "publish", !.draft = d, !.left = l]]
    OBVIOUS
  <2> HIDE DEF d, l
  <2>5. [x EXCEPT !.pc = "publish", !.draft = d, !.left = l]
          = Remade(x, "publish", x.todo, x.effects, d, l)
    BY Process_ DEF Process, Remade
  <2> QED
    BY <2>2, <2>3, <2>5
<1>6. l \in Seq(Records) /\ "publish" \in Pcs
  BY Tuples DEF Records, Pcs
<1> HIDE DEF d
<1>7. PICK y \in Process : Becomes(p, y, "publish", x.todo, x.effects, d, l)
  BY <1>4, <1>5, <1>6, Operands, Remake
<1> QED
  BY <1>1, <1>2, <1>4, <1>7

LEMMA ClientBecomes ==
    ASSUME Typed, NEW p \in Procs, ClientDone(p)
    PROVE  \E y \in Process :
             \/ Failing(p, y)
             \/ \E d \in Disk :
                  /\ Becomes(p, y, "publish", proc[p].todo, proc[p].effects, d,
                             <<"own", "integ", "bridge", "inst">>)
                  /\ proc[p].pc = "remove" /\ proc[p].command = "client-uninstall" /\ proc[p].todo = {}
                  /\ d.own = proc[p].draft.own
                  /\ OutTyped /\ Quiet /\ UNCHANGED <<disk, world, touched>>
<1> DEFINE x == proc[p]
           c == x.client
           selected == x.seen.inst.selected \ {c}
           n == [disk.integ EXCEPT ![c] = CASE @ = "verified" -> "removed"
                                            [] @ = "external-verified" -> "retained-external"
                                            [] OTHER -> @]
           i == [selected |-> selected, status |->
                    IF selected = {} THEN "service-ready" ELSE "complete"]
           d == [[[x.draft EXCEPT !.integ = n] EXCEPT !.bridge[c] = 0] EXCEPT !.inst = i]
           l == <<"own", "integ", "bridge", "inst">>
           Integs == {"none", "verified", "external-verified", "removed", "retained-external"}
<1>1. x.pc = "remove" /\ x.command = "client-uninstall" /\ x.todo = {}
      /\ UNCHANGED <<disk, world, keys, touched>> /\ Quiet
  BY DEF ClientDone, Quiet, ghosts, outside
<1>2. OutTyped /\ x.pc \notin Free
  BY <1>1, Process_ DEF OutTyped, Free
<1>3. CASE Unproven(p, "failed")
  BY <1>1, <1>2, <1>3, GiveUp
<1>4. CASE disk.integ[c] \in {"none", "verified", "external-verified"}
  <2>1. x.draft \in Disk /\ disk \in Disk /\ x.seen \in Disk
    BY Operands, Process_, ProcessFields
  <2>2. n \in [Clients -> Integs] /\ i \in [status : Statuses, selected : SUBSET Clients]
    <3>1. disk.integ \in [Clients -> Integs] /\ x.seen.inst.selected \subseteq Clients
      BY <2>1, DiskFields
    <3>2. n \in [Clients -> Integs]
      BY <3>1
    <3>3. i \in [status : Statuses, selected : SUBSET Clients]
      BY <3>1 DEF Statuses
    <3> QED
      BY <3>2, <3>3
  <2>3. d \in Disk /\ d.own = x.draft.own
    <3> HIDE DEF n, i
    <3>1. [x.draft EXCEPT !.integ = n] \in Disk
      BY <2>1, <2>2, DiskInteg
    <3>2. [[x.draft EXCEPT !.integ = n] EXCEPT !.bridge[c] = 0] \in Disk
      BY <3>1, KeyZero, DiskBridgeAt
    <3>3. d \in Disk
      BY <2>2, <3>2, DiskInst
    <3>4. d.own = x.draft.own
      BY <2>1 DEF Disk
    <3> QED
      BY <3>3, <3>4
  <2>4. proc' = [proc EXCEPT ![p] = Remade(x, "publish", x.todo, x.effects, d, l)]
    <3>1. PICK e : e = d
      OBVIOUS
    <3>2. d = [x.draft EXCEPT !.integ = n, !.bridge[c] = 0, !.inst = i]
      OBVIOUS
    <3> HIDE DEF d
    <3>3. proc' = [proc EXCEPT ![p].pc = "publish", ![p].draft = e, ![p].left = l]
      BY <1>4, <3>1, <3>2 DEF ClientDone
    <3>4. [proc EXCEPT ![p].pc = "publish", ![p].draft = e, ![p].left = l]
            = [proc EXCEPT ![p] = [x EXCEPT !.pc = "publish", !.draft = e, !.left = l]]
      OBVIOUS
    <3>5. [x EXCEPT !.pc = "publish", !.draft = e, !.left = l]
            = Remade(x, "publish", x.todo, x.effects, e, l)
      BY Process_ DEF Process, Remade
    <3> QED
      BY <3>1, <3>3, <3>4, <3>5
  <2>5. l \in Seq(Records) /\ "publish" \in Pcs
    BY Tuples DEF Records, Pcs
  <2> HIDE DEF d
  <2>6. PICK y \in Process : Becomes(p, y, "publish", x.todo, x.effects, d, l)
    BY <2>3, <2>4, <2>5, Operands, Remake
  <2> QED
    BY <1>1, <1>2, <2>3, <2>6
<1> QED
  BY <1>3, <1>4 DEF ClientDone

LEMMA RepairBecomes ==
    ASSUME Typed, NEW p \in Procs, RepairDone(p)
    PROVE  /\ proc[p].pc = "restore" /\ proc[p].todo = {}
           /\ OutTyped /\ Quiet /\ UNCHANGED <<disk, world, touched>>
           /\ \E y \in Process :
                \/ /\ Becomes(p, y, "commit", proc[p].todo, proc[p].effects, proc[p].draft, <<>>)
                   /\ proc[p].draft.own = proc[p].seen.own
                \/ /\ Becomes(p, y, "publish", proc[p].todo, proc[p].effects, proc[p].draft, <<"own">>)
                   /\ proc[p].draft.own # proc[p].seen.own
<1> DEFINE x == proc[p]
<1>1. x.pc = "restore" /\ x.todo = {} /\ UNCHANGED <<disk, world, keys, touched>> /\ Quiet
  BY DEF RepairDone, Quiet, ghosts, outside
<1>2. OutTyped
  BY <1>1, Process_ DEF OutTyped
<1>3. ASSUME NEW pc, NEW l, proc' = [proc EXCEPT ![p].pc = pc, ![p].left = l]
      PROVE  proc' = [proc EXCEPT ![p] = Remade(x, pc, x.todo, x.effects, x.draft, l)]
  <2>1. proc' = [proc EXCEPT ![p] = [x EXCEPT !.pc = pc, !.left = l]]
    BY <1>3
  <2>2. [x EXCEPT !.pc = pc, !.left = l] = Remade(x, pc, x.todo, x.effects, x.draft, l)
    BY Process_ DEF Process, Remade
  <2> QED
    BY <2>1, <2>2
<1>4. "commit" \in Pcs /\ "publish" \in Pcs /\ <<>> \in Seq(Records) /\ <<"own">> \in Seq(Records)
  BY Tuples DEF Records, Pcs
<1>5. CASE x.draft.own = x.seen.own
  <2>1. proc' = [proc EXCEPT ![p].pc = "commit", ![p].left = <<>>]
    BY <1>5 DEF RepairDone
  <2>2. proc' = [proc EXCEPT ![p] = Remade(x, "commit", x.todo, x.effects, x.draft, <<>>)]
    BY <1>3, <2>1
  <2>3. PICK y \in Process : Becomes(p, y, "commit", x.todo, x.effects, x.draft, <<>>)
    BY <1>4, <2>2, Operands, Remake
  <2> QED
    BY <1>1, <1>2, <1>5, <2>3
<1>6. CASE x.draft.own # x.seen.own
  <2>1. proc' = [proc EXCEPT ![p].pc = "publish", ![p].left = <<"own">>]
    BY <1>6 DEF RepairDone
  <2>2. proc' = [proc EXCEPT ![p] = Remade(x, "publish", x.todo, x.effects, x.draft, <<"own">>)]
    BY <1>3, <2>1
  <2>3. PICK y \in Process : Becomes(p, y, "publish", x.todo, x.effects, x.draft, <<"own">>)
    BY <1>4, <2>2, Operands, Remake
  <2> QED
    BY <1>1, <1>2, <1>6, <2>3
<1> QED
  BY <1>5, <1>6

LEMMA AcquireTyped ==
    ASSUME Typed, NEW p \in Procs, Acquire(p)
    PROVE  /\ Typed' /\ UNCHANGED <<disk, world, touched, trouble>> /\ holder = None
           /\ proc[p].pc = "previewed"
           /\ \E y \in Process :
                Becomes(p, y, "check", proc[p].todo, proc[p].effects, proc[p].draft, proc[p].left)
<1>1. /\ proc[p].pc = "previewed" /\ holder = None /\ holder' = p /\ trouble' = trouble
      /\ UNCHANGED ghosts /\ UNCHANGED <<disk, world, keys, touched>> /\ Goto(p, "check")
  BY DEF Acquire, outside, ghosts
<1>2. "check" \in Pcs /\ ShapeOK(proc[p]) /\ OutTyped
  BY <1>1, Process_ DEF Pcs, OutTyped
<1>3. PICK y \in Process :
        Becomes(p, y, "check", proc[p].todo, proc[p].effects, proc[p].draft, proc[p].left)
  BY <1>1, <1>2, GotoBecomes
<1>4. ShapeOK(y) /\ y.pc \notin Free
  BY <1>1, <1>2, <1>3 DEF Becomes, Follows, ShapeOK, InClient, SetupPcs, Free
<1>5. trouble' \in {"none", "reported", "interrupted"}
  BY <1>1 DEF Typed, TypeOK
<1>6. Typed'
  BY <1>1, <1>2, <1>3, <1>4, <1>5, MoveTyped DEF Becomes
<1> QED
  BY <1>1, <1>3, <1>6

LEMMA IdleShape == ShapeOK(Idle) /\ Idle.pc = "idle"
BY DEF Idle, ShapeOK, InClient, SetupPcs

LEMMA LockRefusedTyped ==
    ASSUME Typed, NEW p \in Procs, LockRefused(p)
    PROVE  /\ Typed' /\ proc' = [proc EXCEPT ![p] = Idle] /\ proc[p].pc = "previewed"
           /\ UNCHANGED <<disk, world, touched, holder, trouble>>
<1>1. /\ proc[p].pc \in Free /\ holder' = holder /\ trouble' = trouble /\ UNCHANGED ghosts
      /\ proc' = [proc EXCEPT ![p] = Idle] /\ OutTyped
  BY Process_ DEF LockRefused, outside, Free, OutTyped
<1>2. trouble' \in {"none", "reported", "interrupted"}
  BY <1>1 DEF Typed, TypeOK
<1>3. Idle.pc \in Free
  BY IdleShape DEF Free
<1> HIDE DEF Idle
<1>4. Typed'
  BY <1>1, <1>2, <1>3, IdleType, IdleShape, MoveTyped
<1>5. proc[p].pc = "previewed" /\ UNCHANGED <<disk, world, touched, holder, trouble>>
  BY DEF LockRefused, outside, ghosts
<1> QED
  BY <1>1, <1>4, <1>5

\* The command is over.
Ends(p) ==
    /\ proc[p].pc \notin Free /\ holder' = None /\ proc' = [proc EXCEPT ![p] = Idle]
    /\ UNCHANGED <<disk, world, touched>>

LEMMA EndTyped ==
    ASSUME Typed, NEW p \in Procs, Commit(p) \/ Failed(p) \/ Crash(p)
    PROVE  Typed' /\ Ends(p)
<1>1. proc[p].pc \notin Free
  <2>1. CASE Commit(p) \/ Failed(p)
    BY <2>1 DEF Commit, Failed, Free
  <2>2. CASE Crash(p)
    BY <2>2, NobodyAssumption DEF Crash, Typed, LockOK
  <2> QED
    BY <2>1, <2>2
<1>2. /\ holder' = None /\ proc' = [proc EXCEPT ![p] = Idle]
      /\ trouble' \in {"none", "reported", "interrupted"}
  BY DEF Commit, Failed, Crash, End
<1>3. /\ UNCHANGED <<disk, world, keys>>
      /\ UNCHANGED ghosts \/ Fault
      /\ touched' = touched
  BY DEF Commit, Failed, Crash, outside, ghosts, Fault
<1>4. OutTyped
  BY <1>3, Process_ DEF OutTyped
<1>5. Idle.pc \in Free
  BY IdleShape DEF Free
<1> HIDE DEF Idle
<1>6. Typed'
  BY <1>1, <1>2, <1>3, <1>4, <1>5, IdleType, IdleShape, MoveTyped
<1> QED
  BY <1>1, <1>2, <1>3, <1>6 DEF Ends

LEMMA PreviewBecomes ==
    ASSUME Typed, NEW p \in Procs, Preview(p)
    PROVE  /\ Typed' /\ UNCHANGED <<disk, world, touched, holder, trouble>>
           /\ \E y \in Process, command \in Commands \ {"setup"}, c \in Clients :
                /\ proc' = [proc EXCEPT ![p] = y] /\ proc[p].pc = "idle" /\ y.pc = "previewed"
                /\ y.command = command /\ y.todo = Planned(command, c) /\ y.seen = disk
                /\ command = "client-uninstall" => y.client = c
                /\ y.draft = disk /\ y.effects = "none" /\ y.broken = FALSE /\ y.result = "success"
<1>1. PICK command \in Commands \ {"setup"}, c \in Clients :
        proc' = [proc EXCEPT ![p] =
                [Idle EXCEPT !.pc = "previewed", !.command = command,
                    !.client = IF command = "client-uninstall" THEN c ELSE None,
                    !.todo = Planned(command, c), !.current = {"inst", "own"},
                    !.seen = disk, !.draft = disk,
                    !.look = IF command = "client-uninstall"
                             THEN [k \in {"mcp", "plugin"} |-> world[<<c, k>>]] ELSE @]]
  BY DEF Preview
<1> DEFINE client == IF command = "client-uninstall" THEN c ELSE None
           todo == Planned(command, c)
           look == IF command = "client-uninstall"
                   THEN [k \in {"mcp", "plugin"} |-> world[<<c, k>>]] ELSE Idle.look
           y == [Idle EXCEPT !.pc = "previewed", !.command = command, !.client = client,
                    !.todo = todo, !.current = {"inst", "own"}, !.seen = disk, !.draft = disk,
                    !.look = look]
<1>2. /\ proc[p].pc = "idle" /\ UNCHANGED <<disk, world, keys, touched, holder, trouble>>
      /\ UNCHANGED ghosts
  BY DEF Preview, outside, ghosts
<1>3. todo \in SUBSET Assets
  <2>1. Mcp(c) \in Assets /\ Plugin(c) \in Assets /\ Credential(c) \in Assets
        /\ Service \in Assets /\ Profiles \subseteq Assets
    BY NamesDiffer DEF Assets, Things
  <2> QED
    BY <2>1 DEF Planned, Held, Kept, Commands
<1>4. look \in [{"mcp", "plugin"} -> Conditions]
  <2>1. Idle.look \in [{"mcp", "plugin"} -> Conditions]
    BY IdleType, ProcessFields
  <2>2. \A k \in {"mcp", "plugin"} : <<c, k>> \in Things
    BY NamesDiffer DEF Mcp, Plugin
  <2>3. \A k \in {"mcp", "plugin"} : world[<<c, k>>] \in Conditions
    BY <2>2, Process_
  <2> HIDE DEF Idle, Conditions
  <2> QED
    BY <2>1, <2>3
<1>5. client \in Clients \cup {None} /\ (command = "client-uninstall" => client = c)
  OBVIOUS
<1>6. "previewed" \in Pcs /\ {"inst", "own"} \in SUBSET {"inst", "own"} /\ disk \in Disk
      /\ command \in Commands
  BY Process_ DEF Pcs
<1>7. proc' = [proc EXCEPT ![p] = y]
  BY <1>1
<1> HIDE DEF client, todo, look
<1>8. y \in Process
  BY <1>3, <1>4, <1>5, <1>6, IdleType, ZenonT(60) DEF Process
<1>9. /\ y.pc = "previewed" /\ y.command = command /\ y.client = client /\ y.todo = todo
      /\ y.seen = disk /\ y.draft = disk /\ y.effects = "none" /\ y.broken = FALSE
      /\ y.result = "success"
  BY DEF Idle
<1> HIDE DEF y
<1>10. ShapeOK(y) /\ y.pc \in Free /\ proc[p].pc \in Free
  BY <1>2, <1>9 DEF ShapeOK, InClient, SetupPcs, Free
<1>11. OutTyped
  BY <1>2, Process_ DEF OutTyped
<1>12. trouble' \in {"none", "reported", "interrupted"}
  BY <1>2 DEF Typed, TypeOK
<1>13. Typed'
  BY <1>2, <1>7, <1>8, <1>10, <1>11, <1>12, MoveTyped
<1> QED
  BY <1>2, <1>5, <1>7, <1>8, <1>9, <1>13 DEF todo

LEMMA ManyTyped ==
    ASSUME Typed, proc' \in [Procs -> Process],
           \A q \in Procs : ShapeOK(proc[q])' /\ (proc'[q].pc \in Free <=> proc[q].pc \in Free),
           OutTyped, holder' = holder, trouble' = trouble,
           touched' \in SUBSET Things, faults' \in 0 .. MaxMishaps
    PROVE  Typed'
<1>1. TypeOK /\ LockOK
  BY DEF Typed
<1>2. TypeOK'
  BY <1>1 DEF TypeOK, OutTyped, Keys
<1>3. LockOK'
  BY <1>1, NobodyAssumption DEF LockOK, TypeOK
<1> QED
  BY <1>2, <1>3 DEF Typed

\* Who has a preview that is out of date.
LEMMA StaleType ==
    ASSUME Typed, NEW p \in Procs, NEW r \in Records
    PROVE  /\ Stale(p, r) \in [Procs -> Process]
           /\ Stale(p, r)[p] = proc[p]
           /\ \A q \in Procs : ShapeOK(Stale(p, r)[q])
           /\ \A q \in Procs :
                \/ Stale(p, r)[q] = proc[q] /\ (proc[q].pc # "previewed" \/ r \notin {"inst", "own"} \/ q = p)
                \/ /\ Stale(p, r)[q].pc = "previewed" /\ proc[q].pc = "previewed"
                   /\ \/ /\ Stale(p, r)[q].effects = "none" /\ ~Stale(p, r)[q].broken
                         /\ Stale(p, r)[q].result = "success"
                      \/ /\ Stale(p, r)[q].effects = proc[q].effects
                         /\ Stale(p, r)[q].broken = proc[q].broken
                         /\ Stale(p, r)[q].result = proc[q].result
                   /\ \/ /\ Stale(p, r)[q].current = {}
                         /\ Stale(p, r)[q].draft = NoRecords /\ Stale(p, r)[q].seen = NoRecords
                         /\ Stale(p, r)[q].todo = {} \/ Stale(p, r)[q].command = "repair"
                      \/ /\ r = "inst"
                         /\ Stale(p, r)[q].current \subseteq proc[q].current
                         /\ Stale(p, r)[q].draft = proc[q].draft /\ Stale(p, r)[q].seen = proc[q].seen
                         /\ Stale(p, r)[q].todo = proc[q].todo
                         /\ Stale(p, r)[q].command = proc[q].command
<1> DEFINE old(q) == [Idle EXCEPT !.pc = "previewed", !.command = proc[q].command,
                          !.todo = IF proc[q].command = "repair" THEN proc[q].todo ELSE {}]
           thin(q) == [proc[q] EXCEPT !.current = @ \ {"inst"}]
           s == Stale(p, r)
<1>1. \A q \in Procs : s[q] = IF q = p \/ proc[q].pc # "previewed" \/ r \notin {"inst", "own"} THEN proc[q]
        ELSE IF r = "own" \/ proc[q].command \in {"uninstall", "purge"} THEN old(q) ELSE thin(q)
  BY DEF Stale
<1>2. s = [q \in Procs |-> s[q]]
  BY DEF Stale
<1>3. ASSUME NEW q \in Procs, proc[q].pc = "previewed"
      PROVE  /\ old(q) \in Process /\ ShapeOK(old(q)) /\ old(q).pc = "previewed"
             /\ old(q).current = {} /\ old(q).draft = NoRecords /\ old(q).seen = NoRecords
             /\ old(q).todo = {} \/ old(q).command = "repair"
             /\ old(q).effects = "none" /\ ~old(q).broken /\ old(q).result = "success"
  <2> DEFINE todo == IF proc[q].command = "repair" THEN proc[q].todo ELSE {}
             y == [Idle EXCEPT !.pc = "previewed", !.command = proc[q].command, !.todo = todo]
  <2>1. proc[q] \in Process /\ ShapeOK(proc[q])
    BY Process_
  <2>2. proc[q].command \in Commands /\ todo \in SUBSET Assets /\ "previewed" \in Pcs
    BY <2>1, ProcessFields DEF Pcs
  <2>3. proc[q].command # "setup"
    BY <1>3, <2>1 DEF ShapeOK
  <2>7. todo = {} \/ proc[q].command = "repair"
    OBVIOUS
  <2> HIDE DEF todo
  <2>4. y \in Process
    BY <2>2, IdleType, ZenonT(60) DEF Process
  <2>5. /\ y.pc = "previewed" /\ y.command = proc[q].command /\ y.current = {}
        /\ y.draft = NoRecords /\ y.seen = NoRecords /\ y.todo = todo
        /\ y.effects = "none" /\ y.broken = FALSE /\ y.result = "success"
    BY DEF Idle
  <2>6. ShapeOK(y)
    BY <2>3, <2>5 DEF ShapeOK, InClient, SetupPcs
  <2>8. y = old(q)
    BY DEF todo
  <2> HIDE DEF y, old
  <2> QED
    BY <2>4, <2>5, <2>6, <2>7, <2>8
<1>4. ASSUME NEW q \in Procs, proc[q].pc = "previewed"
      PROVE  /\ thin(q) \in Process /\ ShapeOK(thin(q)) /\ thin(q).pc = "previewed"
             /\ thin(q).current \subseteq proc[q].current
             /\ thin(q).draft = proc[q].draft /\ thin(q).seen = proc[q].seen
             /\ thin(q).todo = proc[q].todo /\ thin(q).command = proc[q].command
             /\ thin(q).effects = proc[q].effects /\ thin(q).broken = proc[q].broken
             /\ thin(q).result = proc[q].result
  <2> DEFINE x == proc[q]
             c == x.current \ {"inst"}
             y == [x EXCEPT !.current = c]
  <2>1. x \in Process /\ ShapeOK(x) /\ c \in SUBSET {"inst", "own"} /\ c \subseteq x.current
    BY Process_, ProcessFields
  <2> HIDE DEF c
  <2>2. y \in Process
    BY <2>1, ZenonT(60) DEF Process
  <2>3. /\ y.pc = "previewed" /\ y.command = x.command /\ y.current = c /\ y.draft = x.draft
        /\ y.seen = x.seen /\ y.todo = x.todo /\ y.client = x.client /\ y.left = x.left
        /\ y.effects = x.effects /\ y.broken = x.broken /\ y.result = x.result
    BY <1>4, <2>1 DEF Process
  <2>4. ShapeOK(y)
    BY <1>4, <2>1, <2>3 DEF ShapeOK
  <2>5. thin(q) = y
    BY DEF c
  <2> HIDE DEF y
  <2> QED
    BY <1>4, <2>1, <2>2, <2>3, <2>4, <2>5
<1> HIDE DEF old, thin
<1>5. \A q \in Procs : s[q] \in Process /\ ShapeOK(s[q])
  BY <1>1, <1>3, <1>4, Process_
<1> HIDE DEF s
<1>6. s \in [Procs -> Process]
  BY <1>2, <1>5
<1>7. ASSUME NEW q \in Procs
      PROVE  \/ s[q] = proc[q] /\ (proc[q].pc # "previewed" \/ r \notin {"inst", "own"} \/ q = p)
             \/ /\ s[q].pc = "previewed" /\ proc[q].pc = "previewed"
                /\ \/ s[q].effects = "none" /\ ~s[q].broken /\ s[q].result = "success"
                   \/ /\ s[q].effects = proc[q].effects /\ s[q].broken = proc[q].broken
                      /\ s[q].result = proc[q].result
                /\ \/ /\ s[q].current = {} /\ s[q].draft = NoRecords /\ s[q].seen = NoRecords
                      /\ s[q].todo = {} \/ s[q].command = "repair"
                   \/ /\ r = "inst"
                      /\ s[q].current \subseteq proc[q].current
                      /\ s[q].draft = proc[q].draft /\ s[q].seen = proc[q].seen
                      /\ s[q].todo = proc[q].todo /\ s[q].command = proc[q].command
  <2>1. CASE q = p \/ proc[q].pc # "previewed" \/ r \notin {"inst", "own"}
    BY <1>1, <2>1
  <2>2. CASE ~(q = p \/ proc[q].pc # "previewed" \/ r \notin {"inst", "own"})
    <3>1. proc[q].pc = "previewed" /\ r \in {"inst", "own"}
      BY <2>2
    <3>2. s[q] = old(q) \/ (r = "inst" /\ s[q] = thin(q))
      BY <1>1, <2>2
    <3> QED
      BY <1>3, <1>4, <3>1, <3>2
  <2> QED
    BY <2>1, <2>2
<1>8. s[p] = proc[p]
  BY <1>1
<1> QED
  BY <1>5, <1>6, <1>7, <1>8 DEF s

LEMMA StaleTyped ==
    ASSUME Typed, NEW p \in Procs, NEW r \in Records, NEW y \in Process, ShapeOK(y),
           proc[p].pc \notin Free, y.pc \notin Free, proc' = [Stale(p, r) EXCEPT ![p] = y],
           OutTyped, Quiet
    PROVE  Typed'
<1>1. Stale(p, r) \in [Procs -> Process]
  BY StaleType
<1>2. \A q \in Procs : ShapeOK(Stale(p, r)[q]) /\ (Stale(p, r)[q].pc \in Free <=> proc[q].pc \in Free)
  BY StaleType DEF Free
<1>3. proc' \in [Procs -> Process]
  BY <1>1
<1>4. \A q \in Procs : proc'[q] = IF q = p THEN y ELSE Stale(p, r)[q]
  BY <1>1
<1>5. \A q \in Procs : ShapeOK(proc'[q]) /\ (proc'[q].pc \in Free <=> proc[q].pc \in Free)
  BY <1>2, <1>4
<1>6. \A q \in Procs : ShapeOK(proc[q])'
  BY <1>5 DEF ShapeOK
<1>7. TypeOK
  BY DEF Typed
<1>8. touched' \in SUBSET Things /\ faults' \in 0 .. MaxMishaps
  BY <1>7, FaultTyped DEF Quiet, TypeOK, ghosts
<1> QED
  BY <1>3, <1>5, <1>6, <1>8, ManyTyped DEF Quiet

LEMMA WrittenType ==
    ASSUME Typed, NEW p \in Procs, NEW r \in Records
    PROVE  Written(p, r) \in Disk
           /\ (r # "own" => Written(p, r).own = disk.own)
           /\ (r = "own" => Written(p, r).own = proc[p].draft.own)
<1>1. disk \in Disk /\ proc[p].draft \in Disk
  BY Process_, Operands
<1>2. Written(p, r) \in Disk
  BY <1>1, DiskRecord DEF Written
<1> QED
  BY <1>1, <1>2 DEF Written, Disk

LEMMA PublishBecomes ==
    ASSUME Typed, NEW p \in Procs, Publish(p)
    PROVE  /\ Typed' /\ Quiet /\ UNCHANGED <<world, touched>>
           /\ proc[p].pc = "publish" /\ proc[p].left \in Lists /\ Head(proc[p].left) \in Records
           /\ disk' = Written(p, Head(proc[p].left))
           /\ \E y \in Process :
                /\ proc' = [Stale(p, Head(proc[p].left)) EXCEPT ![p] = y] /\ Follows(proc[p], y)
                /\ y.draft = proc[p].draft /\ y.effects = Proven(proc[p].effects)
                /\ \/ Len(proc[p].left) = 1 /\ y.pc = "commit"
                   \/ Len(proc[p].left) # 1 /\ y.pc = "publish" /\ y.left = Tail(proc[p].left)
<1> DEFINE x == proc[p]
           r == Head(x.left)
           pc == IF Len(x.left) = 1 THEN "commit" ELSE "publish"
           y == Remade(x, pc, x.todo, Proven(x.effects), x.draft, Tail(x.left))
<1>1. /\ x \in Process /\ ShapeOK(x) /\ x.pc = "publish" /\ disk' = Written(p, r) /\ Quiet
      /\ UNCHANGED <<world, keys, touched>>
  BY Process_ DEF Publish, Quiet, outside, ghosts
<1>2. /\ x.left \in Lists /\ r \in Records /\ Tail(x.left) \in Seq(Records)
      /\ Len(x.left) = 1 \/ Tail(x.left) \in Lists
  BY <1>1, ListFacts DEF ShapeOK
<1>3. OutTyped
  BY <1>1, <1>2, WrittenType, Process_ DEF OutTyped
<1>4. proc' = [Stale(p, r) EXCEPT ![p] = y]
  <2>1. PICK s, t, e, c : s = Stale(p, r) /\ t = Tail(x.left) /\ e = Proven(x.effects) /\ c = pc
    OBVIOUS
  <2>2. s[p] = x /\ s \in [Procs -> Process]
    BY <1>2, <2>1, StaleType
  <2>3. proc' = [s EXCEPT ![p].left = t, ![p].pc = c, ![p].effects = e]
    BY <2>1, <2>2 DEF Publish
  <2>4. [s EXCEPT ![p].left = t, ![p].pc = c, ![p].effects = e]
          = [s EXCEPT ![p] = [x EXCEPT !.left = t, !.pc = c, !.effects = e]]
    BY <2>2
  <2>5. [x EXCEPT !.left = t, !.pc = c, !.effects = e] = Remade(x, c, x.todo, e, x.draft, t)
    BY <1>1 DEF Process, Remade
  <2> QED
    BY <2>1, <2>3, <2>4, <2>5
<1>5. pc \in {"commit", "publish"}
  OBVIOUS
<1>6. y \in Process /\ Follows(x, y) /\ y.pc = pc /\ y.draft = x.draft
      /\ y.effects = Proven(x.effects) /\ y.left = Tail(x.left)
  <2>1. pc \in Pcs /\ x.todo \in SUBSET Assets /\ Proven(x.effects) \in {"none", "proven", "unproven"}
        /\ x.draft \in Disk /\ Tail(x.left) \in Seq({"inst", "own", "ext", "integ", "bridge"})
    BY <1>2, <1>5, Operands DEF Pcs, Effects, Records
  <2> HIDE DEF pc
  <2>2. y \in Process
    BY <1>1, <2>1, ZenonT(60) DEF Process, Remade
  <2>3. Follows(x, y) /\ y.pc = pc /\ y.draft = x.draft
        /\ y.effects = Proven(x.effects) /\ y.left = Tail(x.left)
    BY <1>1 DEF Process, Remade, Follows
  <2> QED
    BY <2>2, <2>3
<1> HIDE DEF y
<1>7. ShapeOK(y) /\ y.pc \notin Free /\ x.pc \notin Free
  BY <1>1, <1>2, <1>5, <1>6 DEF ShapeOK, InClient, SetupPcs, Free
<1>8. Typed'
  <2>1. PICK s : s = r
    OBVIOUS
  <2> HIDE DEF r
  <2> QED
    BY <1>1, <1>2, <1>3, <1>4, <1>6, <1>7, <2>1, StaleTyped
<1> QED
  BY <1>1, <1>2, <1>4, <1>6, <1>8

LEMMA PublishFailsBecomes ==
    ASSUME Typed, NEW p \in Procs, PublishFails(p)
    PROVE  /\ Typed' /\ Quiet /\ UNCHANGED <<world, touched>>
           /\ proc[p].pc = "publish" /\ proc[p].left \in Lists /\ Head(proc[p].left) \in Records
           /\ \E y \in Process :
                \/ Failing(p, y) /\ disk' = disk
                \/ /\ disk' = Written(p, Head(proc[p].left))
                   /\ proc' = [Stale(p, Head(proc[p].left)) EXCEPT ![p] = y] /\ Follows(proc[p], y)
                   /\ y.effects = "unproven" /\ y.pc = "failed"
<1> DEFINE x == proc[p]
           r == Head(x.left)
           y == Remade(x, "failed", x.todo, "unproven", x.draft, x.left)
<1>1. /\ x \in Process /\ ShapeOK(x) /\ x.pc = "publish" /\ Quiet
      /\ UNCHANGED <<world, keys, touched>>
  BY Process_ DEF PublishFails, Quiet, outside, Fault
<1>2. x.left \in Lists /\ r \in Records
  BY <1>1, ListFacts DEF ShapeOK
<1>3. CASE UNCHANGED disk /\ Unproven(p, "failed")
  <2>1. OutTyped /\ x.pc \notin Free
    BY <1>1, <1>3, Process_ DEF OutTyped, Free
  <2>2. PICK z \in Process : Failing(p, z)
    BY <1>1, <1>3, <2>1, GiveUp
  <2> QED
    BY <1>1, <1>2, <1>3, <2>2, FailTyped
<1>4. CASE /\ disk' = Written(p, r)
           /\ proc' = [Stale(p, r) EXCEPT ![p].pc = "failed", ![p].effects = "unproven"]
  <2>1. OutTyped
    BY <1>1, <1>2, <1>4, WrittenType, Process_ DEF OutTyped
  <2>2. proc' = [Stale(p, r) EXCEPT ![p] = y]
    <3>1. PICK s : s = Stale(p, r)
      OBVIOUS
    <3>2. s[p] = x /\ s \in [Procs -> Process]
      BY <1>2, <3>1, StaleType
    <3>3. proc' = [s EXCEPT ![p].pc = "failed", ![p].effects = "unproven"]
      BY <1>4, <3>1
    <3>4. [s EXCEPT ![p].pc = "failed", ![p].effects = "unproven"]
            = [s EXCEPT ![p] = [x EXCEPT !.pc = "failed", !.effects = "unproven"]]
      BY <3>2
    <3>5. [x EXCEPT !.pc = "failed", !.effects = "unproven"] = y
      BY <1>1 DEF Process, Remade
    <3> QED
      BY <3>1, <3>3, <3>4, <3>5
  <2>3. y \in Process /\ Follows(x, y) /\ y.pc = "failed" /\ y.effects = "unproven"
    <3>1. /\ "failed" \in Pcs /\ x.todo \in SUBSET Assets /\ "unproven" \in {"none", "proven", "unproven"}
          /\ x.draft \in Disk /\ x.left \in Seq({"inst", "own", "ext", "integ", "bridge"})
      BY Operands DEF Pcs, Records
    <3>2. y \in Process
      BY <1>1, <3>1, ZenonT(60) DEF Process, Remade
    <3>3. Follows(x, y) /\ y.pc = "failed" /\ y.effects = "unproven"
      BY <1>1 DEF Process, Remade, Follows
    <3> QED
      BY <3>2, <3>3
  <2> HIDE DEF y
  <2>4. ShapeOK(y) /\ y.pc \notin Free /\ x.pc \notin Free
    BY <1>1, <2>3 DEF ShapeOK, InClient, SetupPcs, Free
  <2>5. Typed'
    <3>1. PICK s : s = r
      OBVIOUS
    <3> HIDE DEF r
    <3> QED
      BY <1>1, <1>2, <2>1, <2>2, <2>3, <2>4, <3>1, StaleTyped
  <2> QED
    BY <1>1, <1>2, <1>4, <2>2, <2>3, <2>5
<1> QED
  BY <1>3, <1>4 DEF PublishFails

\* The user's step is seen by a process only as a profile that is not as it was left.
LEMMA MeddleBecomes ==
    ASSUME Typed, Meddle
    PROVE  /\ Typed' /\ UNCHANGED <<disk, holder, trouble>>
           /\ \E a \in Profiles \cup {Service}, v \in Conditions :
                 touched' = touched \cup {a} /\ world' = [world EXCEPT ![a] = v]
           /\ \A q \in Procs : \E f \in SUBSET {"mcp", "plugin"} :
                 proc'[q] = [proc[q] EXCEPT !.foul = f]
<1>1. PICK a \in Profiles \cup {Service}, v \in Conditions :
        /\ a \in touched \/ Mishaps < MaxMishaps
        /\ touched' = touched \cup {a} /\ world' = [world EXCEPT ![a] = v]
        /\ proc' = [p \in Procs |->
              IF proc[p].client = a[1] /\ a # Service
              THEN [proc[p] EXCEPT !.foul = @ \cup proc[p].posted] ELSE proc[p]]
  <2>1. {"absent", "user", "conflict"} \subseteq Conditions
    BY DEF Conditions
  <2> QED
    BY <2>1 DEF Meddle, Put
<1>2. UNCHANGED <<disk, keys, holder, trouble, faults>>
  BY DEF Meddle
<1>3. ASSUME NEW q \in Procs
      PROVE  /\ \E f \in SUBSET {"mcp", "plugin"} : proc'[q] = [proc[q] EXCEPT !.foul = f]
             /\ proc'[q] \in Process /\ ShapeOK(proc[q])' /\ proc'[q].pc = proc[q].pc
  <2> DEFINE x == proc[q]
             g == x.foul \cup x.posted
             y(f) == [x EXCEPT !.foul = f]
  <2>1. x \in Process /\ ShapeOK(x) /\ x.foul \in SUBSET {"mcp", "plugin"} /\ g \in SUBSET {"mcp", "plugin"}
    BY Process_, ProcessFields
  <2> HIDE DEF g
  <2>2. proc'[q] = y(g) \/ proc'[q] = x
    BY <1>1 DEF g
  <2>3. x = y(x.foul)
    BY <2>1 DEF Process
  <2>4. \A f \in SUBSET {"mcp", "plugin"} :
            /\ y(f).pc = x.pc /\ y(f).client = x.client
            /\ y(f).command = x.command /\ y(f).left = x.left
    BY <2>1 DEF Process
  <2>5. \A f \in SUBSET {"mcp", "plugin"} : y(f) \in Process
    BY <2>1, ZenonT(60) DEF Process
  <2> HIDE DEF y
  <2>6. PICK f \in SUBSET {"mcp", "plugin"} : proc'[q] = y(f)
    BY <2>1, <2>2, <2>3
  <2>7. ShapeOK(proc[q])'
    BY <2>1, <2>4, <2>6 DEF ShapeOK
  <2> QED
    BY <2>4, <2>5, <2>6, <2>7 DEF y
<1>4. proc' \in [Procs -> Process]
  BY <1>1, <1>3
<1>5. OutTyped
  BY <1>1, <1>2, Process_ DEF OutTyped, Typed, TypeOK, Keys
<1>6. touched' \in SUBSET Things /\ faults' \in 0 .. MaxMishaps
  BY <1>1, <1>2, NamesDiffer DEF Typed, TypeOK, Things
<1>7. Typed'
  BY <1>2, <1>3, <1>4, <1>5, <1>6, ManyTyped
<1> QED
  BY <1>1, <1>2, <1>3, <1>7

LEMMA InitTyped == Init => Typed
<1> SUFFICES ASSUME Init PROVE Typed
  OBVIOUS
<1>1. proc = [p \in Procs |-> Idle] /\ disk = NoRecords /\ holder = None
      /\ world = [a \in Things |-> "absent"] /\ touched = {} /\ faults = 0 /\ trouble = "none"
      /\ keys = [issued |-> 0, live |-> {}, stored |-> {}]
  BY DEF Init
<1>2. Idle.pc \in Free
  BY IdleShape DEF Free
<1>3. \A p \in Procs : proc[p] = Idle
  BY <1>1
<1>4. TypeOK
  BY <1>1, IdleType, NoRecordsType, KeyZero, BoundsAssumption DEF TypeOK, Conditions
<1> QED
  BY <1>1, <1>2, <1>3, <1>4, IdleShape DEF Typed, LockOK

LEMMA RemovingTyped ==
    ASSUME Typed, NEW p \in Procs, Removing(p)
    PROVE  Typed'
<1>1. ASSUME NEW y \in Process, NEW pc \in Pcs, NEW t, NEW e, NEW d, NEW l,
             Becomes(p, y, pc, t, e, d, l), OutTyped, Quiet, proc[p].pc \notin Free, pc \notin Free,
             ShapeOK(y)
      PROVE  Typed'
  BY <1>1, StayTyped DEF Becomes
<1>2. ShapeOK(proc[p])
  BY Process_
<1>3. ASSUME NEW y, NEW t, NEW e, NEW d, NEW l,
             \/ Becomes(p, y, "remove", t, e, d, l) /\ proc[p].command \notin {"setup", "repair"}
             \/ Becomes(p, y, "restore", t, e, d, l) /\ proc[p].command = "repair"
             \/ Becomes(p, y, "commit", t, e, d, l)
             \/ Becomes(p, y, "publish", t, e, d, l) /\ l \in Lists
      PROVE  ShapeOK(y) /\ y.pc \notin Free
  BY <1>3 DEF Becomes, Follows, ShapeOK, InClient, SetupPcs, Free
<1>4. "remove" \in Pcs /\ "restore" \in Pcs /\ "commit" \in Pcs /\ "publish" \in Pcs
      /\ "remove" \notin Free /\ "restore" \notin Free /\ "commit" \notin Free /\ "publish" \notin Free
      /\ "check" \notin Free
  BY DEF Pcs, Free
<1>5. CASE Preview(p) \/ Acquire(p) \/ LockRefused(p)
  BY <1>5, PreviewBecomes, AcquireTyped, LockRefusedTyped
<1>6. CASE CheckAll(p) \/ CheckRepair(p)
  BY <1>1, <1>3, <1>4, <1>6, CheckAllBecomes, FailTyped
<1>7. CASE CheckClient(p)
  BY <1>1, <1>3, <1>4, <1>7, CheckClientBecomes, FailTyped
<1>8. CASE Remove(p)
  <2>1. proc[p].command \notin {"setup", "repair"} /\ proc[p].pc \notin Free
    BY <1>2, <1>8 DEF Remove, InTurn, ShapeOK, Free
  <2> QED
    BY <1>1, <1>3, <1>4, <1>8, <2>1, RemoveBecomes
<1>9. CASE RemoveRefused(p) \/ RemoveFails(p) \/ StopFails(p) \/ RestoreFails(p)
  BY <1>9, RemoveFailing, OtherFailing, FailTyped
<1>10. <<"own", "inst">> \in Lists /\ <<"own", "integ", "bridge", "inst">> \in Lists /\ <<"own">> \in Lists
  BY DEF Lists
<1>11. CASE StopService(p) \/ PurgeDone(p)
  <2>1. proc[p].pc \notin Free
    BY <1>11 DEF StopService, PurgeDone, Free
  <2> QED
    BY <1>1, <1>3, <1>4, <1>10, <1>11, <2>1, StopBecomes, PurgeBecomes
<1>12. CASE Restore(p) \/ RepairDone(p)
  <2>1. proc[p].command = "repair" /\ proc[p].pc \notin Free
    BY <1>2, <1>12 DEF Restore, RepairDone, ShapeOK, Free
  <2> QED
    BY <1>1, <1>3, <1>4, <1>10, <1>12, <2>1, RestoreBecomes, RepairBecomes
<1>13. CASE ClientDone(p)
  <2>1. proc[p].pc \notin Free
    BY <1>13 DEF ClientDone, Free
  <2> QED
    BY <1>1, <1>3, <1>4, <1>10, <1>13, <2>1, ClientBecomes, FailTyped
<1> QED
  BY <1>5, <1>6, <1>7, <1>8, <1>9, <1>11, <1>12, <1>13 DEF Removing

LEMMA TypedNext ==
    ASSUME Typed, [Next]_vars
    PROVE  Typed'
<1>1. ASSUME NEW p \in Procs, Setup(p)
      PROVE  Typed'
  <2>1. CASE WorkOfSetup(p)
    BY <2>1, SetupWorks, WorkTyped
  <2>2. CASE StartSetup(p)
    BY <2>2, StartBecomes
  <2>3. CASE Conclude(p)
    <3>1. PICK y \in Process :
            /\ proc' = [proc EXCEPT ![p] = y] /\ y.pc = "publish"
            /\ y.left \in {<<"inst", "own", "ext", "integ">>, <<"own", "ext", "integ", "bridge", "inst">>}
            /\ OutTyped /\ Quiet
      BY <2>3, ConcludeTyped
    <3>2. ShapeOK(y) /\ y.pc \notin Free /\ proc[p].pc \notin Free
      BY <2>3, <3>1 DEF Conclude, ShapeOK, InClient, SetupPcs, Free, Lists
    <3> QED
      BY <3>1, <3>2, StayTyped
  <2> QED
    BY <1>1, <2>1, <2>2, <2>3 DEF Setup, WorkOfSetup
<1>2. ASSUME NEW p \in Procs, Ending(p)
      PROVE  Typed'
  BY <1>2, PublishBecomes, PublishFailsBecomes, EndTyped DEF Ending
<1>3. CASE UNCHANGED vars
  BY <1>3 DEF vars, outside, ghosts, Typed, TypeOK, LockOK, ShapeOK
<1>4. CASE Meddle
  BY <1>4, MeddleBecomes
<1> QED
  BY <1>1, <1>2, <1>3, <1>4, RemovingTyped DEF Next

(***************************************************************************)
(* Types, for any processes and clients; who is at work holds the lock, and*)
(* nobody else is at work.                                                 *)
(***************************************************************************)
THEOREM TypeCorrect == Spec => []TypeOK
<1>1. Typed /\ [Next]_vars => Typed'
  BY TypedNext
<1>2. Typed => TypeOK
  BY DEF Typed
<1> QED
  BY InitTyped, <1>1, <1>2, PTL DEF Spec

(***************************************************************************)
(* Nothing is struck off the record while it is still there.               *)
(***************************************************************************)
\* The ownership on record is that which this process has read.
Fixed(x) == "own" \in x.current

\* What a preview has read, and what a repair starts from.
RecordsOK(x) ==
    /\ x.pc \in {"previewed", "check"} => x.draft.own = x.seen.own
    /\ x.pc \in {"previewed", "check", "restore"} /\ Fixed(x) => x.seen.own = disk.own
    /\ x.pc = "restore" /\ ~Fixed(x) => x.draft.own = x.seen.own

\* What is struck off the draft was off the record before, or is gone; but for what this
\* command is about to remove.
RemovedOK(x) ==
    /\ x.pc \in SetupPcs \/ (x.pc = "restore" /\ Fixed(x)) =>
          \A a \in Things : x.draft.own[a] = "removed" => disk.own[a] = "removed"
    /\ x.pc = "remove" =>
          \A a \in Things \ touched : x.draft.own[a] = "removed" =>
              \/ disk.own[a] = "removed" \/ world[a] # "ours"
              \/ a \in x.todo /\ x.command = "client-uninstall"
              \/ a = Service /\ x.command = "uninstall"
    /\ x.pc = "publish" =>
          \A a \in Things \ touched : x.draft.own[a] = "removed" =>
              disk.own[a] = "removed" \/ world[a] # "ours"

DraftsOK ==
    /\ Typed
    /\ \A p \in Procs : RecordsOK(proc[p]) /\ RemovedOK(proc[p])

\* A step that writes no ownership: what is to be shown of the process that takes it.
Drafts(p, y) ==
    /\ proc' = [proc EXCEPT ![p] = y] /\ disk'.own = disk.own
    /\ proc[p].pc \notin Free \/ UNCHANGED <<world, touched>>
    /\ RecordsOK(y)' /\ RemovedOK(y)'

LEMMA NotAtWork ==
    ASSUME Typed, NEW p \in Procs, proc[p].pc \notin Free, NEW q \in Procs, q # p
    PROVE  proc[q].pc \in Free
BY DEF Typed, LockOK

LEMMA DraftsKept ==
    ASSUME DraftsOK, Typed', NEW p \in Procs, NEW y, Drafts(p, y)
    PROVE  DraftsOK'
<1>1. \A q \in Procs : proc'[q] = IF q = p THEN y ELSE proc[q]
  BY DEF Drafts, DraftsOK, Typed, TypeOK
<1>2. ASSUME NEW q \in Procs
      PROVE  RecordsOK(proc[q])' /\ RemovedOK(proc[q])'
  <2>1. CASE q = p
    <3>1. proc'[q] = y
      BY <1>1, <2>1
    <3> QED
      BY <3>1 DEF Drafts, RecordsOK, RemovedOK, Fixed
  <2>2. CASE q # p
    <3>1. proc'[q] = proc[q] /\ RecordsOK(proc[q]) /\ RemovedOK(proc[q])
      BY <1>1, <2>2 DEF DraftsOK
    <3>2. RecordsOK(proc[q])'
      BY <3>1 DEF RecordsOK, Fixed, Drafts
    <3>3. CASE proc[p].pc \notin Free
      <4>1. proc[q].pc \in Free
        BY <2>2, <3>3, NotAtWork DEF DraftsOK
      <4>2. RemovedOK(proc[q])'
        BY <3>1, <4>1 DEF RemovedOK, Free, SetupPcs, InClient
      <4> QED
        BY <3>2, <4>2
    <3>4. CASE UNCHANGED <<world, touched>>
      <4>1. RemovedOK(proc[q])'
        BY <3>1, <3>4 DEF RemovedOK, Fixed, Drafts
      <4> QED
        BY <3>2, <4>1
    <3> QED
      BY <3>3, <3>4 DEF Drafts
  <2> QED
    BY <2>1, <2>2
<1> QED
  BY <1>2 DEF DraftsOK

LEMMA SetupDrafts ==
    ASSUME DraftsOK, NEW p \in Procs, Setup(p)
    PROVE  \E y \in Process : Drafts(p, y)
<1>1. Typed /\ RecordsOK(proc[p]) /\ RemovedOK(proc[p])
  BY DEF DraftsOK
<1>2. CASE WorkOfSetup(p)
  <2>1. PICK y \in Process : Working(p, y)
    BY <1>1, <1>2, SetupWorks
  <2>2. y.pc \notin {"previewed", "check", "restore", "remove", "publish"} /\ proc[p].pc \notin Free
    BY <2>1 DEF Working, SetupPcs, InClient, Free
  <2>3. RecordsOK(y)'
    BY <2>2 DEF RecordsOK
  <2>4. \A a \in Things : y.draft.own[a] = "removed" => disk'.own[a] = "removed"
    BY <1>1, <2>1, NamesDiffer DEF Working, RemovedOK
  <2>5. RemovedOK(y)'
    BY <2>2, <2>4 DEF RemovedOK
  <2> QED
    BY <2>1, <2>2, <2>3, <2>5 DEF Working, Drafts
<1>3. CASE StartSetup(p)
  <2>1. PICK y \in Process :
          /\ proc' = [proc EXCEPT ![p] = y] /\ y.draft.own = disk.own
          /\ y.pc = CASE disk.inst.status = "none" -> "install"
                      [] disk.inst.status = "data-retained" -> "deploy"
                      [] OTHER -> "verify-prior"
    BY <1>1, <1>3, StartBecomes
  <2>2. UNCHANGED <<disk, world, touched>>
    BY <1>1, <1>3, StartBecomes
  <2>3. y.pc \in {"install", "deploy", "verify-prior"}
    BY <2>1
  <2>4. RecordsOK(y)' /\ RemovedOK(y)'
    BY <2>1, <2>2, <2>3 DEF RecordsOK, RemovedOK
  <2> QED
    BY <2>1, <2>2, <2>4 DEF Drafts
<1>4. CASE Conclude(p)
  <2>1. PICK y \in Process :
          /\ proc' = [proc EXCEPT ![p] = y] /\ y.pc = "publish"
          /\ \A a \in Assets : y.draft.own[a] =
                IF Fresh(p) /\ a \in ServiceAssets THEN "present" ELSE proc[p].draft.own[a]
          /\ UNCHANGED <<disk, world, touched>>
    BY <1>1, <1>4, ConcludeTyped
  <2>2. proc[p].pc = "clients" /\ proc[p].pc \in SetupPcs /\ proc[p].pc \notin Free
    BY <1>4 DEF Conclude, SetupPcs, Free
  <2>3. \A a \in Things : y.draft.own[a] = "removed" => disk.own[a] = "removed"
    BY <1>1, <2>1, <2>2, NamesDiffer DEF RemovedOK
  <2>4. RecordsOK(y)' /\ RemovedOK(y)'
    BY <2>1, <2>3 DEF RecordsOK, RemovedOK, SetupPcs, InClient
  <2> QED
    BY <2>1, <2>2, <2>4 DEF Drafts
<1> QED
  BY <1>2, <1>3, <1>4 DEF Setup, WorkOfSetup

\* The draft of a command that gives up is of no more use.
LEMMA FailDrafts ==
    ASSUME NEW p \in Procs, NEW y, Failing(p, y)
    PROVE  Drafts(p, y)
BY DEF Failing, Drafts, RecordsOK, RemovedOK, SetupPcs, InClient

LEMMA PreviewDrafts ==
    ASSUME DraftsOK, NEW p \in Procs, Preview(p) \/ Acquire(p) \/ LockRefused(p)
    PROVE  \E y \in Process : Drafts(p, y)
<1>1. Typed /\ RecordsOK(proc[p])
  BY DEF DraftsOK
<1>2. CASE Preview(p)
  <2>1. PICK y \in Process :
          /\ proc' = [proc EXCEPT ![p] = y] /\ y.pc = "previewed" /\ y.seen = disk /\ y.draft = disk
    BY <1>1, <1>2, PreviewBecomes
  <2>2. UNCHANGED <<disk, world, touched>>
    BY <1>1, <1>2, PreviewBecomes
  <2> QED
    BY <2>1, <2>2 DEF Drafts, RecordsOK, RemovedOK, SetupPcs, InClient
<1>3. CASE Acquire(p)
  <2>1. PICK y \in Process :
          Becomes(p, y, "check", proc[p].todo, proc[p].effects, proc[p].draft, proc[p].left)
    BY <1>1, <1>3, AcquireTyped
  <2>2. UNCHANGED <<disk, world, touched>> /\ proc[p].pc = "previewed"
    BY <1>1, <1>3, AcquireTyped
  <2>3. /\ proc' = [proc EXCEPT ![p] = y] /\ y.pc = "check" /\ y.draft = proc[p].draft
        /\ y.seen = proc[p].seen /\ y.current = proc[p].current
    BY <2>1 DEF Becomes, Follows
  <2>4. RecordsOK(y)'
    BY <1>1, <2>2, <2>3 DEF RecordsOK, Fixed
  <2>5. RemovedOK(y)'
    BY <2>3 DEF RemovedOK, SetupPcs, InClient
  <2> QED
    BY <2>2, <2>3, <2>4, <2>5 DEF Drafts
<1>4. CASE LockRefused(p)
  <2>1. proc' = [proc EXCEPT ![p] = Idle] /\ UNCHANGED <<disk, world, touched>>
    BY <1>1, <1>4, LockRefusedTyped
  <2>2. Idle.pc = "idle" /\ Idle \in Process
    BY IdleShape, IdleType
  <2> HIDE DEF Idle
  <2>3. RecordsOK(Idle)' /\ RemovedOK(Idle)'
    BY <2>2 DEF RecordsOK, RemovedOK, SetupPcs, InClient
  <2> QED
    BY <2>1, <2>2, <2>3 DEF Drafts
<1> QED
  BY <1>2, <1>3, <1>4

LEMMA CheckDrafts ==
    ASSUME DraftsOK, NEW p \in Procs, CheckAll(p) \/ CheckRepair(p) \/ CheckClient(p)
    PROVE  \E y \in Process : Drafts(p, y)
<1>1. Typed /\ RecordsOK(proc[p])
  BY DEF DraftsOK
<1>2. CASE CheckAll(p) \/ CheckRepair(p)
  <2>1. UNCHANGED <<disk, world, touched>> /\ proc[p].pc = "check"
    BY <1>1, <1>2, CheckAllBecomes
  <2>2. PICK y \in Process :
          \/ Failing(p, y)
          \/ /\ Becomes(p, y, "remove", proc[p].todo, proc[p].effects, proc[p].draft, proc[p].left)
             /\ proc[p].current = {"inst", "own"}
          \/ Becomes(p, y, "restore", proc[p].todo, proc[p].effects, proc[p].draft, proc[p].left)
    BY <1>1, <1>2, CheckAllBecomes
  <2>3. CASE Becomes(p, y, "remove", proc[p].todo, proc[p].effects, proc[p].draft, proc[p].left)
             /\ proc[p].current = {"inst", "own"}
    <3>1. proc' = [proc EXCEPT ![p] = y] /\ y.pc = "remove" /\ y.draft = proc[p].draft
      BY <2>3 DEF Becomes
    <3>2. y.draft.own = disk.own
      BY <1>1, <2>1, <2>3, <3>1 DEF RecordsOK, Fixed
    <3>3. RecordsOK(y)' /\ RemovedOK(y)'
      BY <2>1, <3>1, <3>2 DEF RecordsOK, RemovedOK, SetupPcs, InClient
    <3> QED
      BY <2>1, <3>1, <3>3 DEF Drafts
  <2>4. CASE Becomes(p, y, "restore", proc[p].todo, proc[p].effects, proc[p].draft, proc[p].left)
    <3>1. /\ proc' = [proc EXCEPT ![p] = y] /\ y.pc = "restore" /\ y.draft = proc[p].draft
          /\ y.seen = proc[p].seen /\ y.current = proc[p].current
      BY <2>4 DEF Becomes, Follows
    <3>2. RecordsOK(y)'
      BY <1>1, <2>1, <3>1 DEF RecordsOK, Fixed
    <3>3. "own" \in y.current => y.draft.own = disk.own
      BY <1>1, <2>1, <3>1 DEF RecordsOK, Fixed
    <3>4. RemovedOK(y)'
      BY <2>1, <3>1, <3>3 DEF RemovedOK, Fixed, SetupPcs, InClient
    <3> QED
      BY <2>1, <3>1, <3>2, <3>4 DEF Drafts
  <2> QED
    BY <2>2, <2>3, <2>4, FailDrafts
<1>3. CASE CheckClient(p)
  <2>1. UNCHANGED <<disk, world, touched>> /\ proc[p].pc = "check" /\ proc[p].command = "client-uninstall"
    BY <1>1, <1>3, CheckClientBecomes
  <2>2. PICK y \in Process :
          \/ Failing(p, y)
          \/ /\ \E d \in Disk, t \in SUBSET Assets :
                   /\ Becomes(p, y, "remove", t, proc[p].effects, d, proc[p].left)
                   /\ \A a \in Assets : d.own[a] = IF a \in proc[p].todo THEN "removed"
                                                   ELSE proc[p].draft.own[a]
                   /\ \A a \in proc[p].todo \cap Things : a \notin t => world[a] = "absent"
             /\ "own" \in proc[p].current
    BY <1>1, <1>3, CheckClientBecomes
  <2>3. CASE Failing(p, y)
    BY <2>3, FailDrafts
  <2>4. CASE ~Failing(p, y)
    <3>1. PICK d \in Disk, t \in SUBSET Assets :
             /\ Becomes(p, y, "remove", t, proc[p].effects, d, proc[p].left)
             /\ \A a \in Assets : d.own[a] = IF a \in proc[p].todo THEN "removed"
                                             ELSE proc[p].draft.own[a]
             /\ \A a \in proc[p].todo \cap Things : a \notin t => world[a] = "absent"
      BY <2>2, <2>4
    <3>2. proc[p].draft.own = disk.own
      BY <1>1, <2>1, <2>2, <2>4 DEF RecordsOK, Fixed
    <3>3. y.pc = "remove" /\ y.todo = t /\ y.draft = d /\ y.command = "client-uninstall"
          /\ proc' = [proc EXCEPT ![p] = y]
      BY <2>1, <3>1 DEF Becomes, Follows
    <3>4. ASSUME NEW a \in Things, d.own[a] = "removed"
          PROVE  \/ disk.own[a] = "removed" \/ world[a] # "ours" \/ a \in t
      BY <3>1, <3>2, <3>4, NamesDiffer
    <3>5. RemovedOK(y)' /\ RecordsOK(y)'
      BY <2>1, <3>3, <3>4 DEF RemovedOK, RecordsOK, SetupPcs, InClient
    <3> QED
      BY <2>1, <3>3, <3>5 DEF Drafts
  <2> QED
    BY <2>3, <2>4
<1> QED
  BY <1>2, <1>3

LEMMA RemoveDrafts ==
    ASSUME DraftsOK, NEW p \in Procs, Remove(p)
    PROVE  \E y \in Process : Drafts(p, y)
<1>1. Typed /\ RemovedOK(proc[p]) /\ proc[p].draft.own \in [Assets -> Dispositions]
      /\ world \in [Things -> Conditions]
  BY Operands, Process_ DEF DraftsOK
<1>2. PICK y \in Process, b \in Assets, d \in Disk :
        /\ Becomes(p, y, "remove", proc[p].todo \ {b}, Proven(proc[p].effects), d, proc[p].left)
        /\ d.own = [proc[p].draft.own EXCEPT ![b] = "removed"]
        /\ InTurn(p, b) /\ Removable(p, b) /\ Removal(p, b)
        /\ disk'.own = disk.own /\ touched' = touched
  BY <1>1, RemoveBecomes
<1>3. /\ y.pc = "remove" /\ y.todo = proc[p].todo \ {b} /\ y.draft = d /\ y.command = proc[p].command
      /\ proc' = [proc EXCEPT ![p] = y] /\ proc[p].pc = "remove"
  BY <1>2 DEF Becomes, Follows, InTurn
<1>4. ASSUME NEW a \in Things \ touched, d.own[a] = "removed"
      PROVE  \/ disk.own[a] = "removed" \/ world'[a] # "ours"
             \/ a \in y.todo /\ y.command = "client-uninstall"
             \/ a = Service /\ y.command = "uninstall"
  <2>1. a \in Assets
    BY NamesDiffer
  <2>2. CASE a = b
    <3>1. CASE a = Service
      BY <1>2, <1>3, <2>2, <3>1 DEF Removable, Service
    <3>2. CASE a # Service
      BY <1>1, <1>2, <2>2, <3>2 DEF Removal
    <3> QED
      BY <3>1, <3>2
  <2>3. CASE a # b
    <3>1. proc[p].draft.own[a] = "removed"
      BY <1>1, <1>2, <1>4, <2>1, <2>3
    <3>2. world'[a] = world[a]
      BY <1>1, <1>2, <2>3 DEF Removal
    <3> QED
      BY <1>1, <1>3, <2>3, <3>1, <3>2 DEF RemovedOK
  <2> QED
    BY <2>2, <2>3
<1>5. RemovedOK(y)' /\ RecordsOK(y)'
  BY <1>2, <1>3, <1>4 DEF RemovedOK, RecordsOK, SetupPcs, InClient
<1>6. proc[p].pc \notin Free
  BY <1>3 DEF Free
<1> QED
  BY <1>2, <1>3, <1>5, <1>6 DEF Drafts

LEMMA StopDrafts ==
    ASSUME DraftsOK, NEW p \in Procs, StopService(p) \/ PurgeDone(p) \/ ClientDone(p)
    PROVE  \E y \in Process : Drafts(p, y)
<1>1. Typed /\ RemovedOK(proc[p]) /\ world \in [Things -> Conditions] /\ Service \in Things
  BY Process_ DEF DraftsOK, Things
<1>2. CASE StopService(p)
  <2>1. PICK y \in Process, d \in Disk :
          /\ Becomes(p, y, "publish", proc[p].todo, Proven(proc[p].effects), d, <<"own", "inst">>)
          /\ proc[p].pc = "remove" /\ proc[p].command = "uninstall" /\ proc[p].todo = {}
          /\ d.own = Retained(proc[p].draft.own)
          /\ Put(Service, "absent") /\ UNCHANGED <<disk, touched>>
    BY <1>1, <1>2, StopBecomes
  <2>2. proc' = [proc EXCEPT ![p] = y] /\ y.pc = "publish" /\ y.draft = d
    BY <2>1 DEF Becomes
  <2>3. world' = [world EXCEPT ![Service] = "absent"]
    BY <2>1 DEF Put
  <2>4. ASSUME NEW a \in Things \ touched, d.own[a] = "removed"
        PROVE  disk.own[a] = "removed" \/ world'[a] # "ours"
    <3>1. proc[p].draft.own[a] = "removed"
      BY <2>1, <2>4, NamesDiffer DEF Retained
    <3>2. CASE a = Service
      BY <1>1, <2>3, <3>2
    <3>3. CASE a # Service
      BY <1>1, <2>1, <2>3, <3>1, <3>3 DEF RemovedOK
    <3> QED
      BY <3>2, <3>3
  <2>5. RecordsOK(y)' /\ RemovedOK(y)'
    BY <2>1, <2>2, <2>4 DEF RecordsOK, RemovedOK, SetupPcs, InClient
  <2>6. proc[p].pc \notin Free
    BY <2>1 DEF Free
  <2> QED
    BY <2>1, <2>2, <2>5, <2>6 DEF Drafts
<1>3. CASE PurgeDone(p) \/ ClientDone(p)
  <2>1. PICK y \in Process :
          \/ Failing(p, y)
          \/ /\ proc' = [proc EXCEPT ![p] = y] /\ y.pc = "publish"
             /\ y.draft.own = proc[p].draft.own
             /\ proc[p].pc = "remove" /\ proc[p].command # "uninstall" /\ proc[p].todo = {}
             /\ UNCHANGED <<disk, world, touched>>
    BY <1>1, <1>3, PurgeBecomes, ClientBecomes DEF Becomes
  <2>2. CASE Failing(p, y)
    BY <2>2, FailDrafts
  <2>3. CASE ~Failing(p, y)
    <3>1. RecordsOK(y)' /\ RemovedOK(y)'
      BY <1>1, <2>1, <2>3 DEF RecordsOK, RemovedOK, SetupPcs, InClient
    <3> QED
      BY <2>1, <2>3, <3>1 DEF Drafts
  <2> QED
    BY <2>2, <2>3
<1> QED
  BY <1>2, <1>3

LEMMA RestoreDrafts ==
    ASSUME DraftsOK, NEW p \in Procs, Restore(p) \/ RepairDone(p)
    PROVE  \E y \in Process : Drafts(p, y)
<1>1. Typed /\ RemovedOK(proc[p]) /\ RecordsOK(proc[p]) /\ proc[p].draft.own \in [Assets -> Dispositions]
  BY Operands DEF DraftsOK
<1>2. CASE Restore(p)
  <2>1. PICK y \in Process, b \in proc[p].todo, d \in Disk, e \in {proc[p].effects, Proven(proc[p].effects)} :
          /\ Becomes(p, y, "restore", proc[p].todo \ {b}, e, d, proc[p].left)
          /\ proc[p].pc = "restore" /\ "own" \in proc[p].current
          /\ \/ /\ world[b] = "absent" /\ Put(b, "ours") /\ e = Proven(proc[p].effects)
                /\ d.own = [proc[p].draft.own EXCEPT
                              ![b] = IF @ = "removed" THEN "present" ELSE @]
             \/ world' = world /\ world[b] # "absent" /\ d = proc[p].draft /\ e = proc[p].effects
          /\ OutTyped /\ Quiet /\ UNCHANGED <<disk, touched>>
    BY <1>1, <1>2, RestoreBecomes
  <2>2. /\ proc' = [proc EXCEPT ![p] = y] /\ y.pc = "restore" /\ y.draft = d
        /\ y.seen = proc[p].seen /\ y.current = proc[p].current
    BY <2>1 DEF Becomes, Follows
  <2>3. \A a \in Things : d.own[a] = "removed" => disk.own[a] = "removed"
    <3>1. ASSUME NEW a \in Things, d.own[a] = "removed"
          PROVE  disk.own[a] = "removed"
      <4>1. a \in Assets
        BY NamesDiffer
      <4>2. proc[p].draft.own[a] = "removed"
        BY <1>1, <2>1, <3>1, <4>1
      <4> QED
        BY <1>1, <2>1, <4>2 DEF RemovedOK, Fixed
    <3> QED
      BY <3>1
  <2>4. RecordsOK(y)'
    BY <1>1, <2>1, <2>2 DEF RecordsOK, Fixed
  <2>5. RemovedOK(y)'
    BY <2>1, <2>2, <2>3 DEF RemovedOK, SetupPcs, InClient
  <2>6. proc[p].pc \notin Free
    BY <2>1 DEF Free
  <2> QED
    BY <2>1, <2>2, <2>4, <2>5, <2>6 DEF Drafts
<1>3. CASE RepairDone(p)
  <2>1. PICK y \in Process :
          /\ proc' = [proc EXCEPT ![p] = y] /\ y.draft = proc[p].draft /\ y.seen = proc[p].seen
          /\ \/ y.pc = "commit"
             \/ y.pc = "publish" /\ proc[p].draft.own # proc[p].seen.own
    BY <1>1, <1>3, RepairBecomes DEF Becomes, Follows
  <2>2. proc[p].pc = "restore" /\ UNCHANGED <<disk, world, touched>>
    BY <1>1, <1>3, RepairBecomes
  <2>3. y.pc = "publish" => \A a \in Things : y.draft.own[a] = "removed" => disk.own[a] = "removed"
    BY <1>1, <2>1, <2>2 DEF RecordsOK, RemovedOK, Fixed
  <2>4. RecordsOK(y)' /\ RemovedOK(y)'
    BY <2>1, <2>2, <2>3 DEF RecordsOK, RemovedOK, SetupPcs, InClient
  <2> QED
    BY <2>1, <2>2, <2>4 DEF Drafts
<1> QED
  BY <1>2, <1>3

LEMMA RemovingDrafts ==
    ASSUME DraftsOK, NEW p \in Procs, Removing(p)
    PROVE  \E y \in Process : Drafts(p, y)
<1>1. Typed
  BY DEF DraftsOK
<1>2. CASE RemoveRefused(p) \/ RemoveFails(p) \/ StopFails(p) \/ RestoreFails(p)
  BY <1>1, <1>2, RemoveFailing, OtherFailing, FailDrafts
<1> QED
  BY <1>2, PreviewDrafts, CheckDrafts, RemoveDrafts, StopDrafts, RestoreDrafts DEF Removing

\* Whoever has previewed what is overwritten now will not trust it.
LEMMA PublishDrafts ==
    ASSUME DraftsOK, Typed', NEW p \in Procs, NEW r \in Records, NEW y \in Process,
           proc[p].pc = "publish", disk' = Written(p, r), proc' = [Stale(p, r) EXCEPT ![p] = y],
           UNCHANGED <<world, touched>>,
           y.pc = "failed" \/ (y.pc \in {"publish", "commit"} /\ y.draft = proc[p].draft)
    PROVE  DraftsOK'
<1> DEFINE s == Stale(p, r)
<1>1. Typed /\ RemovedOK(proc[p])
  BY DEF DraftsOK
<1>2. \A q \in Procs : proc'[q] = IF q = p THEN y ELSE s[q]
  BY <1>1, StaleType
<1>3. (r # "own" => disk'.own = disk.own) /\ (r = "own" => disk'.own = proc[p].draft.own)
  BY <1>1, WrittenType
<1>4. \A a \in Things \ touched : disk'.own[a] = "removed" => disk.own[a] = "removed" \/ world[a] # "ours"
  BY <1>1, <1>3 DEF RemovedOK
<1>5. ASSUME NEW q \in Procs
      PROVE  RecordsOK(proc[q])' /\ RemovedOK(proc[q])'
  <2>1. CASE q = p
    <3>1. proc'[q] = y
      BY <1>2, <2>1
    <3>2. RecordsOK(proc[q])'
      BY <3>1 DEF RecordsOK
    <3>3. y.pc # "failed" =>
            \A a \in Things \ touched : y.draft.own[a] = "removed" => disk'.own[a] = "removed" \/ world[a] # "ours"
      BY <1>1, <1>3 DEF RemovedOK
    <3>4. RemovedOK(proc[q])'
      BY <3>1, <3>3 DEF RemovedOK, SetupPcs, InClient
    <3> QED
      BY <3>2, <3>4
  <2>2. CASE q # p
    <3>1. proc'[q] = s[q] /\ RecordsOK(proc[q]) /\ proc[q].pc \in Free
      BY <1>1, <1>2, <2>2, NotAtWork DEF DraftsOK, Free
    <3>2. \/ s[q] = proc[q] /\ (proc[q].pc # "previewed" \/ r \notin {"inst", "own"} \/ q = p)
          \/ /\ s[q].pc = "previewed" /\ proc[q].pc = "previewed"
             /\ \/ s[q].current = {} /\ s[q].draft = NoRecords /\ s[q].seen = NoRecords
                \/ /\ r = "inst"
                   /\ s[q].current \subseteq proc[q].current
                   /\ s[q].draft = proc[q].draft /\ s[q].seen = proc[q].seen
                   /\ s[q].todo = proc[q].todo /\ s[q].command = proc[q].command
      BY <1>1, StaleType
    <3> HIDE DEF s
    <3>3. CASE s[q] = proc[q] /\ (proc[q].pc # "previewed" \/ r \notin {"inst", "own"} \/ q = p)
      <4>1. proc'[q] = proc[q] /\ (proc[q].pc = "idle" \/ disk'.own = disk.own)
        BY <1>3, <2>2, <3>1, <3>3 DEF Free
      <4>2. RecordsOK(proc[q])'
        BY <3>1, <4>1 DEF RecordsOK, Fixed
      <4>3. RemovedOK(proc[q])'
        BY <3>1, <4>1 DEF RemovedOK, Free, SetupPcs, InClient
      <4> QED
        BY <4>2, <4>3
    <3>4. CASE ~(s[q] = proc[q] /\ (proc[q].pc # "previewed" \/ r \notin {"inst", "own"} \/ q = p))
      <4>1. RemovedOK(proc[q])'
        BY <3>1, <3>2, <3>4 DEF RemovedOK, SetupPcs, InClient
      <4>2. CASE s[q].current = {} /\ s[q].draft = NoRecords /\ s[q].seen = NoRecords
        BY <3>1, <3>2, <3>4, <4>1, <4>2 DEF RecordsOK, Fixed
      <4>3. CASE ~(s[q].current = {} /\ s[q].draft = NoRecords /\ s[q].seen = NoRecords)
        <5>1. /\ disk'.own = disk.own /\ s[q].current \subseteq proc[q].current
              /\ s[q].draft = proc[q].draft /\ s[q].seen = proc[q].seen
              /\ s[q].pc = "previewed" /\ proc[q].pc = "previewed"
          BY <1>3, <3>2, <3>4, <4>3
        <5>2. RecordsOK(proc[q])'
          BY <3>1, <5>1 DEF RecordsOK, Fixed
        <5> QED
          BY <4>1, <5>2
      <4> QED
        BY <4>2, <4>3
    <3> QED
      BY <3>3, <3>4
  <2> QED
    BY <2>1, <2>2
<1> QED
  BY <1>5 DEF DraftsOK

LEMMA EndDrafts ==
    ASSUME DraftsOK, NEW p \in Procs, Ends(p)
    PROVE  \E y \in Process : Drafts(p, y)
<1>1. Idle \in Process /\ Idle.pc = "idle"
  BY IdleType, IdleShape
<1> HIDE DEF Idle
<1>2. RecordsOK(Idle)' /\ RemovedOK(Idle)'
  BY <1>1 DEF RecordsOK, RemovedOK, SetupPcs, InClient
<1> QED
  BY <1>1, <1>2 DEF Ends, Drafts

LEMMA MeddleDrafts ==
    ASSUME DraftsOK, Meddle
    PROVE  DraftsOK'
<1>0. Typed /\ world \in [Things -> Conditions]
  BY DEF DraftsOK, Typed, TypeOK
<1>1. Typed' /\ disk' = disk
  BY <1>0, MeddleBecomes
<1>2. PICK b \in Profiles \cup {Service}, v \in Conditions :
        touched' = touched \cup {b} /\ world' = [world EXCEPT ![b] = v]
  BY <1>0, MeddleBecomes
<1>3. \A a \in Things \ touched' : a \notin touched /\ world'[a] = world[a]
  BY <1>0, <1>2
<1>4. ASSUME NEW q \in Procs
      PROVE  RecordsOK(proc[q])' /\ RemovedOK(proc[q])'
  <2>1. proc[q] \in Process /\ RecordsOK(proc[q]) /\ RemovedOK(proc[q])
    BY <1>0, Process_ DEF DraftsOK
  <2>2. PICK f \in SUBSET {"mcp", "plugin"} : proc'[q] = [proc[q] EXCEPT !.foul = f]
    BY <1>0, MeddleBecomes
  <2>3. /\ proc'[q].pc = proc[q].pc /\ proc'[q].draft = proc[q].draft /\ proc'[q].seen = proc[q].seen
        /\ proc'[q].current = proc[q].current /\ proc'[q].todo = proc[q].todo
        /\ proc'[q].command = proc[q].command
    BY <2>1, <2>2 DEF Process
  <2>4. RecordsOK(proc[q])'
    BY <1>1, <2>1, <2>3 DEF RecordsOK, Fixed
  <2>5. RemovedOK(proc[q])'
    BY <1>1, <1>3, <2>1, <2>3 DEF RemovedOK, Fixed
  <2> QED
    BY <2>4, <2>5
<1> QED
  BY <1>1, <1>4 DEF DraftsOK

LEMMA DraftsNext ==
    ASSUME DraftsOK, [Next]_vars
    PROVE  DraftsOK'
<1>1. Typed /\ Typed'
  BY TypedNext DEF DraftsOK
<1>2. ASSUME NEW p \in Procs, Setup(p) \/ Removing(p)
      PROVE  DraftsOK'
  BY <1>1, <1>2, SetupDrafts, RemovingDrafts, DraftsKept
<1>3. ASSUME NEW p \in Procs, Ending(p)
      PROVE  DraftsOK'
  <2>1. CASE Commit(p) \/ Failed(p) \/ Crash(p)
    BY <1>1, <2>1, EndTyped, EndDrafts, DraftsKept
  <2>2. CASE Publish(p)
    <3>1. PICK r \in Records : r = Head(proc[p].left)
      BY <1>1, <2>2, PublishBecomes
    <3>2. PICK y \in Process :
            /\ proc' = [Stale(p, r) EXCEPT ![p] = y] /\ y.draft = proc[p].draft
            /\ y.pc \in {"commit", "publish"}
      BY <1>1, <2>2, <3>1, PublishBecomes
    <3>3. disk' = Written(p, r) /\ UNCHANGED <<world, touched>> /\ proc[p].pc = "publish"
      BY <1>1, <2>2, <3>1, PublishBecomes
    <3> QED
      BY <1>1, <3>2, <3>3, PublishDrafts
  <2>3. CASE PublishFails(p)
    <3>1. PICK r \in Records : r = Head(proc[p].left)
      BY <1>1, <2>3, PublishFailsBecomes
    <3>2. proc[p].pc = "publish" /\ UNCHANGED <<world, touched>>
      BY <1>1, <2>3, PublishFailsBecomes
    <3>3. PICK y \in Process :
            \/ Failing(p, y)
            \/ /\ disk' = Written(p, r)
               /\ proc' = [Stale(p, r) EXCEPT ![p] = y]
               /\ y.pc = "failed"
      BY <1>1, <2>3, <3>1, PublishFailsBecomes
    <3> QED
      BY <1>1, <3>2, <3>3, PublishDrafts, FailDrafts, DraftsKept
  <2> QED
    BY <1>3, <2>1, <2>2, <2>3 DEF Ending
<1>4. CASE UNCHANGED vars
  BY <1>1, <1>4 DEF vars, outside, ghosts, DraftsOK, RecordsOK, RemovedOK, Fixed
<1> QED
  BY <1>2, <1>3, <1>4, MeddleDrafts DEF Next

LEMMA InitDrafts == Init => DraftsOK
<1> SUFFICES ASSUME Init PROVE DraftsOK
  OBVIOUS
<1>1. \A p \in Procs : proc[p].pc = "idle"
  BY IdleShape DEF Init
<1> QED
  BY <1>1, InitTyped DEF DraftsOK, RecordsOK, RemovedOK, SetupPcs, InClient

(***************************************************************************)
(* What goes off the record, in any step of any process, is not there any  *)
(* more; only a publication of the ownership takes anything off.           *)
(***************************************************************************)
THEOREM RemovedIsAlwaysGone == Spec => RemovedIsGone
<1>1. Init => DraftsOK
  BY InitDrafts
<1>2. DraftsOK /\ [Next]_vars => DraftsOK'
  BY DraftsNext
<1>3. DraftsOK /\ [Next]_vars =>
        [\A a \in Things \ touched :
            (disk'.own[a] = "removed" /\ disk.own[a] # "removed") => world[a] # "ours"]_vars
  <2> SUFFICES ASSUME DraftsOK, Next
               PROVE  \A a \in Things \ touched :
                          (disk'.own[a] = "removed" /\ disk.own[a] # "removed") => world[a] # "ours"
    OBVIOUS
  <2>1. Typed
    BY DEF DraftsOK
  <2>2. ASSUME NEW p \in Procs, Setup(p) \/ Removing(p)
        PROVE  disk'.own = disk.own
    BY <2>2, SetupDrafts, RemovingDrafts DEF Drafts
  <2>3. ASSUME NEW p \in Procs, Ending(p)
        PROVE  disk'.own = disk.own \/ (disk'.own = proc[p].draft.own /\ proc[p].pc = "publish")
    <3>1. CASE Commit(p) \/ Failed(p) \/ Crash(p)
      BY <2>1, <3>1, EndTyped DEF Ends
    <3>2. CASE Publish(p) \/ PublishFails(p)
      <4>1. PICK r \in Records : r = Head(proc[p].left)
        BY <2>1, <3>2, PublishBecomes, PublishFailsBecomes
      <4>2. proc[p].pc = "publish" /\ (disk' = disk \/ disk' = Written(p, r))
        BY <2>1, <3>2, <4>1, PublishBecomes, PublishFailsBecomes
      <4> QED
        BY <2>1, <4>2, WrittenType
    <3> QED
      BY <2>3, <3>1, <3>2 DEF Ending
  <2>4. CASE Meddle
    BY <2>1, <2>4, MeddleBecomes
  <2>5. ASSUME NEW p \in Procs, Setup(p) \/ Removing(p) \/ Ending(p)
        PROVE  \A a \in Things \ touched :
                   (disk'.own[a] = "removed" /\ disk.own[a] # "removed") => world[a] # "ours"
    <3>1. RemovedOK(proc[p])
      BY DEF DraftsOK
    <3> QED
      BY <2>2, <2>3, <2>5, <3>1 DEF RemovedOK
  <2> QED
    BY <2>4, <2>5 DEF Next
<1> QED
  BY <1>1, <1>2, <1>3, PTL DEF Spec, RemovedIsGone

(***************************************************************************)
(* The record is true: what the commands plan.                             *)
(***************************************************************************)
Standing == {"present", "retained"}

\* What stands and falls together: the release, the volume, and a service on record.
Together(own) ==
    /\ own[Release] \in Standing <=> own[Volume] \in Standing
    /\ own[Release] \in Standing => own[Service] # "none"
    /\ own[Service] # "retained"

\* What a removal or a repair is to touch, as long as the record it has read is the one there.
TodoOK(x) ==
    /\ x.command = "client-uninstall" => x.todo \cap ServiceAssets = {}
    /\ Fixed(x) =>
          /\ x.command = "uninstall" =>
                /\ x.todo \subseteq {Service} \cup Profiles
                /\ x.draft.own[Service] = "present" => Service \in x.todo
          /\ x.command = "purge" => \A a \in Assets : x.draft.own[a] \in Standing => a \in x.todo
          /\ x.command = "repair" =>
                /\ x.todo \subseteq {Service} \cup Profiles
                /\ \A a \in x.todo : x.draft.own[a] # "none"

\* What a process has before it, whatever the world is like.
PlanOK(x) ==
    /\ x.pc \in {"previewed", "check", "remove", "restore"} => TodoOK(x)
    /\ x.pc = "remove" /\ x.command \in {"uninstall", "purge"} => Fixed(x)
    /\ x.pc \in {"idle", "previewed", "check"} =>
          x.effects = "none" /\ ~x.broken /\ x.result = "success"
    /\ x.pc # "failed" /\ (x.pc = "remove" => x.command # "purge") => Together(x.draft.own)

PlansOK ==
    /\ DraftsOK
    /\ touched \subseteq {Service} \cup Profiles
    /\ Together(disk.own)
    /\ \A p \in Procs : PlanOK(proc[p])

\* A step that writes no ownership and that the user has no part in.
Plans(p, y) ==
    /\ proc' = [proc EXCEPT ![p] = y]
    /\ disk'.own = disk.own /\ touched' = touched
    /\ PlanOK(y)

LEMMA PlansKept ==
    ASSUME PlansOK, DraftsOK', NEW p \in Procs, NEW y, Plans(p, y)
    PROVE  PlansOK'
<1>1. \A q \in Procs : proc'[q] = IF q = p THEN y ELSE proc[q]
  BY DEF Plans, PlansOK, DraftsOK, Typed, TypeOK
<1>2. \A q \in Procs : PlanOK(proc'[q])
  BY <1>1 DEF Plans, PlansOK
<1>3. \A q \in Procs : PlanOK(proc[q])'
  BY <1>2 DEF PlanOK, TodoOK, Fixed, Together
<1>4. Together(disk.own)'
  BY DEF Plans, PlansOK, Together
<1> QED
  BY <1>3, <1>4 DEF Plans, PlansOK

LEMMA TogetherNone == Together(NoRecords.own)
BY NamesDiffer DEF Together, NoRecords, ServiceAssets, Standing

LEMMA IdlePlan == PlanOK(Idle)
<1>1. /\ Idle.pc = "idle" /\ Idle.effects = "none" /\ Idle.broken = FALSE
      /\ Idle.result = "success" /\ Idle.draft = NoRecords
  BY DEF Idle
<1> HIDE DEF Idle
<1> QED
  BY <1>1, TogetherNone DEF PlanOK

LEMMA FailPlans ==
    ASSUME NEW p \in Procs, NEW y, Failing(p, y)
    PROVE  Plans(p, y)
<1>1. touched' = touched
  BY DEF Failing, Quiet, ghosts, Fault
<1>2. PlanOK(y)
  BY DEF Failing, PlanOK
<1> QED
  BY <1>1, <1>2 DEF Failing, Plans

LEMMA TogetherStays ==
    ASSUME NEW old, NEW new, Together(old),
           \A a \in ServiceAssets :
              \/ new[a] = old[a]
              \/ a = Service /\ old[a] # "none" /\ new[a] \in {"present", "removed"}
    PROVE  Together(new)
<1>1. Service \in ServiceAssets /\ Release \in ServiceAssets /\ Volume \in ServiceAssets
  BY DEF ServiceAssets
<1> QED
  BY <1>1, NamesDiffer DEF Together, Standing

LEMMA SetupPlans ==
    ASSUME PlansOK, NEW p \in Procs, Setup(p)
    PROVE  \E y \in Process : Plans(p, y)
<1>1. Typed /\ PlanOK(proc[p]) /\ Together(disk.own)
  BY DEF PlansOK, DraftsOK
<1>2. CASE WorkOfSetup(p)
  <2>1. PICK y \in Process : Working(p, y)
    BY <1>1, <1>2, SetupWorks
  <2>2. /\ y.pc \notin {"previewed", "check", "restore", "remove", "idle"}
        /\ proc[p].pc \notin {"failed", "remove"}
    BY <2>1 DEF Working, SetupPcs, InClient
  <2>3. Together(proc[p].draft.own)
    BY <1>1, <2>2 DEF PlanOK
  <2>4. Together(y.draft.own)
    BY <2>1, <2>3, TogetherStays DEF Working
  <2>5. PlanOK(y)
    BY <2>2, <2>4 DEF PlanOK
  <2>6. touched' = touched
    BY <2>1 DEF Working, Quiet, ghosts, Fault
  <2> QED
    BY <2>1, <2>5, <2>6 DEF Working, Plans
<1>3. CASE StartSetup(p)
  <2>1. PICK y \in Process :
          /\ proc' = [proc EXCEPT ![p] = y] /\ y.seen = disk /\ y.draft.own = disk.own
          /\ y.pc = CASE disk.inst.status = "none" -> "install"
                      [] disk.inst.status = "data-retained" -> "deploy"
                      [] OTHER -> "verify-prior"
          /\ y.effects = "none" /\ y.broken = FALSE /\ y.result = "success"
    BY <1>1, <1>3, StartBecomes
  <2>2. UNCHANGED <<disk, world, touched>>
    BY <1>1, <1>3, StartBecomes
  <2>3. y.pc \in {"install", "deploy", "verify-prior"}
    BY <2>1
  <2>4. PlanOK(y)
    BY <1>1, <2>1, <2>3 DEF PlanOK
  <2> QED
    BY <2>1, <2>2, <2>4 DEF Plans
<1>4. CASE Conclude(p)
  <2>1. PICK y \in Process :
          /\ proc' = [proc EXCEPT ![p] = y] /\ y.pc = "publish"
          /\ \A a \in Assets : y.draft.own[a] =
                IF Fresh(p) /\ a \in ServiceAssets THEN "present" ELSE proc[p].draft.own[a]
          /\ UNCHANGED <<disk, world, touched>>
    BY <1>1, <1>4, ConcludeTyped
  <2>2. proc[p].pc = "clients"
    BY <1>4 DEF Conclude
  <2>3. Together(proc[p].draft.own)
    BY <1>1, <2>2 DEF PlanOK
  <2>4. ServiceAssets \subseteq Assets
    BY NamesDiffer
  <2>5. Together(y.draft.own)
    <3>1. CASE Fresh(p)
      <4>1. \A a \in ServiceAssets : y.draft.own[a] = "present"
        BY <2>1, <2>4, <3>1
      <4> QED
        BY <4>1 DEF Together, ServiceAssets, Standing
    <3>2. CASE ~Fresh(p)
      <4>1. \A a \in ServiceAssets : y.draft.own[a] = proc[p].draft.own[a]
        BY <2>1, <2>4, <3>2
      <4> QED
        BY <2>3, <4>1, TogetherStays
    <3> QED
      BY <3>1, <3>2
  <2>6. PlanOK(y)
    BY <2>1, <2>5 DEF PlanOK
  <2> QED
    BY <2>1, <2>6 DEF Plans
<1> QED
  BY <1>2, <1>3, <1>4 DEF Setup, WorkOfSetup

LEMMA PreviewPlans ==
    ASSUME PlansOK, NEW p \in Procs, Preview(p) \/ Acquire(p) \/ LockRefused(p)
    PROVE  \E y \in Process : Plans(p, y)
<1>1. Typed /\ PlanOK(proc[p]) /\ Together(disk.own)
  BY DEF PlansOK, DraftsOK
<1>2. CASE Preview(p)
  <2>1. PICK y \in Process, command \in Commands \ {"setup"}, c \in Clients :
          /\ proc' = [proc EXCEPT ![p] = y] /\ proc[p].pc = "idle" /\ y.pc = "previewed"
          /\ y.command = command /\ y.todo = Planned(command, c) /\ y.seen = disk
          /\ command = "client-uninstall" => y.client = c
          /\ y.draft = disk /\ y.effects = "none" /\ y.broken = FALSE /\ y.result = "success"
    BY <1>1, <1>2, PreviewBecomes
  <2>2. UNCHANGED <<disk, world, touched>>
    BY <1>1, <1>2, PreviewBecomes
  <2>3. TodoOK(y)
    <3>1. CASE command = "client-uninstall"
      <4>1. y.todo \subseteq {Mcp(c), Plugin(c), Credential(c)}
        BY <2>1, <3>1 DEF Planned, Held, Kept
      <4>2. y.todo \cap ServiceAssets = {}
        BY <4>1, NamesDiffer DEF ServiceAssets
      <4> QED
        BY <2>1, <3>1, <4>2 DEF TodoOK
    <3>2. CASE command = "uninstall"
      <4>1. y.todo = {a \in {Service} \cup Profiles : disk.own[a] = "present"}
        BY <2>1, <3>2 DEF Planned, Held
      <4> QED
        BY <2>1, <3>2, <4>1 DEF TodoOK
    <3>3. CASE command = "purge"
      <4>1. y.todo = {a \in Assets : disk.own[a] \in Standing}
        BY <2>1, <3>3 DEF Planned, Kept, Standing
      <4> QED
        BY <2>1, <3>3, <4>1 DEF TodoOK
    <3>4. CASE command = "repair"
      <4>1. y.todo = {a \in {Service} \cup Profiles : disk.own[a] # "none" /\ world[a] = "absent"}
        BY <2>1, <3>4 DEF Planned
      <4> QED
        BY <2>1, <3>4, <4>1 DEF TodoOK
    <3> QED
      BY <3>1, <3>2, <3>3, <3>4 DEF Commands
  <2>4. PlanOK(y)
    BY <1>1, <2>1, <2>3 DEF PlanOK
  <2> QED
    BY <2>1, <2>2, <2>4 DEF Plans
<1>3. CASE Acquire(p)
  <2>1. PICK y \in Process :
          Becomes(p, y, "check", proc[p].todo, proc[p].effects, proc[p].draft, proc[p].left)
    BY <1>1, <1>3, AcquireTyped
  <2>2. UNCHANGED <<disk, world, touched>> /\ proc[p].pc = "previewed"
    BY <1>1, <1>3, AcquireTyped
  <2>3. /\ proc' = [proc EXCEPT ![p] = y] /\ y.pc = "check" /\ y.draft = proc[p].draft
        /\ y.current = proc[p].current /\ y.todo = proc[p].todo /\ y.command = proc[p].command
        /\ y.effects = proc[p].effects /\ y.broken = proc[p].broken /\ y.result = proc[p].result
    BY <2>1 DEF Becomes, Follows
  <2>4. PlanOK(y)
    BY <1>1, <2>2, <2>3 DEF PlanOK, TodoOK, Fixed
  <2> QED
    BY <2>2, <2>3, <2>4 DEF Plans
<1>4. CASE LockRefused(p)
  <2>1. proc' = [proc EXCEPT ![p] = Idle] /\ UNCHANGED <<disk, world, touched>>
    BY <1>1, <1>4, LockRefusedTyped
  <2> HIDE DEF Idle
  <2> QED
    BY <2>1, IdlePlan, IdleType DEF Plans
<1> QED
  BY <1>2, <1>3, <1>4

LEMMA CheckPlans ==
    ASSUME PlansOK, NEW p \in Procs, CheckAll(p) \/ CheckRepair(p) \/ CheckClient(p)
    PROVE  \E y \in Process : Plans(p, y)
<1>1. Typed /\ PlanOK(proc[p])
  BY DEF PlansOK, DraftsOK
<1>2. CASE CheckAll(p) \/ CheckRepair(p)
  <2>1. UNCHANGED <<disk, world, touched>> /\ proc[p].pc = "check"
    BY <1>1, <1>2, CheckAllBecomes
  <2>2. PICK y \in Process :
          \/ Failing(p, y)
          \/ /\ Becomes(p, y, "remove", proc[p].todo, proc[p].effects, proc[p].draft, proc[p].left)
             /\ proc[p].command \in {"uninstall", "purge"}
             /\ proc[p].current = {"inst", "own"}
          \/ /\ Becomes(p, y, "restore", proc[p].todo, proc[p].effects, proc[p].draft, proc[p].left)
             /\ proc[p].command = "repair"
    BY <1>1, <1>2, CheckAllBecomes
  <2>3. CASE Failing(p, y)
    BY <2>3, FailPlans
  <2>4. CASE ~Failing(p, y)
    <3>1. /\ proc' = [proc EXCEPT ![p] = y] /\ y.draft = proc[p].draft /\ y.todo = proc[p].todo
          /\ y.command = proc[p].command /\ y.current = proc[p].current
          /\ \/ y.pc = "remove" /\ proc[p].current = {"inst", "own"}
             \/ y.pc = "restore"
      BY <2>2, <2>4 DEF Becomes, Follows
    <3>2. PlanOK(y)
      BY <1>1, <2>1, <3>1 DEF PlanOK, TodoOK, Fixed
    <3> QED
      BY <2>1, <3>1, <3>2 DEF Plans
  <2> QED
    BY <2>3, <2>4
<1>3. CASE CheckClient(p)
  <2>1. UNCHANGED <<disk, world, touched>> /\ proc[p].pc = "check" /\ proc[p].command = "client-uninstall"
    BY <1>1, <1>3, CheckClientBecomes
  <2>2. PICK y \in Process :
          \/ Failing(p, y)
          \/ \E d \in Disk, t \in SUBSET Assets :
                /\ Becomes(p, y, "remove", t, proc[p].effects, d, proc[p].left)
                /\ \A a \in Assets : d.own[a] = IF a \in proc[p].todo THEN "removed"
                                                ELSE proc[p].draft.own[a]
                /\ t \subseteq proc[p].todo
    BY <1>1, <1>3, CheckClientBecomes
  <2>3. CASE Failing(p, y)
    BY <2>3, FailPlans
  <2>4. CASE ~Failing(p, y)
    <3>1. PICK d \in Disk, t \in SUBSET Assets :
             /\ Becomes(p, y, "remove", t, proc[p].effects, d, proc[p].left)
             /\ \A a \in Assets : d.own[a] = IF a \in proc[p].todo THEN "removed"
                                             ELSE proc[p].draft.own[a]
             /\ t \subseteq proc[p].todo
      BY <2>2, <2>4
    <3>2. /\ y.pc = "remove" /\ y.todo = t /\ y.draft = d /\ y.command = "client-uninstall"
          /\ proc' = [proc EXCEPT ![p] = y]
      BY <2>1, <3>1 DEF Becomes, Follows
    <3>3. proc[p].todo \cap ServiceAssets = {} /\ Together(proc[p].draft.own)
      BY <1>1, <2>1 DEF PlanOK, TodoOK
    <3>4. \A a \in ServiceAssets : d.own[a] = proc[p].draft.own[a]
      BY <3>1, <3>3, NamesDiffer
    <3>5. Together(d.own)
      BY <3>3, <3>4, TogetherStays
    <3>6. PlanOK(y)
      BY <3>1, <3>2, <3>3, <3>5 DEF PlanOK, TodoOK
    <3> QED
      BY <2>1, <3>2, <3>6 DEF Plans
  <2> QED
    BY <2>3, <2>4
<1> QED
  BY <1>2, <1>3

LEMMA RemovePlans ==
    ASSUME PlansOK, NEW p \in Procs, Remove(p)
    PROVE  \E y \in Process : Plans(p, y)
<1>1. Typed /\ PlanOK(proc[p]) /\ proc[p].draft.own \in [Assets -> Dispositions]
      /\ ShapeOK(proc[p])
  BY Operands, Process_ DEF PlansOK, DraftsOK
<1>2. PICK y \in Process, b \in Assets, d \in Disk :
        /\ Becomes(p, y, "remove", proc[p].todo \ {b}, Proven(proc[p].effects), d, proc[p].left)
        /\ d.own = [proc[p].draft.own EXCEPT ![b] = "removed"]
        /\ InTurn(p, b) /\ Removable(p, b)
        /\ disk'.own = disk.own /\ touched' = touched
  BY <1>1, RemoveBecomes
<1>3. /\ proc' = [proc EXCEPT ![p] = y] /\ y.pc = "remove" /\ y.draft = d /\ y.todo = proc[p].todo \ {b}
      /\ y.command = proc[p].command /\ y.current = proc[p].current
      /\ proc[p].pc = "remove" /\ b \in proc[p].todo /\ proc[p].command # "repair"
  BY <1>1, <1>2 DEF Becomes, Follows, InTurn, ShapeOK
<1>4. Service \in Assets /\ \A a \in Assets : d.own[a] = IF a = b THEN "removed" ELSE proc[p].draft.own[a]
  BY <1>1, <1>2, NamesDiffer DEF ServiceAssets
<1>5. TodoOK(proc[p]) /\ (proc[p].command \in {"uninstall", "purge"} => Fixed(proc[p]))
      /\ (proc[p].command # "purge" => Together(proc[p].draft.own))
  BY <1>1, <1>3 DEF PlanOK
<1>6. TodoOK(y)
  BY <1>3, <1>4, <1>5 DEF TodoOK, Fixed, Standing
<1>7. proc[p].command # "purge" => Together(d.own)
  <2>1. SUFFICES ASSUME proc[p].command # "purge"
                 PROVE  Together(d.own)
    OBVIOUS
  <2>2. CASE proc[p].command = "client-uninstall"
    <3>1. b \notin ServiceAssets
      BY <1>3, <1>5, <2>2 DEF TodoOK
    <3>2. \A a \in ServiceAssets : d.own[a] = proc[p].draft.own[a]
      BY <1>4, <3>1, NamesDiffer
    <3> QED
      BY <1>5, <2>1, <3>2, TogetherStays
  <2>3. CASE proc[p].command = "uninstall"
    <3>1. b \in {Service} \cup Profiles
      BY <1>3, <1>5, <2>3 DEF TodoOK
    <3>2. b # Release /\ b # Volume
      BY <3>1, NamesDiffer
    <3>3. d.own[Release] = proc[p].draft.own[Release] /\ d.own[Volume] = proc[p].draft.own[Volume]
      BY <1>4, <3>2, NamesDiffer DEF ServiceAssets
    <3>4. d.own[Service] = "removed" \/ d.own[Service] = proc[p].draft.own[Service]
      BY <1>4
    <3> QED
      BY <1>5, <2>1, <3>3, <3>4 DEF Together
  <2>4. proc[p].command \in {"uninstall", "client-uninstall", "purge"}
    BY <1>1, <1>3, Process_, ProcessFields DEF ShapeOK, Commands
  <2> QED
    BY <2>1, <2>2, <2>3, <2>4
<1>8. PlanOK(y)
  BY <1>3, <1>5, <1>6, <1>7 DEF PlanOK, Fixed
<1> QED
  BY <1>2, <1>3, <1>8 DEF Plans

\* Of what is stopped nothing stands on the record any more.
LEMMA StoppedService ==
    ASSUME PlansOK, NEW p \in Procs, proc[p].pc = "remove", proc[p].command = "uninstall",
           proc[p].todo = {}
    PROVE  /\ Together(proc[p].draft.own)
           /\ Together(Retained(proc[p].draft.own))
           /\ Retained(proc[p].draft.own)[Service] \notin Standing
           /\ \A a \in Assets : Retained(proc[p].draft.own)[a] \in Standing
                                  <=> proc[p].draft.own[a] \in Standing
<1>1. PlanOK(proc[p])
  BY DEF PlansOK
<1>2. Fixed(proc[p]) /\ TodoOK(proc[p]) /\ Together(proc[p].draft.own)
  BY <1>1 DEF PlanOK
<1>3. proc[p].draft.own[Service] \notin Standing
  BY <1>2 DEF TodoOK, Together, Standing
<1>4. \A a \in Assets : Retained(proc[p].draft.own)[a] =
          IF proc[p].draft.own[a] = "present" THEN "retained" ELSE proc[p].draft.own[a]
  BY DEF Retained
<1>5. Service \in Assets /\ Release \in Assets /\ Volume \in Assets
  BY NamesDiffer DEF ServiceAssets
<1>6. \A a \in Assets : Retained(proc[p].draft.own)[a] \in Standing
                          <=> proc[p].draft.own[a] \in Standing
  BY <1>4 DEF Standing
<1>7. Together(Retained(proc[p].draft.own))
  BY <1>2, <1>3, <1>4, <1>5, <1>6 DEF Together, Standing
<1> QED
  BY <1>2, <1>3, <1>5, <1>6, <1>7

LEMMA StopPlans ==
    ASSUME PlansOK, NEW p \in Procs, StopService(p) \/ PurgeDone(p) \/ ClientDone(p)
    PROVE  \E y \in Process : Plans(p, y)
<1>1. Typed /\ PlanOK(proc[p]) /\ Together(disk.own)
      /\ proc[p].draft.own \in [Assets -> Dispositions]
  BY Operands DEF PlansOK, DraftsOK
<1>2. CASE StopService(p)
  <2>1. PICK y \in Process, d \in Disk :
          /\ Becomes(p, y, "publish", proc[p].todo, Proven(proc[p].effects), d, <<"own", "inst">>)
          /\ proc[p].pc = "remove" /\ proc[p].command = "uninstall" /\ proc[p].todo = {}
          /\ d.own = Retained(proc[p].draft.own)
          /\ UNCHANGED <<disk, touched>>
    BY <1>1, <1>2, StopBecomes
  <2>2. proc' = [proc EXCEPT ![p] = y] /\ y.pc = "publish" /\ y.draft = d
    BY <2>1 DEF Becomes
  <2>3. Together(d.own)
    BY <2>1, StoppedService
  <2>4. PlanOK(y)
    BY <2>2, <2>3 DEF PlanOK
  <2> QED
    BY <2>1, <2>2, <2>4 DEF Plans
<1>3. CASE PurgeDone(p)
  <2>1. PICK y \in Process, d \in Disk :
          /\ Becomes(p, y, "publish", proc[p].todo, proc[p].effects, d, <<"own", "inst">>)
          /\ proc[p].pc = "remove" /\ proc[p].command = "purge" /\ proc[p].todo = {}
          /\ d.own = proc[p].draft.own
          /\ UNCHANGED <<disk, world, touched>>
    BY <1>1, <1>3, PurgeBecomes
  <2>2. proc' = [proc EXCEPT ![p] = y] /\ y.pc = "publish" /\ y.draft = d
    BY <2>1 DEF Becomes
  <2>3. Fixed(proc[p]) /\ TodoOK(proc[p])
    BY <1>1, <2>1 DEF PlanOK
  <2>4. \A a \in Assets : d.own[a] \notin Standing
    BY <2>1, <2>3 DEF TodoOK
  <2>5. Together(d.own)
    <3>1. Service \in Assets /\ Release \in Assets /\ Volume \in Assets
      BY NamesDiffer DEF ServiceAssets
    <3> QED
      BY <2>4, <3>1 DEF Together, Standing
  <2>6. PlanOK(y)
    BY <2>2, <2>5 DEF PlanOK
  <2> QED
    BY <2>1, <2>2, <2>6 DEF Plans
<1>4. CASE ClientDone(p)
  <2>1. PICK y \in Process :
          \/ Failing(p, y)
          \/ /\ proc' = [proc EXCEPT ![p] = y] /\ y.pc = "publish"
             /\ y.draft.own = proc[p].draft.own
             /\ proc[p].pc = "remove" /\ proc[p].command = "client-uninstall"
             /\ UNCHANGED <<disk, world, touched>>
    BY <1>1, <1>4, ClientBecomes DEF Becomes
  <2>2. CASE Failing(p, y)
    BY <2>2, FailPlans
  <2>3. CASE ~Failing(p, y)
    <3>1. Together(y.draft.own)
      BY <1>1, <2>1, <2>3 DEF PlanOK
    <3>2. PlanOK(y)
      BY <2>1, <2>3, <3>1 DEF PlanOK
    <3> QED
      BY <2>1, <2>3, <3>2 DEF Plans
  <2> QED
    BY <2>2, <2>3
<1> QED
  BY <1>2, <1>3, <1>4

LEMMA RestorePlans ==
    ASSUME PlansOK, NEW p \in Procs, Restore(p) \/ RepairDone(p)
    PROVE  \E y \in Process : Plans(p, y)
<1>1. Typed /\ PlanOK(proc[p]) /\ proc[p].draft.own \in [Assets -> Dispositions]
      /\ ShapeOK(proc[p])
  BY Operands, Process_ DEF PlansOK, DraftsOK
<1>2. CASE Restore(p)
  <2>1. PICK y \in Process, b \in proc[p].todo, d \in Disk, e \in {proc[p].effects, Proven(proc[p].effects)} :
          /\ Becomes(p, y, "restore", proc[p].todo \ {b}, e, d, proc[p].left)
          /\ proc[p].pc = "restore" /\ "own" \in proc[p].current
          /\ \/ /\ world[b] = "absent" /\ Put(b, "ours") /\ e = Proven(proc[p].effects)
                /\ d.own = [proc[p].draft.own EXCEPT
                              ![b] = IF @ = "removed" THEN "present" ELSE @]
             \/ world' = world /\ world[b] # "absent" /\ d = proc[p].draft /\ e = proc[p].effects
          /\ OutTyped /\ Quiet /\ UNCHANGED <<disk, touched>>
    BY <1>1, <1>2, RestoreBecomes
  <2>2. /\ proc' = [proc EXCEPT ![p] = y] /\ y.pc = "restore" /\ y.draft = d
        /\ y.command = proc[p].command /\ y.current = proc[p].current
        /\ y.todo = proc[p].todo \ {b} /\ proc[p].command = "repair"
    BY <1>1, <2>1 DEF Becomes, Follows, ShapeOK
  <2>3. TodoOK(proc[p]) /\ Fixed(proc[p]) /\ Together(proc[p].draft.own)
    BY <1>1, <2>1 DEF PlanOK, Fixed
  <2>4. b \in {Service} \cup Profiles /\ proc[p].draft.own[b] # "none"
    BY <2>2, <2>3 DEF TodoOK
  <2>5. \A a \in Assets : \/ d.own[a] = proc[p].draft.own[a]
                          \/ a = b /\ d.own[a] = "present"
    BY <1>1, <2>1
  <2>6. \A a \in ServiceAssets :
            \/ d.own[a] = proc[p].draft.own[a]
            \/ a = Service /\ proc[p].draft.own[a] # "none" /\ d.own[a] \in {"present", "removed"}
    BY <2>4, <2>5, NamesDiffer DEF ServiceAssets
  <2>7. Together(d.own)
    BY <2>3, <2>6, TogetherStays
  <2>8. TodoOK(y)
    <3>1. \A a \in y.todo : a \in Assets /\ a \in proc[p].todo
      BY <2>2, Operands, <1>1
    <3>2. y.todo \subseteq {Service} \cup Profiles
      BY <2>2, <2>3, <3>1 DEF TodoOK
    <3>3. \A a \in y.todo : d.own[a] # "none"
      BY <2>2, <2>3, <2>5, <3>1 DEF TodoOK
    <3> QED
      BY <2>2, <3>2, <3>3 DEF TodoOK
  <2>9. PlanOK(y)
    BY <2>2, <2>7, <2>8 DEF PlanOK
  <2> QED
    BY <2>1, <2>2, <2>9 DEF Plans
<1>3. CASE RepairDone(p)
  <2>1. PICK y \in Process :
          /\ proc' = [proc EXCEPT ![p] = y] /\ y.draft = proc[p].draft
          /\ y.pc \in {"commit", "publish"}
    BY <1>1, <1>3, RepairBecomes DEF Becomes
  <2>2. proc[p].pc = "restore" /\ UNCHANGED <<disk, world, touched>>
    BY <1>1, <1>3, RepairBecomes
  <2>3. PlanOK(y)
    BY <1>1, <2>1, <2>2 DEF PlanOK
  <2> QED
    BY <2>1, <2>2, <2>3 DEF Plans
<1> QED
  BY <1>2, <1>3

LEMMA RemovingPlans ==
    ASSUME PlansOK, NEW p \in Procs, Removing(p)
    PROVE  \E y \in Process : Plans(p, y)
<1>1. Typed
  BY DEF PlansOK, DraftsOK
<1>2. CASE RemoveRefused(p) \/ RemoveFails(p) \/ StopFails(p) \/ RestoreFails(p)
  BY <1>1, <1>2, RemoveFailing, OtherFailing, FailPlans
<1> QED
  BY <1>2, PreviewPlans, CheckPlans, RemovePlans, StopPlans, RestorePlans DEF Removing

\* A preview that is out of date plans nothing that counts.
LEMMA StalePlans ==
    ASSUME PlansOK, NEW p \in Procs, NEW r \in Records, NEW q \in Procs
    PROVE  PlanOK(Stale(p, r)[q])
<1> DEFINE s == Stale(p, r)[q]
<1>1. Typed /\ PlanOK(proc[q])
  BY DEF PlansOK, DraftsOK
<1>2. \/ s = proc[q]
      \/ /\ s.pc = "previewed" /\ proc[q].pc = "previewed"
         /\ \/ s.effects = "none" /\ ~s.broken /\ s.result = "success"
            \/ /\ s.effects = proc[q].effects /\ s.broken = proc[q].broken
               /\ s.result = proc[q].result
         /\ \/ /\ s.current = {} /\ s.draft = NoRecords
               /\ s.todo = {} \/ s.command = "repair"
            \/ /\ s.current \subseteq proc[q].current
               /\ s.draft = proc[q].draft
               /\ s.todo = proc[q].todo
               /\ s.command = proc[q].command
  BY <1>1, StaleType
<1> HIDE DEF s
<1>3. CASE s = proc[q]
  BY <1>1, <1>3 DEF s
<1>4. CASE s # proc[q]
  <2>1. s.effects = "none" /\ ~s.broken /\ s.result = "success" /\ s.pc = "previewed"
    BY <1>1, <1>2, <1>4 DEF PlanOK
  <2>2. TodoOK(s) /\ Together(s.draft.own)
    <3>1. CASE /\ s.current = {} /\ s.draft = NoRecords
               /\ s.todo = {} \/ s.command = "repair"
      BY <3>1, TogetherNone DEF TodoOK, Fixed
    <3>2. CASE /\ s.current \subseteq proc[q].current
               /\ s.draft = proc[q].draft
               /\ s.todo = proc[q].todo
               /\ s.command = proc[q].command
      <4>1. TodoOK(proc[q]) /\ Together(proc[q].draft.own)
        BY <1>1, <1>2, <1>4 DEF PlanOK
      <4> QED
        BY <3>2, <4>1 DEF TodoOK, Fixed
    <3> QED
      BY <1>2, <1>4, <3>1, <3>2
  <2>3. PlanOK(s)
    BY <2>1, <2>2 DEF PlanOK
  <2> QED
    BY <2>3 DEF s
<1> QED
  BY <1>3, <1>4

LEMMA PublishPlans ==
    ASSUME PlansOK, DraftsOK', NEW p \in Procs, NEW r \in Records, NEW y \in Process,
           proc[p].pc = "publish", disk' = Written(p, r), proc' = [Stale(p, r) EXCEPT ![p] = y],
           touched' = touched,
           y.pc = "failed" \/ (y.pc \in {"publish", "commit"} /\ y.draft = proc[p].draft)
    PROVE  PlansOK'
<1>1. Typed /\ PlanOK(proc[p]) /\ Together(disk.own)
  BY DEF PlansOK, DraftsOK
<1>2. \A q \in Procs : proc'[q] = IF q = p THEN y ELSE Stale(p, r)[q]
  BY <1>1, StaleType
<1>3. Together(proc[p].draft.own)
  BY <1>1 DEF PlanOK
<1>4. disk'.own = disk.own \/ disk'.own = proc[p].draft.own
  BY <1>1, WrittenType
<1>5. Together(disk.own)'
  BY <1>1, <1>3, <1>4 DEF Together
<1>6. PlanOK(y)
  BY <1>3 DEF PlanOK
<1>7. \A q \in Procs : PlanOK(proc'[q])
  BY <1>2, <1>6, StalePlans
<1>8. \A q \in Procs : PlanOK(proc[q])'
  BY <1>7 DEF PlanOK, TodoOK, Fixed, Together
<1> QED
  BY <1>5, <1>8 DEF PlansOK

LEMMA MeddlePlans ==
    ASSUME PlansOK, Meddle
    PROVE  PlansOK'
<1>1. Typed /\ DraftsOK'
  BY MeddleDrafts DEF PlansOK, DraftsOK
<1>2. PICK b \in Profiles \cup {Service}, v \in Conditions :
        touched' = touched \cup {b} /\ world' = [world EXCEPT ![b] = v]
  BY <1>1, MeddleBecomes
<1>3. touched' \subseteq {Service} \cup Profiles /\ disk' = disk
  BY <1>1, <1>2, MeddleBecomes DEF PlansOK
<1>4. ASSUME NEW q \in Procs
      PROVE  PlanOK(proc[q])'
  <2>1. proc[q] \in Process /\ PlanOK(proc[q])
    BY <1>1, Process_ DEF PlansOK
  <2>2. PICK f \in SUBSET {"mcp", "plugin"} : proc'[q] = [proc[q] EXCEPT !.foul = f]
    BY <1>1, MeddleBecomes
  <2>3. /\ proc'[q].pc = proc[q].pc /\ proc'[q].draft = proc[q].draft
        /\ proc'[q].current = proc[q].current /\ proc'[q].todo = proc[q].todo
        /\ proc'[q].command = proc[q].command /\ proc'[q].effects = proc[q].effects
        /\ proc'[q].broken = proc[q].broken /\ proc'[q].result = proc[q].result
    BY <2>1, <2>2 DEF Process
  <2> QED
    BY <2>1, <2>3 DEF PlanOK, TodoOK, Fixed, Together
<1>5. Together(disk.own)'
  BY <1>3 DEF PlansOK, Together
<1> QED
  BY <1>1, <1>3, <1>4, <1>5 DEF PlansOK

LEMMA PlansNext ==
    ASSUME PlansOK, [Next]_vars
    PROVE  PlansOK'
<1>1. Typed /\ DraftsOK'
  BY DraftsNext DEF PlansOK, DraftsOK
<1>2. ASSUME NEW p \in Procs, Setup(p) \/ Removing(p)
      PROVE  PlansOK'
  BY <1>1, <1>2, SetupPlans, RemovingPlans, PlansKept
<1>3. ASSUME NEW p \in Procs, Ending(p)
      PROVE  PlansOK'
  <2>1. CASE Commit(p) \/ Failed(p) \/ Crash(p)
    <3>1. Ends(p)
      BY <1>1, <2>1, EndTyped
    <3>2. Plans(p, Idle)
      <4> HIDE DEF Idle
      <4> QED
        BY <3>1, IdlePlan DEF Ends, Plans
    <3> QED
      BY <1>1, <3>2, PlansKept
  <2>2. CASE Publish(p)
    <3>1. PICK r \in Records : r = Head(proc[p].left)
      BY <1>1, <2>2, PublishBecomes
    <3>2. PICK y \in Process :
            /\ proc' = [Stale(p, r) EXCEPT ![p] = y] /\ y.draft = proc[p].draft
            /\ y.pc \in {"commit", "publish"}
      BY <1>1, <2>2, <3>1, PublishBecomes
    <3>3. disk' = Written(p, r) /\ UNCHANGED <<world, touched>> /\ proc[p].pc = "publish"
      BY <1>1, <2>2, <3>1, PublishBecomes
    <3> QED
      BY <1>1, <3>2, <3>3, PublishPlans
  <2>3. CASE PublishFails(p)
    <3>1. PICK r \in Records : r = Head(proc[p].left)
      BY <1>1, <2>3, PublishFailsBecomes
    <3>2. proc[p].pc = "publish" /\ UNCHANGED <<world, touched>>
      BY <1>1, <2>3, PublishFailsBecomes
    <3>3. PICK y \in Process :
            \/ Failing(p, y)
            \/ /\ disk' = Written(p, r)
               /\ proc' = [Stale(p, r) EXCEPT ![p] = y]
               /\ y.pc = "failed"
      BY <1>1, <2>3, <3>1, PublishFailsBecomes
    <3> QED
      BY <1>1, <3>2, <3>3, PublishPlans, FailPlans, PlansKept
  <2> QED
    BY <1>3, <2>1, <2>2, <2>3 DEF Ending
<1>4. CASE UNCHANGED vars
  BY <1>1, <1>4 DEF vars, outside, ghosts, PlansOK, PlanOK, TodoOK, Fixed, Together
<1> QED
  BY <1>2, <1>3, <1>4, MeddlePlans DEF Next

LEMMA InitPlans == Init => PlansOK
<1> SUFFICES ASSUME Init PROVE PlansOK
  OBVIOUS
<1>1. proc = [p \in Procs |-> Idle] /\ disk = NoRecords /\ touched = {}
  BY DEF Init
<1> HIDE DEF Idle
<1>2. \A p \in Procs : PlanOK(proc[p])
  BY <1>1, IdlePlan
<1> QED
  BY <1>1, <1>2, InitDrafts, TogetherNone DEF PlansOK

(***************************************************************************)
(* The record is true: what each process knows of records and things.      *)
(***************************************************************************)
\* The ownership says of a thing what is the case.
Agrees(own, a) == own[a] \in Standing <=> world[a] = "ours"

\* It does of all of these that the user has left alone.
Tells(own, S) == \A a \in S \ touched : Agrees(own, a)

\* Nothing has been lost: the command may still come to what it reports.
Going(x) == ~x.broken /\ x.result # "recovery-required"

IsFresh(x) == x.seen.inst.status = "none"

At(x, k) == <<x.client, k>>
Mine(x) == {At(x, "mcp"), At(x, "plugin")}

\* What the draft of a setup is to tell of once the service is there.
Deployed(x) == IF IsFresh(x) THEN Profiles ELSE Things

\* As long as no effect is on record the records tell the truth; and what is half done is on
\* record as an effect.
EffectsOK(x) ==
    /\ x.effects = "none" => Tells(disk.own, Things)
    /\ x.broken \/ x.result = "recovery-required" => x.effects # "none"
    /\ x.pc \in SetupPcs /\ (x.made \/ x.tried # {} \/ x.pc \in {"store", "unstore"}) =>
          x.effects # "none"
    /\ x.broken => x.pc \in {"catch", "unplug", "unmcp", "revoke"}
    /\ x.pc = "unplug" => "plugin" \in x.tried
    /\ x.pc = "unmcp" => "mcp" \in x.tried
    /\ x.pc \in SetupPcs \ InClient => x.tried = {}

\* What is planned for the client in hand is off the record; what has been tried is ours when
\* the last of it has been done, and is not when it has been undone.
ClientOK(x) ==
    /\ x.tried \subseteq x.plan
    /\ x.pc \in {"key", "store", "mcp"} => x.tried = {} /\ "mcp" \in x.plan
    /\ x.pc = "unstore" => x.tried = {}
    /\ x.pc = "plugin" => x.tried = x.plan \ {"plugin"} /\ "plugin" \in x.plan
    /\ x.pc = "verify" => x.tried = x.plan
    /\ x.pc \in {"plugin", "verify"} =>
          \A k \in x.tried : At(x, k) \notin touched => world[At(x, k)] = "ours"
    /\ x.pc = "unmcp" /\ "plugin" \in x.tried =>
          (At(x, "plugin") \notin touched => world[At(x, "plugin")] # "ours")
    /\ x.pc = "revoke" =>
          \A k \in x.tried : At(x, k) \notin touched => world[At(x, k)] # "ours"
    /\ \A k \in x.plan : At(x, k) \notin touched => x.draft.own[At(x, k)] \notin Standing
    /\ \A k \in Components \ x.tried : At(x, k) \notin touched => Agrees(x.draft.own, At(x, k))

SetupTruth(x) ==
    /\ x.pc = "install" => IsFresh(x)
    /\ x.pc = "verify-prior" => ~IsFresh(x)
    /\ x.pc = "deploy" => IsFresh(x) \/ x.seen.inst.status = "data-retained"
    /\ x.pc \in {"install", "verify-prior"} => Tells(x.draft.own, Things)
    /\ x.pc \in {"deploy", "clients"} => Tells(x.draft.own, Deployed(x))
    /\ x.pc \in InClient => Tells(x.draft.own, Deployed(x) \ Mine(x)) /\ ClientOK(x)
    /\ x.pc = "deploy" /\ IsFresh(x) => \A a \in {Release, Paths} \ touched : world[a] = "ours"
    /\ x.pc \in InClient \cup {"clients"} /\ IsFresh(x) =>
          \A a \in ServiceAssets \ touched : world[a] = "ours"

RemovalTruth(x) ==
    /\ x.pc = "remove" /\ x.command = "uninstall" => Tells(x.draft.own, Things \ {Service})
    /\ x.pc = "remove" /\ x.command = "purge" => Tells(x.draft.own, Things)
    /\ x.pc = "remove" /\ x.command = "client-uninstall" => Tells(x.draft.own, Things \ x.todo)
    /\ x.pc = "restore" /\ Fixed(x) => Tells(x.draft.own, Things)
    /\ x.pc = "restore" /\ ~Fixed(x) => x.effects = "none"

\* The lists of what is to write that the ownership is not on any more.
Begun == {l \in Lists : \A i \in DOMAIN l : l[i] # "own"}

LastTruth(x) ==
    /\ x.pc = "publish" => Tells(x.draft.own, Things)
    /\ x.pc = "publish" /\ x.left \in Begun => disk.own = x.draft.own
    /\ x.pc = "commit" => Tells(disk.own, Things)

TruthOK(x) ==
    /\ EffectsOK(x)
    /\ Going(x) => SetupTruth(x) /\ RemovalTruth(x) /\ LastTruth(x)

TruthInv ==
    /\ PlansOK
    /\ trouble = "none" =>
          /\ holder = None => Tells(disk.own, Things)
          /\ \A p \in Procs : proc[p].pc \notin Free => TruthOK(proc[p])

\* A step that leaves the draft and what has been read as they are.
Steps(x, y, pc, e, b, t) ==
    /\ y.pc = pc /\ y.effects = e /\ y.broken = b /\ y.tried = t
    /\ y.client = x.client /\ y.plan = x.plan /\ y.seen = x.seen /\ y.draft.own = x.draft.own
    /\ y.result = x.result /\ (y.made => x.made \/ x.pc = "store")

LEMMA GotoSteps ==
    ASSUME Typed, NEW p \in Procs, NEW pc, Goto(p, pc)
    PROVE  \E y : /\ proc' = [proc EXCEPT ![p] = y]
                  /\ Steps(proc[p], y, pc, proc[p].effects, proc[p].broken, proc[p].tried)
<1> DEFINE y == [proc[p] EXCEPT !.pc = pc]
<1>1. proc' = [proc EXCEPT ![p] = y]
  BY DEF Goto
<1>2. Steps(proc[p], y, pc, proc[p].effects, proc[p].broken, proc[p].tried)
  BY Process_ DEF Steps, Process
<1> QED
  BY <1>1, <1>2

LEMMA EffectSteps ==
    ASSUME Typed, NEW p \in Procs, NEW pc, Effect(p, pc)
    PROVE  \E y : /\ proc' = [proc EXCEPT ![p] = y]
                  /\ Steps(proc[p], y, pc, Proven(proc[p].effects), proc[p].broken, proc[p].tried)
<1>1. PICK e : e = Proven(proc[p].effects)
  OBVIOUS
<1> DEFINE y == [proc[p] EXCEPT !.pc = pc, !.effects = e]
<1>2. proc' = [proc EXCEPT ![p] = y]
  BY <1>1 DEF Effect
<1>3. Steps(proc[p], y, pc, e, proc[p].broken, proc[p].tried)
  BY Process_ DEF Steps, Process
<1> QED
  BY <1>1, <1>2, <1>3

LEMMA KeySteps ==
    ASSUME Typed, NEW p \in Procs, CreateKey(p) \/ CreateKeyFails(p) \/ ReuseKey(p)
    PROVE  \E y, pc, e, b :
             /\ proc' = [proc EXCEPT ![p] = y]
             /\ Steps(proc[p], y, pc, e, b, proc[p].tried)
             /\ \/ pc = "mcp" /\ e = proc[p].effects /\ b = proc[p].broken
                \/ pc = "store" /\ e = Proven(proc[p].effects) /\ b = proc[p].broken
                \/ pc = "catch" /\ e = "unproven" /\ b \in BOOLEAN
<1> DEFINE x == proc[p]
<1>1. x \in Process
  BY Process_
<1>2. CASE ReuseKey(p)
  <2>1. PICK k : k = x.draft.bridge[x.client]
    OBVIOUS
  <2>2. proc' = [proc EXCEPT ![p] = [x EXCEPT !.pc = "mcp", !.key = k]]
    BY <1>2, <2>1 DEF ReuseKey
  <2>3. Steps(x, [x EXCEPT !.pc = "mcp", !.key = k], "mcp", x.effects, x.broken, x.tried)
    BY <1>1 DEF Steps, Process
  <2> QED
    BY <2>2, <2>3
<1>3. CASE CreateKey(p)
  <2>1. PICK e, k : e = Proven(x.effects) /\ k = keys.issued + 1
    OBVIOUS
  <2>2. proc' = [proc EXCEPT ![p] = [x EXCEPT !.pc = "store", !.effects = e, !.key = k]]
    BY <1>3, <2>1 DEF CreateKey
  <2>3. Steps(x, [x EXCEPT !.pc = "store", !.effects = e, !.key = k], "store", e, x.broken, x.tried)
    BY <1>1 DEF Steps, Process
  <2> QED
    BY <2>1, <2>2, <2>3
<1>4. CASE CreateKeyFails(p)
  <2>1. PICK b \in BOOLEAN :
          proc' = [proc EXCEPT ![p] = [x EXCEPT !.pc = "catch", !.effects = "unproven", !.broken = b]]
    BY <1>4 DEF CreateKeyFails
  <2>2. Steps(x, [x EXCEPT !.pc = "catch", !.effects = "unproven", !.broken = b], "catch",
              "unproven", b, x.tried)
    BY <1>1 DEF Steps, Process
  <2> QED
    BY <2>1, <2>2
<1> QED
  BY <1>2, <1>3, <1>4

LEMMA StoreSteps ==
    ASSUME Typed, NEW p \in Procs,
           \/ StoreCredential(p) \/ StoreFails(p) \/ UndoStore(p) \/ UndoStoreFails(p)
    PROVE  \E y, pc, b :
             /\ proc' = [proc EXCEPT ![p] = y]
             /\ Steps(proc[p], y, pc, proc[p].effects, b, proc[p].tried)
             /\ \/ pc \in {"mcp", "unstore"} /\ b = proc[p].broken /\ proc[p].pc = "store"
                \/ pc = "catch" /\ proc[p].pc = "unstore" /\ b \in BOOLEAN
<1> DEFINE x == proc[p]
           c == x.client
           d(k) == [x.draft EXCEPT !.bridge[c] = k]
           y(pc, m, b, k) == [x EXCEPT !.pc = pc, !.made = m, !.broken = b, !.draft = d(k)]
           Goes(pc, m, b, k) == proc' = [proc EXCEPT ![p] = y(pc, m, b, k)]
<1>1. x \in Process /\ x.draft \in Disk /\ x.broken \in BOOLEAN
  BY Process_, ProcessFields
<1>2. \A k : d(k).own = x.draft.own
  BY <1>1 DEF Disk
<1>3. ASSUME NEW k, NEW pc, NEW m, NEW b, m => x.made \/ x.pc = "store", Goes(pc, m, b, k),
             \/ pc \in {"mcp", "unstore"} /\ b = x.broken /\ x.pc = "store"
             \/ pc = "catch" /\ x.pc = "unstore" /\ b \in BOOLEAN
      PROVE  \E z, pd, e :
             /\ proc' = [proc EXCEPT ![p] = z]
             /\ Steps(x, z, pd, x.effects, e, x.tried)
             /\ \/ pd \in {"mcp", "unstore"} /\ e = x.broken /\ x.pc = "store"
                \/ pd = "catch" /\ x.pc = "unstore" /\ e \in BOOLEAN
  <2> HIDE DEF d
  <2>1. Steps(x, y(pc, m, b, k), pc, x.effects, b, x.tried)
    BY <1>1, <1>2, <1>3 DEF Steps, Process
  <2>2. proc' = [proc EXCEPT ![p] = y(pc, m, b, k)]
    BY <1>3
  <2> HIDE DEF y
  <2> QED
    BY <1>3, <2>1, <2>2
<1>5. CASE StoreCredential(p)
  <2>1. PICK k : k = x.key
    OBVIOUS
  <2>2. proc' = [proc EXCEPT ![p].pc = "mcp", ![p].made = TRUE, ![p].draft.bridge[c] = k]
    BY <1>5, <2>1 DEF StoreCredential
  <2>3. [proc EXCEPT ![p].pc = "mcp", ![p].made = TRUE, ![p].draft.bridge[c] = k]
          = [proc EXCEPT ![p] = [x EXCEPT !.pc = "mcp", !.made = TRUE, !.draft = d(k)]]
    OBVIOUS
  <2>4. x.pc = "store"
    BY <1>5 DEF StoreCredential
  <2> HIDE DEF d
  <2>6. [x EXCEPT !.pc = "mcp", !.made = TRUE, !.draft = d(k)] = y("mcp", TRUE, x.broken, k)
    BY <1>1 DEF Process
  <2> HIDE DEF y
  <2>5. Goes("mcp", TRUE, x.broken, k)
    BY <2>2, <2>3, <2>6
  <2> HIDE DEF Goes
  <2> QED
    BY <1>3, <2>4, <2>5
<1>6. CASE StoreFails(p)
  <2>1. PICK entered \in BOOLEAN :
          proc' = [proc EXCEPT ![p].pc = "unstore",
                      ![p].draft.bridge[c] = IF entered THEN x.key ELSE @]
    BY <1>6 DEF StoreFails
  <2>2. PICK k : k = IF entered THEN x.key ELSE x.draft.bridge[c]
    OBVIOUS
  <2>3. proc' = [proc EXCEPT ![p].pc = "unstore", ![p].draft.bridge[c] = k]
    BY <2>1, <2>2
  <2>4. [proc EXCEPT ![p].pc = "unstore", ![p].draft.bridge[c] = k]
          = [proc EXCEPT ![p] = [x EXCEPT !.pc = "unstore", !.draft = d(k)]]
    OBVIOUS
  <2>5. x.pc = "store"
    BY <1>6 DEF StoreFails
  <2> HIDE DEF d
  <2>7. [x EXCEPT !.pc = "unstore", !.draft = d(k)] = y("unstore", x.made, x.broken, k)
    BY <1>1 DEF Process
  <2> HIDE DEF y
  <2>6. Goes("unstore", x.made, x.broken, k)
    BY <2>3, <2>4, <2>7
  <2> HIDE DEF Goes
  <2> QED
    BY <1>3, <2>5, <2>6
<1>7. CASE UndoStore(p) \/ UndoStoreFails(p)
  <2>1. PICK f \in BOOLEAN : f = Fresh(p)
    BY DEF Fresh
  <2>2. PICK k : k = IF f THEN 0 ELSE x.draft.bridge[c]
    OBVIOUS
  <2>3. \/ proc' = [proc EXCEPT ![p].pc = "catch", ![p].draft.bridge[c] = k]
        \/ proc' = [proc EXCEPT ![p].pc = "catch", ![p].broken = f, ![p].draft.bridge[c] = k]
    BY <1>7, <2>1, <2>2 DEF UndoStore, UndoStoreFails
  <2>4. [proc EXCEPT ![p].pc = "catch", ![p].draft.bridge[c] = k]
          = [proc EXCEPT ![p] = [x EXCEPT !.pc = "catch", !.draft = d(k)]]
    OBVIOUS
  <2>5. [proc EXCEPT ![p].pc = "catch", ![p].broken = f, ![p].draft.bridge[c] = k]
          = [proc EXCEPT ![p] = [x EXCEPT !.pc = "catch", !.broken = f, !.draft = d(k)]]
    OBVIOUS
  <2>6. x.pc = "unstore"
    BY <1>7 DEF UndoStore, UndoStoreFails
  <2> HIDE DEF d
  <2>8. [x EXCEPT !.pc = "catch", !.draft = d(k)] = y("catch", x.made, x.broken, k)
    BY <1>1 DEF Process
  <2>9. [x EXCEPT !.pc = "catch", !.broken = f, !.draft = d(k)] = y("catch", x.made, f, k)
    BY <1>1 DEF Process
  <2> HIDE DEF y
  <2>7. Goes("catch", x.made, x.broken, k) \/ Goes("catch", x.made, f, k)
    BY <2>3, <2>4, <2>5, <2>8, <2>9
  <2> HIDE DEF Goes
  <2> QED
    BY <1>1, <1>3, <2>6, <2>7
<1> QED
  BY <1>5, <1>6, <1>7

LEMMA AddSteps ==
    ASSUME Typed, NEW p \in Procs, AddComponent(p) \/ AddFails(p)
    PROVE  \E y, pc, e :
             /\ proc' = [proc EXCEPT ![p] = y]
             /\ Steps(proc[p], y, pc, e, proc[p].broken, proc[p].tried \cup {proc[p].pc})
             /\ e # "none"
             /\ \/ AddFails(p) /\ pc = "catch"
                \/ /\ AddComponent(p)
                   /\ pc = IF proc[p].pc = "mcp" /\ "plugin" \in proc[p].plan THEN "plugin"
                           ELSE "verify"
<1> DEFINE x == proc[p]
<1>1. x \in Process /\ x.pc # "store"
  BY Process_ DEF AddComponent, AddFails, Adding
<1>2. PICK t, s : t = x.tried \cup {x.pc} /\ s = x.posted \cup {x.pc}
  OBVIOUS
<1>3. CASE AddComponent(p)
  <2>1. PICK e, pc : e = Proven(x.effects)
                     /\ pc = IF x.pc = "mcp" /\ "plugin" \in x.plan THEN "plugin" ELSE "verify"
    OBVIOUS
  <2> DEFINE y == [x EXCEPT !.pc = pc, !.effects = e, !.tried = t, !.posted = s]
  <2>2. proc' = [proc EXCEPT ![p] = y]
    BY <1>2, <1>3, <2>1 DEF AddComponent
  <2>3. Steps(x, y, pc, e, x.broken, t)
    BY <1>1 DEF Steps, Process
  <2>4. e # "none"
    BY <1>1, <2>1, ProcessFields DEF Proven
  <2> QED
    BY <1>2, <1>3, <2>1, <2>2, <2>3, <2>4
<1>4. CASE AddFails(p)
  <2> DEFINE y == [x EXCEPT !.pc = "catch", !.effects = "unproven", !.tried = t]
  <2>1. proc' = [proc EXCEPT ![p] = y]
    BY <1>2, <1>4 DEF AddFails
  <2>2. Steps(x, y, "catch", "unproven", x.broken, t)
    BY <1>1 DEF Steps, Process
  <2> QED
    BY <1>2, <1>4, <2>1, <2>2
<1> QED
  BY <1>3, <1>4

LEMMA UndoSteps ==
    ASSUME Typed, NEW p \in Procs,
           Catch(p) \/ GuardFails(p) \/ Unplug(p) \/ UnplugFails(p) \/ UnmcpFails(p)
    PROVE  \E y, pc, b :
             /\ proc' = [proc EXCEPT ![p] = y]
             /\ Steps(proc[p], y, pc, proc[p].effects, b, proc[p].tried)
             /\ \/ /\ Catch(p) /\ b = proc[p].broken
                   /\ pc = IF "plugin" \in proc[p].tried THEN "unplug"
                           ELSE IF "mcp" \in proc[p].tried THEN "unmcp" ELSE "revoke"
                \/ /\ ~Catch(p) /\ ~Unplug(p) /\ pc = "revoke" /\ b = TRUE
                \/ /\ Unplug(p)
                   /\ pc = IF "mcp" \in proc[p].tried /\ ~Outdated(p, "mcp") THEN "unmcp" ELSE "revoke"
                   /\ b = (proc[p].broken \/ Outdated(p, "mcp"))
<1> DEFINE x == proc[p]
<1>1. x \in Process /\ x.pc # "store"
  BY Process_ DEF Catch, GuardFails, Unplug, UnplugFails, UnmcpFails
<1>2. CASE Catch(p)
  <2>1. PICK s, pc :
          /\ s = IF x.posted = {} THEN (IF "plugin" \in x.tried THEN {"plugin"} ELSE x.tried)
                 ELSE x.posted
          /\ pc = IF "plugin" \in x.tried THEN "unplug"
                  ELSE IF "mcp" \in x.tried THEN "unmcp" ELSE "revoke"
    OBVIOUS
  <2> DEFINE y == [x EXCEPT !.pc = pc, !.posted = s]
  <2>2. proc' = [proc EXCEPT ![p] = y]
    BY <1>2, <2>1 DEF Catch
  <2>3. Steps(x, y, pc, x.effects, x.broken, x.tried)
    BY <1>1 DEF Steps, Process
  <2> HIDE DEF y
  <2> QED
    BY <1>2, <2>1, <2>2, <2>3
<1>3. CASE Unplug(p)
  <2>1. PICK b, pc :
          /\ b = (x.broken \/ Outdated(p, "mcp"))
          /\ pc = IF "mcp" \in x.tried /\ ~Outdated(p, "mcp") THEN "unmcp" ELSE "revoke"
    OBVIOUS
  <2> DEFINE y == [x EXCEPT !.pc = pc, !.broken = b]
  <2>2. proc' = [proc EXCEPT ![p] = y]
    BY <1>3, <2>1 DEF Unplug
  <2>3. Steps(x, y, pc, x.effects, b, x.tried)
    BY <1>1 DEF Steps, Process
  <2> HIDE DEF y
  <2> QED
    BY <1>3, <2>1, <2>2, <2>3
<1>4. CASE ~Catch(p) /\ ~Unplug(p)
  <2> DEFINE y == [x EXCEPT !.pc = "revoke", !.broken = TRUE]
  <2>1. proc' = [proc EXCEPT ![p] = y]
    BY <1>4 DEF GuardFails, UnplugFails, UnmcpFails
  <2>2. Steps(x, y, "revoke", x.effects, TRUE, x.tried)
    BY <1>1 DEF Steps, Process
  <2> HIDE DEF y
  <2> QED
    BY <1>4, <2>1, <2>2
<1> QED
  BY <1>2, <1>3, <1>4

\* One process has gone on, or has begun to work; what it knows is true.
LEMMA TruthKept ==
    ASSUME TruthInv, PlansOK', NEW p \in Procs, NEW y, proc' = [proc EXCEPT ![p] = y],
           \/ proc[p].pc \notin Free /\ holder' = holder
           \/ holder = None /\ holder' = p,
           trouble' = trouble, trouble = "none" => TruthOK(y)'
    PROVE  TruthInv'
<1>1. Typed /\ LockOK
  BY DEF TruthInv, PlansOK, DraftsOK, Typed
<1>2. holder' = p /\ \A q \in Procs : q # p => proc[q].pc \in Free
  BY <1>1, NobodyAssumption DEF LockOK
<1>3. \A q \in Procs : proc'[q] = IF q = p THEN y ELSE proc[q]
  BY <1>1 DEF Typed, TypeOK
<1>4. ASSUME trouble' = "none", NEW q \in Procs, proc'[q].pc \notin Free
      PROVE  TruthOK(proc[q])'
  <2>1. proc'[q] = y
    BY <1>2, <1>3, <1>4
  <2>2. TruthOK(y)'
    BY <1>4
  <2> QED
    BY <2>1, <2>2 DEF TruthOK, EffectsOK, Going, SetupTruth, RemovalTruth, LastTruth, ClientOK,
       Tells, Agrees, At, Mine, Deployed, IsFresh, Fixed
<1> QED
  BY <1>2, <1>4, NobodyAssumption DEF TruthInv

\* A command that gives up: only what is on record as an effect matters.
LEMMA FailTruth ==
    ASSUME NEW p \in Procs, TruthOK(proc[p]), NEW y, Failing(p, y),
           proc[p].pc \notin {"catch", "unplug", "unmcp", "revoke"}
    PROVE  TruthOK(y)'
<1>1. touched' = touched /\ disk'.own = disk.own /\ y.pc = "failed"
      /\ y.broken = proc[p].broken /\ y.result = proc[p].result
      /\ (y.effects = "unproven" \/ (y.effects = proc[p].effects /\ world' = world))
  BY DEF Failing, Follows, Quiet, ghosts, Fault
<1>2. EffectsOK(y)'
  BY <1>1 DEF TruthOK, EffectsOK, SetupPcs, InClient, Tells, Agrees
<1>3. SetupTruth(y)' /\ RemovalTruth(y)' /\ LastTruth(y)'
  BY <1>1 DEF SetupTruth, RemovalTruth, LastTruth, InClient
<1> QED
  BY <1>2, <1>3 DEF TruthOK

\* What a step of setup leaves of what is known, as long as it touches no more than the
\* entries of the client in hand.
LEMMA ClientTruth ==
    ASSUME NEW x, NEW y, NEW pc \in InClient, NEW e, NEW b, NEW t, Steps(x, y, pc, e, b, t),
           x.pc \in InClient, TruthOK(x), disk'.own = disk.own, touched' = touched,
           \A a \in Things : a \notin Mine(x) => world'[a] = world[a],
           x.effects # "none" => e # "none",
           e # "none" \/ world' = world,
           x.broken => b,
           b => e # "none" /\ pc \in {"catch", "unplug", "unmcp", "revoke"},
           pc = "unplug" => "plugin" \in t, pc = "unmcp" => "mcp" \in t,
           t # {} \/ pc \in {"store", "unstore"} \/ x.pc = "store" => e # "none",
           Going(y) => ClientOK(y)'
    PROVE  TruthOK(y)'
<1>1. EffectsOK(x) /\ (Going(x) => SetupTruth(x))
  BY DEF TruthOK
<1>2. x.pc \in SetupPcs /\ pc \in SetupPcs
  BY DEF SetupPcs
<1>3. e = "none" => Tells(disk.own, Things)'
  <2>1. e = "none" => x.effects = "none" /\ world' = world
    OBVIOUS
  <2> QED
    BY <1>1, <2>1 DEF EffectsOK, Tells, Agrees
<1>4. EffectsOK(y)'
  BY <1>1, <1>2, <1>3 DEF Steps, EffectsOK
<1>5. ASSUME Going(y)
      PROVE  SetupTruth(y)'
  <2>1. Going(x)
    BY <1>5 DEF Going, Steps
  <2>2. Tells(x.draft.own, Deployed(x) \ Mine(x))
    BY <1>1, <2>1 DEF SetupTruth
  <2>3. Deployed(x) \subseteq Things
    BY NamesDiffer DEF Deployed
  <2>4. \A a \in (Deployed(x) \ Mine(x)) \ touched : y.draft.own[a] \in Standing <=> world'[a] = "ours"
    BY <2>2, <2>3 DEF Tells, Agrees, Steps
  <2>5. Deployed(y) = Deployed(x) /\ Mine(y) = Mine(x) /\ IsFresh(y) = IsFresh(x)
    BY DEF Steps, Deployed, Mine, At, IsFresh
  <2>6. Tells(y.draft.own, Deployed(y) \ Mine(y))'
    BY <2>4, <2>5 DEF Tells, Agrees, Deployed, Mine, At, IsFresh
  <2>7. IsFresh(y) => \A a \in ServiceAssets \ touched : world'[a] = "ours"
    <3>1. \A a \in ServiceAssets : a \in Things /\ a \notin Mine(x)
      BY NamesDiffer DEF ServiceAssets, Mine, At, Service, Release, Volume, Paths
    <3> QED
      BY <1>1, <2>1, <2>5, <3>1 DEF SetupTruth
  <2>8. y.pc \in InClient /\ y.pc \notin {"install", "verify-prior", "deploy", "clients"}
    BY DEF Steps, InClient
  <2> QED
    BY <1>5, <2>6, <2>7, <2>8 DEF SetupTruth, IsFresh
<1>6. RemovalTruth(y)' /\ LastTruth(y)'
  BY DEF Steps, InClient, RemovalTruth, LastTruth
<1> QED
  BY <1>4, <1>5, <1>6 DEF TruthOK, Going

\* A process goes on, and what it knows stays true.
StaysTrue(p) == \E y : proc' = [proc EXCEPT ![p] = y] /\ TruthOK(y)'

LEMMA AtWork ==
    ASSUME TruthInv, trouble = "none", NEW p \in Procs, proc[p].pc \notin Free
    PROVE  /\ Typed /\ DraftsOK /\ proc[p] \in Process /\ ShapeOK(proc[p])
           /\ TruthOK(proc[p]) /\ EffectsOK(proc[p])
           /\ world \in [Things -> Conditions] /\ touched \subseteq {Service} \cup Profiles
           /\ PlanOK(proc[p]) /\ RecordsOK(proc[p]) /\ Together(disk.own)
<1>1. Typed /\ DraftsOK /\ PlansOK
  BY DEF TruthInv, PlansOK, DraftsOK
<1>2. TruthOK(proc[p]) /\ EffectsOK(proc[p])
  BY DEF TruthInv, TruthOK
<1> QED
  BY <1>1, <1>2, Process_ DEF PlansOK, DraftsOK

LEMMA GivesUp ==
    ASSUME TruthInv, trouble = "none", NEW p \in Procs, proc[p].pc \notin Free,
           proc[p].pc \notin {"catch", "unplug", "unmcp", "revoke"}, NEW y, Failing(p, y)
    PROVE  StaysTrue(p)
<1>1. TruthOK(y)'
  BY AtWork, FailTruth
<1> QED
  BY <1>1 DEF StaysTrue, Failing

LEMMA KeyTruth ==
    ASSUME TruthInv, trouble = "none", NEW p \in Procs,
           CreateKey(p) \/ CreateKeyFails(p) \/ ReuseKey(p)
    PROVE  StaysTrue(p)
<1> DEFINE x == proc[p]
<1>1. x.pc = "key" /\ UNCHANGED <<disk, world, touched>>
  BY DEF CreateKey, CreateKeyFails, ReuseKey, NeedsKey, ghosts, outside, Fault
<1>2. Typed /\ TruthOK(x) /\ EffectsOK(x) /\ x \in Process
  BY <1>1, AtWork DEF Free
<1>3. PICK y, pc, e, b :
             /\ proc' = [proc EXCEPT ![p] = y]
             /\ Steps(x, y, pc, e, b, x.tried)
             /\ \/ pc = "mcp" /\ e = x.effects /\ b = x.broken
                \/ pc = "store" /\ e = Proven(x.effects) /\ b = x.broken
                \/ pc = "catch" /\ e = "unproven" /\ b \in BOOLEAN
  BY <1>2, KeySteps
<1>4. ~x.broken /\ (x.tried # {} => x.effects # "none") /\ Proven(x.effects) # "none"
  BY <1>1, <1>2, ProcessFields DEF EffectsOK, SetupPcs, InClient, Proven
<1>5. Going(y) => ClientOK(y)'
  <2>1. Going(y) => ClientOK(x)
    BY <1>1, <1>2, <1>3, <1>4 DEF Going, Steps, TruthOK, SetupTruth, InClient
  <2> QED
    BY <1>1, <1>3, <2>1 DEF ClientOK, Steps, At, Agrees
<1>6. TruthOK(y)'
  BY <1>1, <1>2, <1>3, <1>4, <1>5, ClientTruth DEF InClient
<1> QED
  BY <1>3, <1>6 DEF StaysTrue

LEMMA StoreTruth ==
    ASSUME TruthInv, trouble = "none", NEW p \in Procs,
           StoreCredential(p) \/ StoreFails(p) \/ UndoStore(p) \/ UndoStoreFails(p)
    PROVE  StaysTrue(p)
<1> DEFINE x == proc[p]
<1>1. x.pc \in {"store", "unstore"} /\ UNCHANGED <<world, touched>>
  BY DEF StoreCredential, StoreFails, UndoStore, UndoStoreFails, ghosts, Fault
<1>2. Typed /\ TruthOK(x) /\ EffectsOK(x) /\ x \in Process
  BY <1>1, AtWork DEF Free
<1>3. PICK y, pc, b :
             /\ proc' = [proc EXCEPT ![p] = y]
             /\ Steps(x, y, pc, x.effects, b, x.tried)
             /\ \/ pc \in {"mcp", "unstore"} /\ b = x.broken /\ x.pc = "store"
                \/ pc = "catch" /\ x.pc = "unstore" /\ b \in BOOLEAN
  BY <1>2, StoreSteps
<1>4. ~x.broken /\ x.effects # "none"
  BY <1>1, <1>2 DEF EffectsOK, SetupPcs, InClient
<1>5. Going(y) => ClientOK(y)'
  <2>1. Going(y) => ClientOK(x)
    BY <1>1, <1>2, <1>3, <1>4 DEF Going, Steps, TruthOK, SetupTruth, InClient
  <2> QED
    BY <1>1, <1>3, <2>1 DEF ClientOK, Steps, At, Agrees
<1>6. disk'.own = disk.own
  BY <1>2, Process_ DEF StoreCredential, StoreFails, UndoStore, UndoStoreFails, Disk
<1>7. TruthOK(y)'
  BY <1>1, <1>2, <1>3, <1>4, <1>5, <1>6, ClientTruth DEF InClient
<1> QED
  BY <1>3, <1>7 DEF StaysTrue

\* One entry of the client in hand is changed, and nothing else.
LEMMA PutMine ==
    ASSUME Typed, NEW p \in Procs, proc[p].client \in Clients, NEW k \in Components, NEW v,
           Put(At(proc[p], k), v)
    PROVE  /\ \A a \in Things : a \notin Mine(proc[p]) => world'[a] = world[a]
           /\ \A j \in Components : world'[At(proc[p], j)] =
                 IF j = k THEN v ELSE world[At(proc[p], j)]
<1>1. world \in [Things -> Conditions]
  BY Process_
<1>2. \A j \in Components : At(proc[p], j) \in Things
  BY DEF At, Things, Profiles, Components
<1> QED
  BY <1>1, <1>2 DEF Put, Mine, At, Components

LEMMA InHand ==
    ASSUME TruthInv, trouble = "none", NEW p \in Procs, proc[p].pc \in InClient
    PROVE  /\ Typed /\ TruthOK(proc[p]) /\ EffectsOK(proc[p]) /\ proc[p] \in Process
           /\ proc[p].client \in Clients /\ (Going(proc[p]) => ClientOK(proc[p]))
           /\ proc[p].pc \in SetupPcs /\ proc[p].effects \in Effects
           /\ proc[p].plan \subseteq Components /\ proc[p].tried \subseteq Components
<1>1. proc[p].pc \notin Free /\ proc[p].pc \in SetupPcs
  BY DEF InClient, Free, SetupPcs
<1>2. Typed /\ TruthOK(proc[p]) /\ EffectsOK(proc[p]) /\ proc[p] \in Process /\ ShapeOK(proc[p])
  BY <1>1, AtWork
<1>3. proc[p].effects \in Effects /\ proc[p].plan \subseteq Components /\ proc[p].tried \subseteq Components
  BY <1>2, ProcessFields DEF Effects, Components
<1> QED
  BY <1>1, <1>2, <1>3 DEF TruthOK, SetupTruth, ShapeOK

LEMMA AddTruth ==
    ASSUME TruthInv, trouble = "none", NEW p \in Procs, AddComponent(p) \/ AddFails(p)
    PROVE  StaysTrue(p)
<1> DEFINE x == proc[p]
           t == x.tried \cup {x.pc}
<1>1. x.pc \in {"mcp", "plugin"} /\ x.pc \in Components /\ UNCHANGED <<disk, touched>>
  BY DEF AddComponent, AddFails, Adding, Fault, ghosts, Components
<1>2. /\ Typed /\ TruthOK(x) /\ EffectsOK(x) /\ x \in Process /\ x.client \in Clients
      /\ Going(x) => ClientOK(x)
      /\ x.pc \in SetupPcs /\ x.plan \subseteq Components
  BY <1>1, InHand DEF InClient
<1>3. PICK y, pc, e :
             /\ proc' = [proc EXCEPT ![p] = y]
             /\ Steps(x, y, pc, e, x.broken, t)
             /\ e # "none"
             /\ \/ AddFails(p) /\ pc = "catch"
                \/ /\ AddComponent(p)
                   /\ pc = IF x.pc = "mcp" /\ "plugin" \in x.plan THEN "plugin" ELSE "verify"
  BY <1>2, AddSteps
<1>4. ~x.broken
  BY <1>1, <1>2 DEF EffectsOK
<1>5. PICK v : Put(At(x, x.pc), v) /\ (AddComponent(p) => v = "ours")
  BY DEF AddComponent, AddFails, Added, At
<1>6. /\ \A a \in Things : a \notin Mine(x) => world'[a] = world[a]
      /\ \A j \in Components : world'[At(x, j)] = IF j = x.pc THEN v ELSE world[At(x, j)]
  <2>1. PICK k \in Components : k = x.pc
    BY <1>1
  <2>2. Put(At(proc[p], k), v)
    BY <1>5, <2>1
  <2>3. /\ \A a \in Things : a \notin Mine(proc[p]) => world'[a] = world[a]
        /\ \A j \in Components : world'[At(proc[p], j)] = IF j = k THEN v ELSE world[At(proc[p], j)]
    BY <1>2, <2>2, PutMine
  <2> QED
    BY <2>1, <2>3
<1>7. Going(y) => ClientOK(y)'
  <2> HAVE Going(y)
  <2>1. ClientOK(x)
    BY <1>2, <1>3 DEF Going, Steps
  <2>2. /\ x.pc \in x.plan /\ t \subseteq x.plan /\ (x.pc = "mcp" => x.tried = {})
        /\ x.pc = "plugin" => x.tried = x.plan \ {"plugin"}
    BY <1>1, <2>1 DEF ClientOK
  <2>3. pc = "plugin" => t = x.plan \ {"plugin"} /\ "plugin" \in x.plan
    BY <1>2, <1>3, <2>2 DEF Components
  <2>4. pc = "verify" => t = x.plan
    BY <1>1, <1>2, <1>3, <2>2 DEF Components
  <2>5. pc \in {"plugin", "verify"} =>
          \A k \in t : At(x, k) \notin touched => world'[At(x, k)] = "ours"
    <3> SUFFICES ASSUME pc \in {"plugin", "verify"}, NEW k \in t, At(x, k) \notin touched
                 PROVE  world'[At(x, k)] = "ours"
      OBVIOUS
    <3>1. v = "ours" /\ k \in Components
      BY <1>2, <1>3, <1>5, <2>2
    <3>2. k # x.pc => world[At(x, k)] = "ours"
      BY <1>1, <2>1, <2>2 DEF ClientOK
    <3> QED
      BY <1>6, <3>1, <3>2
  <2>6. \A k \in Components \ t : At(x, k) \notin touched =>
          (x.draft.own[At(x, k)] \in Standing <=> world'[At(x, k)] = "ours")
    BY <1>6, <2>1 DEF ClientOK, Agrees
  <2>7. \A k \in x.plan : At(x, k) \notin touched => x.draft.own[At(x, k)] \notin Standing
    BY <2>1 DEF ClientOK
  <2>8. \A k : At(y, k) = At(x, k)
    BY <1>3 DEF Steps, At
  <2> HIDE DEF t
  <2> QED
    BY <1>1, <1>3, <2>2, <2>3, <2>4, <2>5, <2>6, <2>7, <2>8 DEF ClientOK, Steps, Agrees, At
<1>8. pc \in InClient /\ pc \notin {"unplug", "unmcp"}
  BY <1>3 DEF InClient
<1>9. TruthOK(y)'
  BY <1>1, <1>2, <1>3, <1>4, <1>6, <1>7, <1>8, ClientTruth DEF InClient
<1> QED
  BY <1>3, <1>9 DEF StaysTrue

\* A client that is not created after all.
LEMMA CatchTruth ==
    ASSUME TruthInv, trouble = "none", NEW p \in Procs,
           proc[p].pc \in {"mcp", "plugin", "verify"},
           Goto(p, "catch"), UNCHANGED <<disk, world, touched>>
    PROVE  StaysTrue(p)
<1> DEFINE x == proc[p]
<1>1. /\ Typed /\ TruthOK(x) /\ EffectsOK(x) /\ x \in Process /\ x.client \in Clients
      /\ Going(x) => ClientOK(x)
      /\ x.pc \in SetupPcs /\ x.plan \subseteq Components
  BY InHand DEF InClient
<1>2. PICK y : /\ proc' = [proc EXCEPT ![p] = y]
               /\ Steps(x, y, "catch", x.effects, x.broken, x.tried)
  BY <1>1, GotoSteps
<1>3. ~x.broken /\ (x.tried # {} => x.effects # "none")
  BY <1>1 DEF EffectsOK
<1>4. Going(y) => ClientOK(y)'
  <2>1. Going(y) => ClientOK(x)
    BY <1>1, <1>2 DEF Going, Steps
  <2> QED
    BY <1>2, <2>1 DEF ClientOK, Steps, At, Agrees
<1>5. TruthOK(y)'
  BY <1>1, <1>2, <1>3, <1>4, ClientTruth DEF InClient
<1> QED
  BY <1>2, <1>5 DEF StaysTrue

LEMMA UndoTruth ==
    ASSUME TruthInv, trouble = "none", NEW p \in Procs,
           \/ Catch(p) \/ GuardFails(p) \/ Unplug(p) \/ UnplugFails(p) \/ UnmcpFails(p)
    PROVE  StaysTrue(p)
<1> DEFINE x == proc[p]
<1>1. /\ x.pc \in {"catch", "unplug", "unmcp"} /\ UNCHANGED <<disk, touched>>
      /\ Catch(p) => x.pc = "catch" /\ world' = world
      /\ ~Catch(p) => x.pc # "catch"
      /\ Unplug(p) => x.pc = "unplug"
  BY DEF Catch, GuardFails, Unplug, UnplugFails, UnmcpFails, ghosts, outside
<1>2. /\ Typed /\ TruthOK(x) /\ EffectsOK(x) /\ x \in Process /\ x.client \in Clients
      /\ Going(x) => ClientOK(x)
      /\ x.pc \in SetupPcs /\ x.plan \subseteq Components /\ x.tried \subseteq Components
  BY <1>1, InHand DEF InClient
<1>3. PICK y, pc, b :
             /\ proc' = [proc EXCEPT ![p] = y]
             /\ Steps(x, y, pc, x.effects, b, x.tried)
             /\ \/ /\ Catch(p) /\ b = x.broken
                   /\ pc = IF "plugin" \in x.tried THEN "unplug"
                           ELSE IF "mcp" \in x.tried THEN "unmcp" ELSE "revoke"
                \/ /\ ~Catch(p) /\ ~Unplug(p) /\ pc = "revoke" /\ b = TRUE
                \/ /\ Unplug(p)
                   /\ pc = IF "mcp" \in x.tried /\ ~Outdated(p, "mcp") THEN "unmcp" ELSE "revoke"
                   /\ b = (x.broken \/ Outdated(p, "mcp"))
  BY <1>2, UndoSteps
<1>4. /\ x.tried # {} => x.effects # "none"
      /\ x.broken => x.effects # "none"
      /\ x.pc # "catch" => x.effects # "none" /\ x.tried # {}
      /\ x.pc = "unplug" => "plugin" \in x.tried
  BY <1>1, <1>2 DEF EffectsOK
<1>5. /\ \A a \in Things : a \notin Mine(x) => world'[a] = world[a]
      /\ Unplug(p) => \A j \in Components :
            world'[At(x, j)] = IF j = "plugin" THEN "absent" ELSE world[At(x, j)]
  <2>1. CASE world' = world
    <3>1. Unplug(p) => Put(At(x, "plugin"), "absent")
      BY DEF Unplug, Plugin, At
    <3>2. "plugin" \in Components
      BY DEF Components
    <3> QED
      BY <1>2, <2>1, <3>1, <3>2, PutMine
  <2>2. CASE world' # world
    <3>1. PICK k, v : k \in Components /\ Put(At(x, k), v) /\ (Unplug(p) => k = "plugin" /\ v = "absent")
      BY <2>2 DEF Catch, GuardFails, Unplug, UnplugFails, UnmcpFails, outside, Put, At, Plugin, Mcp,
         Components
    <3> QED
      BY <1>2, <3>1, PutMine
  <2> QED
    BY <2>1, <2>2
<1>6. Going(y) => ClientOK(y)'
  <2> HAVE Going(y)
  <2>1. ClientOK(x) /\ ~b
    BY <1>2, <1>3 DEF Going, Steps
  <2>2. \A k : At(y, k) = At(x, k)
    BY <1>3 DEF Steps, At
  <2>3. CASE Catch(p)
    <3>1. world' = world /\ (pc = "revoke" => x.tried = {}) /\ (pc = "unmcp" => "plugin" \notin x.tried)
      BY <1>1, <1>2, <1>3, <2>3 DEF Unplug, Components
    <3> QED
      BY <1>1, <1>3, <2>1, <2>2, <2>3, <3>1 DEF ClientOK, Steps, Agrees, At
  <2>4. CASE Unplug(p)
    <3>1. /\ world'[At(x, "plugin")] = "absent" /\ world'[At(x, "mcp")] = world[At(x, "mcp")]
          /\ x.pc = "unplug" /\ "plugin" \in x.tried
      BY <1>1, <1>4, <1>5, <2>4 DEF Components
    <3>2. pc \in {"unmcp", "revoke"} /\ (pc = "revoke" => "mcp" \notin x.tried)
      BY <1>1, <1>3, <2>1, <2>4
    <3>3. \A k \in Components \ x.tried : world'[At(x, k)] = world[At(x, k)]
      BY <3>1 DEF Components
    <3>4. pc = "revoke" => \A k \in x.tried : world'[At(x, k)] # "ours"
      BY <1>2, <3>1, <3>2 DEF Components
    <3> QED
      BY <1>1, <1>3, <2>1, <2>2, <3>1, <3>2, <3>3, <3>4 DEF ClientOK, Steps, Agrees, At
  <2> QED
    BY <1>3, <2>1, <2>3, <2>4
<1>7. pc \in InClient /\ (pc = "unplug" => "plugin" \in x.tried) /\ (pc = "unmcp" => "mcp" \in x.tried)
  BY <1>3 DEF InClient
<1>8. TruthOK(y)'
  <2>1. x.effects # "none" \/ world' = world
    BY <1>1, <1>4
  <2>2. b => x.effects # "none" /\ pc \in {"catch", "unplug", "unmcp", "revoke"}
    BY <1>1, <1>3, <1>4
  <2>3. x.broken => b
    BY <1>3
  <2>4. x.pc \in InClient /\ pc \notin {"store", "unstore"} /\ x.pc # "store"
    BY <1>1, <1>3 DEF InClient
  <2> QED
    BY <1>1, <1>2, <1>3, <1>4, <1>5, <1>6, <1>7, <2>1, <2>2, <2>3, <2>4, ClientTruth
<1> QED
  BY <1>3, <1>8 DEF StaysTrue

LEMMA UnmcpTruth ==
    ASSUME TruthInv, trouble = "none", NEW p \in Procs, Unmcp(p)
    PROVE  StaysTrue(p)
<1> DEFINE x == proc[p]
<1>1. x.pc = "unmcp" /\ UNCHANGED <<disk, touched>> /\ Put(At(x, "mcp"), "absent") /\ Goto(p, "revoke")
  BY DEF Unmcp, ghosts, Mcp, At
<1>2. /\ Typed /\ TruthOK(x) /\ EffectsOK(x) /\ x \in Process /\ x.client \in Clients
      /\ Going(x) => ClientOK(x)
      /\ x.pc \in SetupPcs /\ x.plan \subseteq Components /\ x.tried \subseteq Components
  BY <1>1, InHand DEF InClient
<1>3. PICK y : /\ proc' = [proc EXCEPT ![p] = y]
               /\ Steps(x, y, "revoke", x.effects, x.broken, x.tried)
  BY <1>1, <1>2, GotoSteps
<1>4. x.effects # "none" /\ "mcp" \in x.tried
  BY <1>1, <1>2 DEF EffectsOK
<1>5. /\ \A a \in Things : a \notin Mine(x) => world'[a] = world[a]
      /\ \A j \in Components : world'[At(x, j)] = IF j = "mcp" THEN "absent" ELSE world[At(x, j)]
  BY <1>1, <1>2, PutMine DEF Components
<1>6. Going(y) => ClientOK(y)'
  <2> HAVE Going(y)
  <2>1. ClientOK(x)
    BY <1>2, <1>3 DEF Going, Steps
  <2>2. \A k : At(y, k) = At(x, k)
    BY <1>3 DEF Steps, At
  <2>3. \A k \in Components \ x.tried : world'[At(x, k)] = world[At(x, k)]
    BY <1>4, <1>5
  <2>4. \A k \in x.tried : At(x, k) \notin touched => world'[At(x, k)] # "ours"
    BY <1>1, <1>2, <1>4, <1>5, <2>1 DEF ClientOK, Components
  <2> QED
    BY <1>1, <1>3, <2>1, <2>2, <2>3, <2>4 DEF ClientOK, Steps, Agrees, At
<1>7. TruthOK(y)'
  BY <1>1, <1>2, <1>3, <1>4, <1>5, <1>6, ClientTruth DEF InClient
<1> QED
  BY <1>3, <1>7 DEF StaysTrue

LEMMA KindsOfThings ==
    /\ Things = ServiceAssets \cup Profiles /\ Things \subseteq Assets
    /\ Service \in ServiceAssets /\ Release \in ServiceAssets
    /\ Volume \in ServiceAssets /\ Paths \in ServiceAssets
    /\ \A a \in Profiles : a \notin ServiceAssets
BY NamesDiffer DEF Things, ServiceAssets, Assets

\* Setup turns to the next client.
LEMMA ClientsTruth ==
    ASSUME NEW x, EffectsOK(x), NEW y, y.pc = "clients", ~y.broken, y.tried = {},
           y.made \/ y.result = "recovery-required" => y.effects # "none",
           y.effects = "none" => x.effects = "none" /\ world' = world,
           disk'.own = disk.own, touched' = touched,
           Going(y) =>
              /\ \A a \in Deployed(y) \ touched : y.draft.own[a] \in Standing <=> world'[a] = "ours"
              /\ IsFresh(y) => \A a \in ServiceAssets \ touched : world'[a] = "ours"
    PROVE  TruthOK(y)'
<1>1. EffectsOK(y)'
  BY DEF EffectsOK, SetupPcs, InClient, Tells, Agrees
<1>2. Going(y) => SetupTruth(y)'
  <2>1. Going(y) => Tells(y.draft.own, Deployed(y))'
    BY DEF Tells, Agrees, Deployed, IsFresh
  <2> QED
    BY <2>1 DEF SetupTruth, InClient, IsFresh
<1> QED
  BY <1>1, <1>2 DEF TruthOK, RemovalTruth, LastTruth, Going

LEMMA VerifyTruth ==
    ASSUME TruthInv, trouble = "none", NEW p \in Procs, VerifyClient(p) \/ VerifyFails(p)
    PROVE  StaysTrue(p)
<1> DEFINE x == proc[p]
<1>1. x.pc = "verify" /\ UNCHANGED <<disk, world, touched>>
  BY DEF VerifyClient, VerifyFails, ghosts, outside, Fault
<1>2. /\ Typed /\ TruthOK(x) /\ EffectsOK(x) /\ x \in Process /\ x.client \in Clients
      /\ Going(x) => ClientOK(x)
      /\ x.pc \in SetupPcs /\ x.plan \subseteq Components /\ x.tried \subseteq Components
  BY <1>1, InHand DEF InClient
<1>3. CASE Goto(p, "catch")
  BY <1>1, <1>3, CatchTruth
<1>4. CASE Goto(p, "failed")
  <2>1. \E z \in Process : Working(p, z)
    BY <1>2, VerifyWorks
  <2>2. OutTyped /\ Quiet /\ x.pc \notin Free
    BY <1>1, <2>1 DEF Working, Free
  <2> QED
    BY <1>1, <1>2, <1>4, <2>2, GiveUp, GivesUp
<1>5. CASE proc' = [proc EXCEPT ![p] = [Done(p, "success") EXCEPT !.draft = Recorded(p)]]
  <2> DEFINE done == Done(p, "success")
  <2>1. /\ done \in Process /\ done.pc = "clients" /\ done.seen = x.seen /\ done.effects = x.effects
        /\ done.broken = FALSE /\ done.result = Worse(x.result, "success") /\ done.tried = {}
        /\ done.made = FALSE
    BY <1>2, DoneType
  <2>8. PICK y : y = [done EXCEPT !.draft = Recorded(p)]
    OBVIOUS
  <2>3. proc' = [proc EXCEPT ![p] = y]
    BY <1>5, <2>8
  <2> HIDE DEF done
  <2>2. /\ y.pc = "clients" /\ y.seen = x.seen /\ y.effects = x.effects /\ ~y.broken
        /\ y.result = Worse(x.result, "success") /\ y.tried = {} /\ ~y.made
        /\ y.draft = Recorded(p)
    BY <2>1, <2>8 DEF Process
  <2>4. /\ y.result = "recovery-required" <=> x.result = "recovery-required"
        /\ Deployed(y) = Deployed(x) /\ IsFresh(y) = IsFresh(x)
    BY <1>2, <2>2, ProcessFields DEF Worse, Deployed, IsFresh
  <2>5. ~x.broken
    BY <1>1, <1>2 DEF EffectsOK
  <2>6. ASSUME Going(y)
        PROVE  /\ \A a \in Deployed(y) \ touched :
                      y.draft.own[a] \in Standing <=> world'[a] = "ours"
               /\ IsFresh(y) => \A a \in ServiceAssets \ touched : world'[a] = "ours"
    <3>1. Going(x) /\ ClientOK(x) /\ SetupTruth(x)
      BY <1>2, <2>4, <2>5, <2>6 DEF Going, TruthOK
    <3>2. /\ Tells(x.draft.own, Deployed(x) \ Mine(x))
          /\ IsFresh(x) => \A a \in ServiceAssets \ touched : world[a] = "ours"
      BY <1>1, <3>1 DEF SetupTruth, InClient
    <3>3. ASSUME NEW a \in Deployed(x) \ touched
          PROVE  Recorded(p).own[a] \in Standing <=> world[a] = "ours"
      <4>1. a \in Things /\ a \in Assets /\ a # Credential(x.client)
        BY <1>2, KindsOfThings, NamesDiffer DEF Deployed
      <4>2. CASE \E k \in x.plan : a = At(x, k)
        <5>1. Recorded(p).own[a] = "present"
          BY <1>2, <4>1, <4>2, RecordedType DEF At
        <5>2. world[a] = "ours"
          BY <1>1, <3>1, <3>3, <4>2 DEF ClientOK
        <5> QED
          BY <5>1, <5>2 DEF Standing
      <4>3. CASE ~ \E k \in x.plan : a = At(x, k)
        <5>1. Recorded(p).own[a] = x.draft.own[a]
          BY <1>2, <4>1, <4>3, RecordedType DEF At
        <5>2. Agrees(x.draft.own, a)
          <6>1. CASE a \in Mine(x)
            BY <1>1, <3>1, <3>3, <4>3, <6>1 DEF ClientOK, Mine, Components
          <6>2. CASE a \notin Mine(x)
            BY <3>2, <3>3, <6>2 DEF Tells
          <6> QED
            BY <6>1, <6>2
        <5> QED
          BY <5>1, <5>2 DEF Agrees
      <4> QED
        BY <4>2, <4>3
    <3> QED
      BY <1>1, <2>2, <2>4, <3>2, <3>3
  <2>7. TruthOK(y)'
    BY <1>1, <1>2, <2>2, <2>4, <2>6, ClientsTruth DEF EffectsOK
  <2> QED
    BY <2>3, <2>7 DEF StaysTrue
<1> QED
  BY <1>3, <1>4, <1>5 DEF VerifyClient, VerifyFails

\* What is undone is off the record, and not there.
LEMMA RevokeTruth ==
    ASSUME TruthInv, trouble = "none", NEW p \in Procs, Revoke(p) \/ RevokeFails(p)
    PROVE  StaysTrue(p)
<1> DEFINE x == proc[p]
<1>1. x.pc = "revoke" /\ UNCHANGED <<world, touched>>
  BY DEF Revoke, RevokeFails, ghosts
<1>2. /\ Typed /\ TruthOK(x) /\ EffectsOK(x) /\ x \in Process /\ x.client \in Clients
      /\ Going(x) => ClientOK(x)
      /\ x.pc \in SetupPcs /\ x.plan \subseteq Components /\ x.tried \subseteq Components
      /\ x.draft \in Disk /\ x.broken \in BOOLEAN
  BY <1>1, InHand, ProcessFields DEF InClient
<1>3. disk'.own = disk.own
  <2>1. \E z \in Process : Working(p, z)
    BY <1>2, RevokeWorks
  <2> QED
    BY <2>1 DEF Working
<1>4. PICK b \in BOOLEAN, d \in Disk :
          /\ proc' = [proc EXCEPT ![p] = [Settled(p, b) EXCEPT !.draft = d]]
          /\ d.own = x.draft.own
          /\ (b /\ x.made) \/ b = x.broken
  <2> DEFINE Goes(e, f) == proc' = [proc EXCEPT ![p] = [Settled(p, e) EXCEPT !.draft = f]]
  <2>1. Settled(p, x.broken).draft = x.draft /\ Settled(p, TRUE).draft = x.draft
    BY <1>2, DoneType DEF Settled
  <2>2. Forgotten(p, x.draft) \in Disk /\ Forgotten(p, x.draft).own = x.draft.own
    BY <1>2, ForgottenType
  <2>3. CASE Revoke(p) /\ x.made
    <3>1. Goes(x.broken, Forgotten(p, x.draft))
      BY <2>1, <2>3 DEF Revoke
    <3> QED
      BY <1>2, <2>2, <3>1
  <2>4. CASE Revoke(p) /\ ~x.made
    <3>1. Goes(x.broken, x.draft)
      BY <2>1, <2>4 DEF Revoke
    <3> QED
      BY <1>2, <3>1
  <2>5. CASE RevokeFails(p)
    <3>1. Goes(TRUE, Forgotten(p, x.draft)) /\ x.made
      BY <2>1, <2>5 DEF RevokeFails
    <3> QED
      BY <2>2, <3>1
  <2> QED
    BY <2>3, <2>4, <2>5
<1> DEFINE r == IF b THEN "recovery-required" ELSE "incomplete"
           done == Done(p, r)
<1>5. /\ done \in Process /\ done.pc = "clients" /\ done.seen = x.seen /\ done.effects = x.effects
      /\ done.broken = FALSE /\ done.result = Worse(x.result, r) /\ done.tried = {}
      /\ done.made = FALSE
  BY <1>2, DoneType
<1>12. PICK y : y = [done EXCEPT !.draft = d]
  OBVIOUS
<1>6. proc' = [proc EXCEPT ![p] = y]
  BY <1>4, <1>12 DEF Settled
<1> HIDE DEF done
<1>7. /\ y.pc = "clients" /\ y.seen = x.seen /\ y.effects = x.effects /\ ~y.broken
      /\ y.result = Worse(x.result, r) /\ y.tried = {} /\ ~y.made /\ y.draft = d
  BY <1>5, <1>12 DEF Process
<1>8. /\ y.result = "recovery-required" <=> b \/ x.result = "recovery-required"
      /\ Deployed(y) = Deployed(x) /\ IsFresh(y) = IsFresh(x)
  BY <1>2, <1>4, <1>7, ProcessFields DEF Worse, Deployed, IsFresh
<1>9. y.result = "recovery-required" => y.effects # "none"
  BY <1>1, <1>2, <1>4, <1>7, <1>8 DEF EffectsOK
<1>10. ASSUME Going(y)
       PROVE  /\ \A a \in Deployed(y) \ touched :
                     y.draft.own[a] \in Standing <=> world'[a] = "ours"
              /\ IsFresh(y) => \A a \in ServiceAssets \ touched : world'[a] = "ours"
  <2>1. Going(x) /\ ClientOK(x) /\ SetupTruth(x)
    BY <1>2, <1>4, <1>8, <1>10 DEF Going, TruthOK
  <2>2. /\ Tells(x.draft.own, Deployed(x) \ Mine(x))
        /\ IsFresh(x) => \A a \in ServiceAssets \ touched : world[a] = "ours"
    BY <1>1, <2>1 DEF SetupTruth, InClient
  <2>3. ASSUME NEW a \in Deployed(x) \ touched
        PROVE  Agrees(x.draft.own, a)
    <3>1. CASE \E k \in x.tried : a = At(x, k)
      BY <1>1, <2>1, <2>3, <3>1 DEF ClientOK, Agrees
    <3>2. CASE a \in Mine(x) /\ ~ \E k \in x.tried : a = At(x, k)
      BY <2>1, <2>3, <3>2 DEF ClientOK, Mine, Components
    <3>3. CASE a \notin Mine(x)
      BY <2>2, <2>3, <3>3 DEF Tells
    <3> QED
      BY <3>1, <3>2, <3>3
  <2> QED
    BY <1>1, <1>4, <1>7, <1>8, <2>2, <2>3 DEF Agrees
<1>11. TruthOK(y)'
  BY <1>1, <1>2, <1>3, <1>7, <1>9, <1>10, ClientsTruth
<1> QED
  BY <1>6, <1>11 DEF StaysTrue

\* At work for no client in particular.
LEMMA BetweenClients ==
    ASSUME TruthInv, trouble = "none", NEW p \in Procs, proc[p].pc \in SetupPcs \ InClient
    PROVE  /\ Typed /\ TruthOK(proc[p]) /\ EffectsOK(proc[p]) /\ proc[p] \in Process
           /\ Going(proc[p]) => SetupTruth(proc[p])
           /\ ~proc[p].broken /\ proc[p].tried = {} /\ (proc[p].made => proc[p].effects # "none")
           /\ proc[p].result = "recovery-required" => proc[p].effects # "none"
           /\ proc[p].pc \notin Free /\ Proven(proc[p].effects) # "none"
<1>1. proc[p].pc \notin Free /\ proc[p].pc \notin {"catch", "unplug", "unmcp", "revoke"}
  BY DEF InClient, Free, SetupPcs
<1>2. Typed /\ TruthOK(proc[p]) /\ EffectsOK(proc[p]) /\ proc[p] \in Process
  BY <1>1, AtWork
<1>3. Proven(proc[p].effects) # "none"
  BY <1>2, ProcessFields DEF Proven
<1> QED
  BY <1>1, <1>2, <1>3 DEF TruthOK, EffectsOK

LEMMA SkipTruth ==
    ASSUME TruthInv, trouble = "none", NEW p \in Procs, SkipClient(p)
    PROVE  StaysTrue(p)
<1> DEFINE x == proc[p]
<1>1. x.pc = "clients" /\ UNCHANGED <<disk, world, touched>>
  BY DEF SkipClient, ghosts, outside
<1>2. /\ Typed /\ EffectsOK(x) /\ x \in Process /\ (Going(x) => SetupTruth(x))
      /\ ~x.broken /\ x.tried = {} /\ (x.made => x.effects # "none")
      /\ x.result = "recovery-required" => x.effects # "none"
  BY <1>1, BetweenClients DEF SetupPcs, InClient
<1>3. PICK c : proc' = [proc EXCEPT ![p].clients = @ \ {c}]
  BY DEF SkipClient
<1>4. PICK rest : rest = x.clients \ {c}
  OBVIOUS
<1>5. PICK y : y = [x EXCEPT !.clients = rest]
  OBVIOUS
<1>6. proc' = [proc EXCEPT ![p] = y]
  BY <1>3, <1>4, <1>5
<1>7. /\ y.pc = "clients" /\ y.seen = x.seen /\ y.draft = x.draft /\ y.effects = x.effects
      /\ y.broken = x.broken /\ y.tried = x.tried /\ y.made = x.made /\ y.result = x.result
  BY <1>1, <1>2, <1>5 DEF Process
<1>8. Going(y) =>
        /\ \A a \in Deployed(y) \ touched : y.draft.own[a] \in Standing <=> world'[a] = "ours"
        /\ IsFresh(y) => \A a \in ServiceAssets \ touched : world'[a] = "ours"
  BY <1>1, <1>2, <1>7 DEF Going, SetupTruth, Tells, Agrees, Deployed, IsFresh
<1>9. TruthOK(y)'
  BY <1>1, <1>2, <1>7, <1>8, ClientsTruth
<1> QED
  BY <1>6, <1>9 DEF StaysTrue

LEMMA PreflightTruth ==
    ASSUME TruthInv, trouble = "none", NEW p \in Procs, Preflight(p)
    PROVE  StaysTrue(p)
<1> DEFINE x == proc[p]
<1>1. x.pc = "clients" /\ UNCHANGED <<disk, world, touched>>
  BY DEF Preflight, ghosts, outside, Fault
<1>2. /\ Typed /\ EffectsOK(x) /\ x \in Process /\ (Going(x) => SetupTruth(x))
      /\ ~x.broken /\ x.tried = {} /\ (x.made => x.effects # "none")
      /\ x.result = "recovery-required" => x.effects # "none"
  BY <1>1, BetweenClients DEF SetupPcs, InClient
<1>3. PICK c \in x.clients :
        LET plan == {k \in {"mcp", "plugin"} : world[<<c, k>>] = "absent"}
            chosen == [x EXCEPT !.client = c, !.plan = plan]
        IN  \/ proc' = [proc EXCEPT ![p] =
                    [chosen EXCEPT !.pc = IF "mcp" \in plan THEN "key"
                                          ELSE IF "plugin" \in plan THEN "plugin"
                                          ELSE "verify"]]
            \/ proc' = [proc EXCEPT ![p] = [Done(p, "incomplete") EXCEPT !.clients = @ \ {c}]]
  BY DEF Preflight
<1>4. PICK plan, pc : /\ plan = {k \in {"mcp", "plugin"} : world[<<c, k>>] = "absent"}
                      /\ pc = IF "mcp" \in plan THEN "key"
                              ELSE IF "plugin" \in plan THEN "plugin" ELSE "verify"
  OBVIOUS
<1>5. c \in Clients
  BY <1>2, <1>3, ProcessFields
<1>6. CASE proc' = [proc EXCEPT ![p] = [[x EXCEPT !.client = c, !.plan = plan] EXCEPT !.pc = pc]]
  <2>1. PICK y : y = [x EXCEPT !.client = c, !.plan = plan, !.pc = pc]
    OBVIOUS
  <2>2. proc' = [proc EXCEPT ![p] = y]
    BY <1>6, <2>1
  <2>3. /\ y.pc = pc /\ y.client = c /\ y.plan = plan /\ y.seen = x.seen /\ y.draft = x.draft
        /\ y.effects = x.effects /\ ~y.broken /\ y.tried = {} /\ y.made = x.made
        /\ y.result = x.result
    BY <1>2, <2>1 DEF Process
  <2>4. pc \in {"key", "plugin", "verify"} /\ pc \in InClient
    BY <1>4 DEF InClient
  <2>5. EffectsOK(y)'
    BY <1>1, <1>2, <2>3, <2>4 DEF EffectsOK, Tells, Agrees
  <2>6. ASSUME Going(y)
        PROVE  SetupTruth(y)'
    <3>1. /\ Tells(x.draft.own, Deployed(x))
          /\ IsFresh(x) => \A a \in ServiceAssets \ touched : world[a] = "ours"
      BY <1>1, <1>2, <2>3, <2>6 DEF Going, SetupTruth
    <3>2. Deployed(y) = Deployed(x) /\ IsFresh(y) = IsFresh(x)
      BY <2>3 DEF Deployed, IsFresh
    <3>3. \A k \in Components : At(y, k) = <<c, k>> /\ At(y, k) \in Deployed(x)
      BY <1>5, <2>3, KindsOfThings DEF At, Deployed, Profiles, Components
    <3>4. plan \subseteq Components /\ \A k \in plan : world[At(y, k)] = "absent"
      BY <1>4, <2>3 DEF At, Components
    <3>5. \A k \in Components : At(y, k) \notin touched => Agrees(x.draft.own, At(y, k))
      BY <3>1, <3>3 DEF Tells
    <3>6. \A k \in plan : At(y, k) \notin touched => x.draft.own[At(y, k)] \notin Standing
      BY <3>4, <3>5 DEF Agrees
    <3>7. /\ pc = "key" => "mcp" \in plan
          /\ pc = "plugin" => {} = plan \ {"plugin"} /\ "plugin" \in plan
          /\ pc = "verify" => {} = plan
      BY <1>4
    <3>8. ClientOK(y)'
      BY <1>1, <2>3, <2>4, <3>5, <3>6, <3>7 DEF ClientOK, At, Agrees
    <3>9. Tells(y.draft.own, Deployed(y) \ Mine(y))'
      BY <1>1, <2>3, <3>1, <3>2 DEF Tells, Agrees, Deployed, IsFresh, Mine, At
    <3> QED
      BY <1>1, <2>3, <2>4, <3>1, <3>2, <3>8, <3>9 DEF SetupTruth, IsFresh
  <2>7. RemovalTruth(y)' /\ LastTruth(y)'
    BY <2>3, <2>4 DEF RemovalTruth, LastTruth
  <2>8. TruthOK(y)'
    BY <2>5, <2>6, <2>7 DEF TruthOK, Going
  <2> QED
    BY <2>2, <2>8 DEF StaysTrue
<1>7. CASE proc' = [proc EXCEPT ![p] = [Done(p, "incomplete") EXCEPT !.clients = @ \ {c}]]
  <2> DEFINE done == Done(p, "incomplete")
  <2>1. /\ done \in Process /\ done.pc = "clients" /\ done.seen = x.seen /\ done.effects = x.effects
        /\ done.broken = FALSE /\ done.result = Worse(x.result, "incomplete") /\ done.tried = {}
        /\ done.made = FALSE /\ done.draft = x.draft
    BY <1>2, DoneType
  <2>2. PICK rest : rest = done.clients \ {c}
    OBVIOUS
  <2>3. PICK y : y = [done EXCEPT !.clients = rest]
    OBVIOUS
  <2>4. proc' = [proc EXCEPT ![p] = y]
    BY <1>7, <2>2, <2>3
  <2> HIDE DEF done
  <2>5. /\ y.pc = "clients" /\ y.seen = x.seen /\ y.draft = x.draft /\ y.effects = x.effects
        /\ ~y.broken /\ y.tried = {} /\ ~y.made /\ y.result = Worse(x.result, "incomplete")
    BY <2>1, <2>3 DEF Process
  <2>6. y.result = "recovery-required" <=> x.result = "recovery-required"
    BY <1>2, <2>5, ProcessFields DEF Worse
  <2>7. Going(y) =>
          /\ \A a \in Deployed(y) \ touched : y.draft.own[a] \in Standing <=> world'[a] = "ours"
          /\ IsFresh(y) => \A a \in ServiceAssets \ touched : world'[a] = "ours"
    BY <1>1, <1>2, <2>5, <2>6 DEF Going, SetupTruth, Tells, Agrees, Deployed, IsFresh
  <2>8. TruthOK(y)'
    BY <1>1, <1>2, <2>5, <2>6, <2>7, ClientsTruth
  <2> QED
    BY <2>4, <2>8 DEF StaysTrue
<1> QED
  BY <1>3, <1>4, <1>6, <1>7

LEMMA PriorTruth ==
    ASSUME TruthInv, trouble = "none", NEW p \in Procs, VerifyPrior(p), Goto(p, "clients")
    PROVE  StaysTrue(p)
<1> DEFINE x == proc[p]
<1>1. x.pc = "verify-prior" /\ UNCHANGED <<disk, world, touched>>
  BY DEF VerifyPrior, ghosts, outside
<1>2. /\ Typed /\ EffectsOK(x) /\ x \in Process /\ (Going(x) => SetupTruth(x))
      /\ ~x.broken /\ x.tried = {} /\ (x.made => x.effects # "none")
      /\ x.result = "recovery-required" => x.effects # "none"
  BY <1>1, BetweenClients DEF SetupPcs, InClient
<1>3. PICK y : y = [x EXCEPT !.pc = "clients"]
  OBVIOUS
<1>4. proc' = [proc EXCEPT ![p] = y]
  BY <1>3 DEF Goto
<1>5. /\ y.pc = "clients" /\ y.seen = x.seen /\ y.draft = x.draft /\ y.effects = x.effects
      /\ y.broken = x.broken /\ y.tried = x.tried /\ y.made = x.made /\ y.result = x.result
  BY <1>2, <1>3 DEF Process
<1>6. Going(y) =>
        /\ \A a \in Deployed(y) \ touched : y.draft.own[a] \in Standing <=> world'[a] = "ours"
        /\ IsFresh(y) => \A a \in ServiceAssets \ touched : world'[a] = "ours"
  BY <1>1, <1>2, <1>5 DEF Going, SetupTruth, Tells, Agrees, Deployed, IsFresh
<1>7. TruthOK(y)'
  BY <1>1, <1>2, <1>5, <1>6, ClientsTruth
<1> QED
  BY <1>4, <1>7 DEF StaysTrue

LEMMA InstallTruth ==
    ASSUME TruthInv, trouble = "none", NEW p \in Procs, InstallRelease(p)
    PROVE  StaysTrue(p)
<1> DEFINE x == proc[p]
<1>1. /\ x.pc = "install" /\ UNCHANGED <<disk, touched>> /\ Effect(p, "deploy")
      /\ world' = [world EXCEPT ![Release] = "ours", ![Paths] = "ours"]
  BY DEF InstallRelease, ghosts
<1>2. /\ Typed /\ EffectsOK(x) /\ x \in Process /\ (Going(x) => SetupTruth(x))
      /\ ~x.broken /\ x.tried = {} /\ Proven(x.effects) # "none"
      /\ world \in [Things -> Conditions]
  BY <1>1, BetweenClients, Process_ DEF SetupPcs, InClient
<1>3. PICK e : e = Proven(x.effects)
  OBVIOUS
<1>4. PICK y : y = [x EXCEPT !.pc = "deploy", !.effects = e]
  OBVIOUS
<1>5. proc' = [proc EXCEPT ![p] = y]
  BY <1>1, <1>3, <1>4 DEF Effect
<1>6. /\ y.pc = "deploy" /\ y.seen = x.seen /\ y.draft = x.draft /\ y.effects # "none"
      /\ y.broken = x.broken /\ y.tried = x.tried /\ y.result = x.result
  BY <1>2, <1>3, <1>4 DEF Process
<1>7. EffectsOK(y)'
  BY <1>2, <1>6 DEF EffectsOK
<1>8. ASSUME Going(y)
      PROVE  SetupTruth(y)'
  <2>1. IsFresh(x) /\ Tells(x.draft.own, Things)
    BY <1>1, <1>2, <1>6, <1>8 DEF Going, SetupTruth
  <2>2. IsFresh(y) /\ Deployed(y) = Profiles
    BY <1>6, <2>1 DEF IsFresh, Deployed
  <2>3. \A a \in Profiles : a \in Things /\ world'[a] = world[a]
    BY <1>1, <1>2, KindsOfThings
  <2>4. world'[Release] = "ours" /\ world'[Paths] = "ours"
    BY <1>1, <1>2, KindsOfThings, NamesDiffer
  <2>5. Tells(y.draft.own, Deployed(y))'
    BY <1>1, <1>6, <2>1, <2>2, <2>3 DEF Tells, Agrees, Deployed, IsFresh
  <2> QED
    BY <1>6, <2>2, <2>4, <2>5 DEF SetupTruth, InClient, IsFresh
<1>9. RemovalTruth(y)' /\ LastTruth(y)'
  BY <1>6 DEF RemovalTruth, LastTruth
<1>10. TruthOK(y)'
  BY <1>7, <1>8, <1>9 DEF TruthOK, Going
<1> QED
  BY <1>5, <1>10 DEF StaysTrue

LEMMA DeployTruth ==
    ASSUME TruthInv, trouble = "none", NEW p \in Procs, Deploy(p)
    PROVE  StaysTrue(p)
<1> DEFINE x == proc[p]
<1>1. /\ x.pc = "deploy" /\ UNCHANGED <<disk, touched>> /\ world[Release] = "ours"
      /\ world' = [world EXCEPT ![Service] = "ours", ![Volume] = "ours"]
  BY DEF Deploy, ghosts
<1>2. /\ Typed /\ EffectsOK(x) /\ x \in Process /\ (Going(x) => SetupTruth(x))
      /\ ~x.broken /\ x.tried = {} /\ Proven(x.effects) # "none"
      /\ world \in [Things -> Conditions]
  BY <1>1, BetweenClients, Process_ DEF SetupPcs, InClient
<1>3. /\ x.draft \in Disk /\ x.draft.own \in [Assets -> Dispositions]
      /\ Together(x.draft.own) /\ touched \subseteq {Service} \cup Profiles
  BY <1>1, <1>2, AtWork, Operands DEF PlanOK, Free
<1>4. PICK e, o : e = Proven(x.effects) /\ o = Redeployed(p)
  OBVIOUS
<1>5. PICK d : d = [x.draft EXCEPT !.own = o]
  OBVIOUS
<1>6. PICK y : y = [x EXCEPT !.pc = "clients", !.effects = e, !.draft = d]
  OBVIOUS
<1>7. proc' = [proc EXCEPT ![p] = y]
  <2>1. proc' = [proc EXCEPT ![p].pc = "clients", ![p].effects = e, ![p].draft.own = o]
    BY <1>4 DEF Deploy
  <2> QED
    BY <1>5, <1>6, <2>1
<1>8. d.own = o
  BY <1>3, <1>5 DEF Disk
<1>9. /\ y.pc = "clients" /\ y.seen = x.seen /\ y.draft.own = o /\ y.effects # "none"
      /\ y.broken = x.broken /\ y.tried = x.tried /\ y.result = x.result
  BY <1>2, <1>4, <1>6, <1>8 DEF Process
<1>10. \A a \in Assets : o[a] = IF a = Service /\ Reinstall(p) /\ x.draft.own[a] = "removed"
                                THEN "present" ELSE x.draft.own[a]
  BY <1>3, <1>4, KindsOfThings DEF Redeployed
<1>11. /\ \A a \in Things : world'[a] = IF a \in {Service, Volume} THEN "ours" ELSE world[a]
       /\ Things \subseteq Assets
  BY <1>1, <1>2, KindsOfThings
<1>12. ASSUME Going(y)
       PROVE  /\ \A a \in Deployed(y) \ touched :
                     y.draft.own[a] \in Standing <=> world'[a] = "ours"
              /\ IsFresh(y) => \A a \in ServiceAssets \ touched : world'[a] = "ours"
  <2>1. Going(x) /\ SetupTruth(x)
    BY <1>2, <1>9, <1>12 DEF Going
  <2>2. Tells(x.draft.own, Deployed(x)) /\ IsFresh(y) = IsFresh(x) /\ Deployed(y) = Deployed(x)
    BY <1>1, <1>9, <2>1 DEF SetupTruth, IsFresh, Deployed
  <2>3. CASE IsFresh(x)
    <3>1. \A a \in {Release, Paths} \ touched : world[a] = "ours"
      BY <1>1, <2>1, <2>3 DEF SetupTruth
    <3>2. \A a \in ServiceAssets \ touched : world'[a] = "ours"
      BY <1>11, <3>1, KindsOfThings DEF ServiceAssets
    <3>3. \A a \in Profiles : world'[a] = world[a] /\ o[a] = x.draft.own[a]
      BY <1>10, <1>11, KindsOfThings
    <3>4. Deployed(y) = Profiles
      BY <2>2, <2>3 DEF Deployed
    <3> QED
      BY <1>9, <2>2, <3>2, <3>3, <3>4 DEF Tells, Agrees
  <2>4. CASE ~IsFresh(x)
    <3>1. Reinstall(p) /\ Deployed(x) = Things
      BY <1>1, <2>1, <2>4 DEF SetupTruth, Reinstall, Deployed
    <3>2. Release \notin touched /\ Volume \notin touched /\ Release \in Things /\ Volume \in Things
      BY <1>3, KindsOfThings, NamesDiffer
    <3>3. x.draft.own[Release] \in Standing
      BY <1>1, <2>2, <3>1, <3>2 DEF Tells, Agrees
    <3>4. x.draft.own[Volume] \in Standing /\ x.draft.own[Service] \in {"present", "removed"}
      <4>1. x.draft.own[Service] \in Dispositions
        BY <1>3, KindsOfThings
      <4> QED
        BY <1>3, <3>3, <4>1 DEF Together, Dispositions
    <3>5. o[Volume] \in Standing /\ o[Service] = "present"
      BY <1>10, <1>11, <3>1, <3>4, KindsOfThings, NamesDiffer
    <3>6. \A a \in Things \ touched : o[a] \in Standing <=> world'[a] = "ours"
      <4> TAKE a \in Things \ touched
      <4>1. CASE a \in {Service, Volume}
        BY <1>11, <3>5, <4>1 DEF Standing
      <4>2. CASE a \notin {Service, Volume}
        BY <1>10, <1>11, <2>2, <3>1, <4>2 DEF Tells, Agrees
      <4> QED
        BY <4>1, <4>2
    <3> QED
      BY <1>9, <2>2, <2>4, <3>1, <3>6
  <2> QED
    BY <2>3, <2>4
<1>13. TruthOK(y)'
  BY <1>1, <1>2, <1>9, <1>12, ClientsTruth
<1> QED
  BY <1>7, <1>13 DEF StaysTrue

LEMMA SetupFailsTruth ==
    ASSUME TruthInv, trouble = "none", NEW p \in Procs,
           \/ InstallFails(p) \/ DeployFails(p)
           \/ VerifyPrior(p) /\ Goto(p, "failed")
    PROVE  StaysTrue(p)
<1>1. /\ proc[p].pc \in SetupPcs \ InClient
      /\ proc[p].pc \notin {"catch", "unplug", "unmcp", "revoke"} /\ disk' = disk
      /\ Unproven(p, "failed") \/ (Goto(p, "failed") /\ world' = world)
  BY DEF InstallFails, DeployFails, VerifyPrior, outside, SetupPcs, InClient
<1>2. Typed /\ proc[p].pc \notin Free
  BY <1>1, BetweenClients
<1>3. \E z \in Process : Working(p, z)
  BY <1>2, InstallWorks
<1>4. OutTyped /\ Quiet
  BY <1>3 DEF Working
<1> QED
  BY <1>1, <1>2, <1>4, GiveUp, GivesUp

\* Setup publishes what it has verified; a fresh one, that the service is its own.
LEMMA ConcludeTruth ==
    ASSUME TruthInv, trouble = "none", NEW p \in Procs, Conclude(p)
    PROVE  StaysTrue(p)
<1> DEFINE x == proc[p]
<1>1. x.pc = "clients" /\ UNCHANGED <<disk, world, touched>>
  BY DEF Conclude, ghosts, outside
<1>2. /\ Typed /\ EffectsOK(x) /\ x \in Process /\ (Going(x) => SetupTruth(x)) /\ ~x.broken
  BY <1>1, BetweenClients DEF SetupPcs, InClient
<1>3. PICK y \in Process :
             /\ proc' = [proc EXCEPT ![p] = y]
             /\ y.pc = "publish"
             /\ y.left \in {<<"inst", "own", "ext", "integ">>,
                            <<"own", "ext", "integ", "bridge", "inst">>}
             /\ y.effects = x.effects /\ y.broken = x.broken /\ y.result = x.result
             /\ \A a \in Assets : y.draft.own[a] =
                   IF Fresh(p) /\ a \in ServiceAssets THEN "present" ELSE x.draft.own[a]
  BY <1>2, ConcludeTyped
<1>4. EffectsOK(y)'
  BY <1>1, <1>2, <1>3 DEF EffectsOK, SetupPcs, InClient, Tells, Agrees
<1>5. y.left \notin Begun
  <2>1. y.left[1] = "own" \/ y.left[2] = "own"
    BY <1>3
  <2>2. 1 \in DOMAIN y.left /\ 2 \in DOMAIN y.left
    BY <1>3
  <2> QED
    BY <2>1, <2>2 DEF Begun
<1>6. ASSUME Going(y)
      PROVE  Tells(y.draft.own, Things)'
  <2>1. /\ Tells(x.draft.own, Deployed(x))
        /\ IsFresh(x) => \A a \in ServiceAssets \ touched : world[a] = "ours"
    BY <1>1, <1>2, <1>3, <1>6 DEF Going, SetupTruth
  <2>2. Fresh(p) <=> IsFresh(x)
    BY DEF Fresh, IsFresh
  <2>3. \A a \in Things \ touched : y.draft.own[a] \in Standing <=> world[a] = "ours"
    <3> TAKE a \in Things \ touched
    <3>1. a \in Assets /\ (a \in ServiceAssets \/ a \in Profiles)
      BY KindsOfThings
    <3>2. CASE IsFresh(x) /\ a \in ServiceAssets
      BY <1>3, <2>1, <2>2, <3>1, <3>2 DEF Standing
    <3>3. CASE ~(IsFresh(x) /\ a \in ServiceAssets)
      <4>1. y.draft.own[a] = x.draft.own[a] /\ a \in Deployed(x)
        BY <1>3, <2>2, <3>1, <3>3 DEF Deployed
      <4> QED
        BY <2>1, <4>1 DEF Tells, Agrees
    <3> QED
      BY <3>2, <3>3
  <2> QED
    BY <1>1, <2>3 DEF Tells, Agrees
<1>7. SetupTruth(y)' /\ RemovalTruth(y)'
  BY <1>3 DEF SetupTruth, RemovalTruth, InClient
<1>8. Going(y) => LastTruth(y)'
  BY <1>3, <1>5, <1>6 DEF LastTruth, Begun
<1>9. TruthOK(y)'
  BY <1>4, <1>7, <1>8 DEF TruthOK, Going
<1> QED
  BY <1>3, <1>9 DEF StaysTrue

LEMMA StartTruth ==
    ASSUME TruthInv, PlansOK', NEW p \in Procs, StartSetup(p)
    PROVE  TruthInv'
<1>1. Typed
  BY DEF TruthInv, PlansOK, DraftsOK
<1>2. UNCHANGED <<disk, world, touched, trouble>> /\ holder = None /\ proc[p].pc = "idle"
  BY <1>1, StartBecomes
<1>3. PICK y \in Process :
        /\ proc' = [proc EXCEPT ![p] = y] /\ y.seen = disk /\ y.draft.own = disk.own
        /\ y.pc = CASE disk.inst.status = "none" -> "install"
                    [] disk.inst.status = "data-retained" -> "deploy"
                    [] OTHER -> "verify-prior"
        /\ y.effects = "none" /\ y.broken = FALSE /\ y.result = "success"
        /\ y.tried = {} /\ y.made = FALSE
  BY <1>1, StartBecomes
<1>4. ASSUME trouble = "none"
      PROVE  TruthOK(y)'
  <2>1. Tells(disk.own, Things)
    BY <1>2, <1>4 DEF TruthInv
  <2>2. y.pc \in {"install", "deploy", "verify-prior"}
    BY <1>3
  <2>3. EffectsOK(y)'
    BY <1>2, <1>3, <2>1, <2>2 DEF EffectsOK, Tells, Agrees
  <2>4. /\ y.pc = "install" => IsFresh(y)
        /\ y.pc = "verify-prior" => ~IsFresh(y)
        /\ y.pc = "deploy" => y.seen.inst.status = "data-retained" /\ ~IsFresh(y)
    BY <1>3 DEF IsFresh
  <2>5. Tells(y.draft.own, Things)' /\ Tells(y.draft.own, Deployed(y))'
    BY <1>2, <1>3, <2>1, KindsOfThings DEF Tells, Agrees, Deployed
  <2>6. SetupTruth(y)'
    BY <2>2, <2>4, <2>5 DEF SetupTruth, InClient, IsFresh
  <2>7. RemovalTruth(y)' /\ LastTruth(y)'
    BY <2>2 DEF RemovalTruth, LastTruth
  <2> QED
    BY <2>3, <2>6, <2>7 DEF TruthOK
<1>5. holder' = p
  BY DEF StartSetup
<1> QED
  BY <1>2, <1>3, <1>4, <1>5, TruthKept

LEMMA SetupsTruth ==
    ASSUME TruthInv, trouble = "none", NEW p \in Procs, WorkOfSetup(p) \/ Conclude(p)
    PROVE  StaysTrue(p)
<1>1. ASSUME AddRefused(p)
      PROVE  StaysTrue(p)
  BY <1>1, CatchTruth DEF AddRefused, Adding, ghosts, outside
<1>2. ASSUME VerifyPrior(p)
      PROVE  StaysTrue(p)
  BY <1>2, PriorTruth, SetupFailsTruth DEF VerifyPrior
<1> QED
  BY <1>1, <1>2, InstallTruth, DeployTruth, SetupFailsTruth, SkipTruth, PreflightTruth, KeyTruth,
     StoreTruth, AddTruth, VerifyTruth, UndoTruth, UnmcpTruth, RevokeTruth, ConcludeTruth
     DEF WorkOfSetup

(***************************************************************************)
(* The removal commands, and the truth.                                    *)
(***************************************************************************)
RemovalPcs == {"check", "remove", "restore", "publish", "commit"}

LEMMA InRemoval ==
    ASSUME TruthInv, trouble = "none", NEW p \in Procs, proc[p].pc \in RemovalPcs
    PROVE  /\ Typed /\ TruthOK(proc[p]) /\ EffectsOK(proc[p]) /\ proc[p] \in Process
           /\ PlansOK /\ PlanOK(proc[p]) /\ RecordsOK(proc[p]) /\ ShapeOK(proc[p])
           /\ Going(proc[p]) => RemovalTruth(proc[p]) /\ LastTruth(proc[p])
           /\ ~proc[p].broken /\ proc[p].pc \notin Free
           /\ world \in [Things -> Conditions]
           /\ proc[p].draft.own \in [Assets -> Dispositions]
           /\ Proven(proc[p].effects) # "none"
<1>1. proc[p].pc \notin Free /\ proc[p].pc \notin {"catch", "unplug", "unmcp", "revoke"}
  BY DEF RemovalPcs, Free
<1>2. /\ Typed /\ TruthOK(proc[p]) /\ EffectsOK(proc[p]) /\ proc[p] \in Process
      /\ PlanOK(proc[p]) /\ RecordsOK(proc[p]) /\ ShapeOK(proc[p])
      /\ world \in [Things -> Conditions]
  BY <1>1, AtWork
<1>3. proc[p].draft.own \in [Assets -> Dispositions] /\ Proven(proc[p].effects) # "none"
  BY <1>2, Operands, ProcessFields DEF Proven
<1> QED
  BY <1>1, <1>2, <1>3 DEF TruthOK, EffectsOK, TruthInv

LEMMA RemovesOn ==
    ASSUME NEW x, EffectsOK(x), x.pc \in RemovalPcs,
           NEW y, Follows(x, y), y.pc \in RemovalPcs,
           y.effects = "none" => x.effects = "none" /\ world' = world,
           disk'.own = disk.own, touched' = touched,
           Going(x) => RemovalTruth(y)' /\ LastTruth(y)'
    PROVE  TruthOK(y)'
<1>1. y.broken = x.broken /\ ~x.broken /\ y.result = x.result
  BY DEF Follows, EffectsOK, RemovalPcs
<1>2. EffectsOK(y)'
  BY <1>1 DEF EffectsOK, RemovalPcs, SetupPcs, InClient, Tells, Agrees
<1>3. SetupTruth(y)'
  BY DEF SetupTruth, RemovalPcs, InClient
<1> QED
  BY <1>1, <1>2, <1>3 DEF TruthOK, Going

LEMMA CheckTruth ==
    ASSUME TruthInv, trouble = "none", NEW p \in Procs,
           CheckAll(p) \/ CheckRepair(p) \/ CheckClient(p)
    PROVE  StaysTrue(p)
<1> DEFINE x == proc[p]
<1>1. x.pc = "check" /\ UNCHANGED <<disk, world, touched>>
  BY DEF CheckAll, CheckRepair, CheckClient, ghosts, outside
<1>2. /\ Typed /\ EffectsOK(x) /\ PlanOK(x) /\ RecordsOK(x) /\ x.pc \notin Free
  BY <1>1, InRemoval DEF RemovalPcs
<1>3. /\ x.effects = "none" /\ Tells(disk.own, Things) /\ (Fixed(x) => x.draft.own = disk.own)
  BY <1>1, <1>2 DEF PlanOK, EffectsOK, RecordsOK
<1>4. ASSUME NEW y, Failing(p, y)
      PROVE  StaysTrue(p)
  BY <1>1, <1>2, <1>4, GivesUp
<1>5. CASE CheckAll(p) \/ CheckRepair(p)
  <2>1. PICK y \in Process :
          \/ Failing(p, y)
          \/ /\ \E pc \in {"remove", "restore"} :
                   Becomes(p, y, pc, x.todo, x.effects, x.draft, x.left)
             /\ y.pc = "remove" => Fixed(x)
    BY <1>2, <1>5, CheckAllBecomes DEF Becomes, Fixed
  <2>2. CASE ~Failing(p, y)
    <3>1. /\ proc' = [proc EXCEPT ![p] = y] /\ Follows(x, y) /\ y.pc \in {"remove", "restore"}
          /\ y.effects = x.effects /\ y.draft = x.draft /\ y.pc \in RemovalPcs
          /\ y.pc = "remove" => Fixed(x)
      BY <2>1, <2>2 DEF Becomes, RemovalPcs
    <3>2. Fixed(y) = Fixed(x)
      BY <3>1 DEF Fixed, Follows
    <3>3. y.pc = "remove" => y.command # "client-uninstall"
      BY <1>5, <3>1, <1>1 DEF CheckAll, CheckRepair, Follows
    <3>4. Fixed(x) => Tells(y.draft.own, Things)' /\ Tells(y.draft.own, Things \ {Service})'
      BY <1>1, <1>3, <3>1 DEF Tells, Agrees
    <3>5. RemovalTruth(y)' /\ LastTruth(y)'
      BY <1>3, <3>1, <3>2, <3>3, <3>4 DEF RemovalTruth, LastTruth, Fixed
    <3>6. TruthOK(y)'
      BY <1>1, <1>2, <3>1, <3>5, RemovesOn DEF RemovalPcs
    <3> QED
      BY <3>1, <3>6 DEF StaysTrue
  <2> QED
    BY <1>4, <2>2
<1>6. CASE CheckClient(p)
  <2>1. /\ x.command = "client-uninstall"
        /\ \E y \in Process :
             \/ Failing(p, y)
             \/ /\ \E d \in Disk, t \in SUBSET Assets :
                      /\ Becomes(p, y, "remove", t, x.effects, d, x.left)
                      /\ \A a \in Assets : d.own[a] = IF a \in x.todo THEN "removed"
                                                      ELSE x.draft.own[a]
                      /\ t \subseteq x.todo
                      /\ \A a \in x.todo \cap Things : a \notin t => world[a] = "absent"
                /\ "own" \in x.current
    BY <1>2, <1>6, CheckClientBecomes
  <2>2. ASSUME NEW y \in Process, NEW d \in Disk, NEW t \in SUBSET Assets,
               Becomes(p, y, "remove", t, x.effects, d, x.left),
               \A a \in Assets : d.own[a] = IF a \in x.todo THEN "removed" ELSE x.draft.own[a],
               t \subseteq x.todo,
               \A a \in x.todo \cap Things : a \notin t => world[a] = "absent",
               "own" \in x.current
        PROVE  StaysTrue(p)
    <3>1. /\ proc' = [proc EXCEPT ![p] = y] /\ Follows(x, y) /\ y.pc = "remove"
          /\ y.effects = x.effects /\ y.draft = d /\ y.todo = t /\ y.command = "client-uninstall"
      BY <2>1, <2>2 DEF Becomes, Follows
    <3>2. \A a \in Things \ t : a \notin touched => (d.own[a] \in Standing <=> world[a] = "ours")
      <4> TAKE a \in Things \ t
      <4> HAVE a \notin touched
      <4>1. a \in Assets
        BY KindsOfThings
      <4>2. CASE a \in x.todo
        BY <2>2, <4>1, <4>2 DEF Standing
      <4>3. CASE a \notin x.todo
        BY <1>3, <2>2, <4>1, <4>3 DEF Tells, Agrees, Fixed
      <4> QED
        BY <4>2, <4>3
    <3>3. Tells(y.draft.own, Things \ y.todo)'
      BY <1>1, <3>1, <3>2 DEF Tells, Agrees
    <3>4. RemovalTruth(y)' /\ LastTruth(y)'
      BY <3>1, <3>3 DEF RemovalTruth, LastTruth
    <3>5. TruthOK(y)'
      BY <1>1, <1>2, <3>1, <3>4, RemovesOn DEF RemovalPcs
    <3> QED
      BY <3>1, <3>5 DEF StaysTrue
  <2> QED
    BY <1>4, <2>1, <2>2
<1> QED
  BY <1>5, <1>6

LEMMA RemoveTruth ==
    ASSUME TruthInv, trouble = "none", NEW p \in Procs, Remove(p)
    PROVE  StaysTrue(p)
<1> DEFINE x == proc[p]
<1>1. x.pc = "remove" /\ x.pc \in RemovalPcs
  BY DEF Remove, InTurn, RemovalPcs
<1>2. /\ Typed /\ EffectsOK(x) /\ PlanOK(x) /\ world \in [Things -> Conditions]
      /\ Going(x) => RemovalTruth(x)
      /\ x.draft.own \in [Assets -> Dispositions] /\ Proven(x.effects) # "none"
  BY <1>1, InRemoval
<1>3. PICK y \in Process, a \in Assets, d \in Disk :
             /\ Becomes(p, y, "remove", x.todo \ {a}, Proven(x.effects), d, x.left)
             /\ d.own = [x.draft.own EXCEPT ![a] = "removed"]
             /\ InTurn(p, a) /\ Removable(p, a) /\ Possible(p, a) /\ Removal(p, a)
             /\ OutTyped /\ Quiet /\ disk'.own = disk.own /\ touched' = touched
  BY <1>2, RemoveBecomes
<1>4. /\ proc' = [proc EXCEPT ![p] = y] /\ Follows(x, y) /\ y.pc = "remove" /\ y.pc \in RemovalPcs
      /\ y.effects # "none" /\ y.draft = d /\ y.todo = x.todo \ {a} /\ y.command = x.command
  BY <1>2, <1>3 DEF Becomes, Follows, RemovalPcs
<1>5. a \in x.todo
  BY <1>3 DEF InTurn
<1>6. x.command # "uninstall" => a # Service
  <2>1. x.command = "client-uninstall" => a # Service
    BY <1>1, <1>2, <1>5, KindsOfThings DEF PlanOK, TodoOK
  <2>2. Service[2] = "service"
    BY DEF Service
  <2> QED
    BY <1>3, <2>1, <2>2 DEF Removable
<1>7. \A b \in Things : /\ b # a => d.own[b] = x.draft.own[b] /\ world'[b] = world[b]
                        /\ b = a => d.own[b] = "removed"
                        /\ b = a /\ a # Service => world'[b] = "absent"
  BY <1>2, <1>3, KindsOfThings DEF Removal
<1>8. ASSUME NEW S \in SUBSET Things, NEW T \in SUBSET Things, Tells(x.draft.own, S),
             Service \in T => a # Service, T \subseteq S \cup {a}
      PROVE  Tells(d.own, T)'
  <2>1. \A b \in T \ touched : d.own[b] \in Standing <=> world'[b] = "ours"
    <3> TAKE b \in T \ touched
    <3>1. CASE b = a
      BY <1>7, <1>8, <3>1 DEF Standing
    <3>2. CASE b # a
      BY <1>7, <1>8, <3>2 DEF Tells, Agrees
    <3> QED
      BY <3>1, <3>2
  <2>2. touched' = touched
    BY <1>3
  <2> QED
    BY <2>1, <2>2 DEF Tells, Agrees
<1>9. Going(x) => RemovalTruth(y)' /\ LastTruth(y)'
  <2> HAVE Going(x)
  <2>1. RemovalTruth(x)
    BY <1>2
  <2>2. x.command = "uninstall" => Tells(d.own, Things \ {Service})'
    <3>1. x.command = "uninstall" => Tells(x.draft.own, Things \ {Service})
      BY <1>1, <2>1 DEF RemovalTruth
    <3> QED
      BY <1>8, <3>1
  <2>3. x.command = "purge" => Tells(d.own, Things)'
    <3>1. x.command = "purge" => Tells(x.draft.own, Things)
      BY <1>1, <2>1 DEF RemovalTruth
    <3> QED
      BY <1>6, <1>8, <3>1
  <2>4. x.command = "client-uninstall" => Tells(d.own, Things \ y.todo)'
    <3>1. x.command = "client-uninstall" => Tells(x.draft.own, Things \ x.todo)
      BY <1>1, <2>1 DEF RemovalTruth
    <3>2. Things \ y.todo \subseteq (Things \ x.todo) \cup {a}
      BY <1>4
    <3> QED
      BY <1>6, <1>8, <3>1, <3>2
  <2> QED
    BY <1>4, <2>2, <2>3, <2>4 DEF RemovalTruth, LastTruth
<1>10. TruthOK(y)'
  BY <1>1, <1>2, <1>3, <1>4, <1>9, RemovesOn
<1> QED
  BY <1>4, <1>10 DEF StaysTrue

LEMMA NotBegun ==
    /\ <<"own", "inst">> \notin Begun /\ <<"own", "integ", "bridge", "inst">> \notin Begun
    /\ <<"own">> \notin Begun
<1>1. ASSUME NEW l, 1 \in DOMAIN l, l[1] = "own"
      PROVE  l \notin Begun
  BY <1>1 DEF Begun
<1>2. <<"own", "inst">> \notin Begun
  <2>1. 1 \in DOMAIN <<"own", "inst">> /\ <<"own", "inst">>[1] = "own"
    OBVIOUS
  <2> QED
    BY <1>1, <2>1
<1>3. <<"own", "integ", "bridge", "inst">> \notin Begun
  <2>1. /\ 1 \in DOMAIN <<"own", "integ", "bridge", "inst">>
        /\ <<"own", "integ", "bridge", "inst">>[1] = "own"
    OBVIOUS
  <2> QED
    BY <1>1, <2>1
<1>4. <<"own">> \notin Begun
  <2>1. 1 \in DOMAIN <<"own">> /\ <<"own">>[1] = "own"
    OBVIOUS
  <2> QED
    BY <1>1, <2>1
<1> QED
  BY <1>2, <1>3, <1>4

LEMMA StopTruth ==
    ASSUME TruthInv, trouble = "none", NEW p \in Procs,
           StopService(p) \/ PurgeDone(p) \/ ClientDone(p)
    PROVE  StaysTrue(p)
<1> DEFINE x == proc[p]
<1>1. x.pc = "remove" /\ x.pc \in RemovalPcs
  BY DEF StopService, PurgeDone, ClientDone, RemovalPcs
<1>2. /\ Typed /\ PlansOK /\ EffectsOK(x) /\ PlanOK(x) /\ world \in [Things -> Conditions]
      /\ Going(x) => RemovalTruth(x)
      /\ x.draft.own \in [Assets -> Dispositions] /\ Proven(x.effects) # "none"
      /\ x.pc \notin Free
  BY <1>1, InRemoval
<1>3. ASSUME NEW y, NEW d, NEW e, NEW l, Becomes(p, y, "publish", x.todo, e, d, l), l \notin Begun,
             e = "none" => x.effects = "none" /\ world' = world,
             disk'.own = disk.own, touched' = touched,
             Going(x) => \A a \in Things \ touched : d.own[a] \in Standing <=> world'[a] = "ours"
      PROVE  StaysTrue(p)
  <2>1. /\ proc' = [proc EXCEPT ![p] = y] /\ Follows(x, y) /\ y.pc = "publish"
        /\ y.effects = e /\ y.draft = d /\ y.left = l /\ y.pc \in RemovalPcs
    BY <1>3 DEF Becomes, RemovalPcs
  <2>2. Going(x) => Tells(y.draft.own, Things)'
    BY <1>3, <2>1 DEF Tells, Agrees
  <2>3. Going(x) => RemovalTruth(y)' /\ LastTruth(y)'
    BY <1>3, <2>1, <2>2 DEF RemovalTruth, LastTruth, Begun
  <2>4. TruthOK(y)'
    BY <1>1, <1>2, <1>3, <2>1, <2>3, RemovesOn
  <2> QED
    BY <2>1, <2>4 DEF StaysTrue
<1>4. CASE StopService(p)
  <2>1. PICK y \in Process, d \in Disk :
             /\ Becomes(p, y, "publish", x.todo, Proven(x.effects), d, <<"own", "inst">>)
             /\ x.pc = "remove" /\ x.command = "uninstall" /\ x.todo = {}
             /\ d.own = Retained(x.draft.own)
             /\ Put(Service, "absent") /\ OutTyped /\ Quiet /\ UNCHANGED <<disk, touched>>
    BY <1>2, <1>4, StopBecomes
  <2>2. /\ Retained(x.draft.own)[Service] \notin Standing
        /\ \A a \in Assets : Retained(x.draft.own)[a] \in Standing <=> x.draft.own[a] \in Standing
    BY <1>2, <2>1, StoppedService
  <2>3. \A a \in Things : a \in Assets /\ world'[a] = IF a = Service THEN "absent" ELSE world[a]
    BY <1>2, <2>1, KindsOfThings DEF Put
  <2>4. Going(x) => Tells(x.draft.own, Things \ {Service})
    BY <1>1, <1>2, <2>1 DEF RemovalTruth
  <2>5. Going(x) => \A a \in Things \ touched : d.own[a] \in Standing <=> world'[a] = "ours"
    BY <2>1, <2>2, <2>3, <2>4 DEF Tells, Agrees
  <2> QED
    BY <1>2, <1>3, <2>1, <2>5, NotBegun
<1>5. CASE PurgeDone(p)
  <2>1. PICK y \in Process, d \in Disk :
             /\ Becomes(p, y, "publish", x.todo, x.effects, d, <<"own", "inst">>)
             /\ x.pc = "remove" /\ x.command = "purge" /\ x.todo = {}
             /\ d.own = x.draft.own
             /\ OutTyped /\ Quiet /\ UNCHANGED <<disk, world, touched>>
    BY <1>2, <1>5, PurgeBecomes
  <2>2. Going(x) => Tells(x.draft.own, Things)
    BY <1>1, <1>2, <2>1 DEF RemovalTruth
  <2>3. Going(x) => \A a \in Things \ touched : d.own[a] \in Standing <=> world'[a] = "ours"
    BY <2>1, <2>2 DEF Tells, Agrees
  <2> QED
    BY <1>3, <2>1, <2>3, NotBegun
<1>6. CASE ClientDone(p)
  <2>1. PICK y \in Process :
             \/ Failing(p, y)
             \/ \E d \in Disk :
                  /\ Becomes(p, y, "publish", x.todo, x.effects, d,
                             <<"own", "integ", "bridge", "inst">>)
                  /\ x.pc = "remove" /\ x.command = "client-uninstall" /\ x.todo = {}
                  /\ d.own = x.draft.own
                  /\ OutTyped /\ Quiet /\ UNCHANGED <<disk, world, touched>>
    BY <1>2, <1>6, ClientBecomes
  <2>2. CASE Failing(p, y)
    BY <1>1, <1>2, <2>2, GivesUp
  <2>3. ASSUME NEW d \in Disk,
               Becomes(p, y, "publish", x.todo, x.effects, d, <<"own", "integ", "bridge", "inst">>),
               x.command = "client-uninstall", x.todo = {}, d.own = x.draft.own,
               UNCHANGED <<disk, world, touched>>
        PROVE  StaysTrue(p)
    <3>1. Going(x) => Tells(x.draft.own, Things)
      BY <1>1, <1>2, <2>3 DEF RemovalTruth, Tells
    <3>2. Going(x) => \A a \in Things \ touched : d.own[a] \in Standing <=> world'[a] = "ours"
      BY <2>3, <3>1 DEF Tells, Agrees
    <3> QED
      BY <1>3, <2>3, <3>2, NotBegun
  <2> QED
    BY <2>1, <2>2, <2>3
<1> QED
  BY <1>4, <1>5, <1>6

LEMMA RestoreTruth ==
    ASSUME TruthInv, trouble = "none", NEW p \in Procs, Restore(p)
    PROVE  StaysTrue(p)
<1> DEFINE x == proc[p]
<1>1. x.pc = "restore" /\ x.pc \in RemovalPcs
  BY DEF Restore, RemovalPcs
<1>2. /\ Typed /\ EffectsOK(x) /\ PlanOK(x) /\ ShapeOK(x) /\ world \in [Things -> Conditions]
      /\ Going(x) => RemovalTruth(x)
      /\ x.draft.own \in [Assets -> Dispositions] /\ Proven(x.effects) # "none"
  BY <1>1, InRemoval
<1>3. PICK y \in Process, a \in x.todo, d \in Disk, e \in {x.effects, Proven(x.effects)} :
             /\ Becomes(p, y, "restore", x.todo \ {a}, e, d, x.left)
             /\ x.pc = "restore" /\ "own" \in x.current
             /\ \/ /\ world[a] = "absent" /\ Put(a, "ours") /\ e = Proven(x.effects)
                   /\ d.own = [x.draft.own EXCEPT ![a] = IF @ = "removed" THEN "present" ELSE @]
                \/ world' = world /\ world[a] # "absent" /\ d = x.draft /\ e = x.effects
             /\ OutTyped /\ Quiet /\ UNCHANGED <<disk, touched>>
  BY <1>2, RestoreBecomes
<1>4. /\ proc' = [proc EXCEPT ![p] = y] /\ Follows(x, y) /\ y.pc = "restore" /\ y.pc \in RemovalPcs
      /\ y.effects = e /\ y.draft = d /\ Fixed(x) /\ Fixed(y)
  BY <1>3 DEF Becomes, Follows, RemovalPcs, Fixed
<1>5. a \in Things /\ a \in Assets /\ x.draft.own[a] # "none" /\ Things \subseteq Assets
  <2>1. x.command = "repair" /\ TodoOK(x)
    BY <1>1, <1>2 DEF ShapeOK, PlanOK
  <2> QED
    BY <1>3, <1>4, <2>1, KindsOfThings DEF TodoOK
<1>6. Going(x) => \A b \in Things \ touched : d.own[b] \in Standing <=> world'[b] = "ours"
  <2>1. Going(x) => Tells(x.draft.own, Things)
    BY <1>1, <1>2, <1>4 DEF RemovalTruth
  <2>2. CASE Put(a, "ours") /\ d.own = [x.draft.own EXCEPT ![a] = IF @ = "removed" THEN "present" ELSE @]
    <3>1. d.own[a] \in Standing /\ world'[a] = "ours"
      BY <1>2, <1>5, <2>2 DEF Put, Standing, Dispositions
    <3>2. \A b \in Things : b # a => d.own[b] = x.draft.own[b] /\ world'[b] = world[b]
      BY <1>2, <1>5, <2>2 DEF Put
    <3> QED
      BY <2>1, <3>1, <3>2 DEF Tells, Agrees
  <2>3. CASE world' = world /\ d = x.draft
    BY <2>1, <2>3 DEF Tells, Agrees
  <2> QED
    BY <1>3, <2>2, <2>3
<1>7. Going(x) => RemovalTruth(y)' /\ LastTruth(y)'
  BY <1>3, <1>4, <1>6 DEF RemovalTruth, LastTruth, Tells, Agrees, Fixed
<1>8. e = "none" => x.effects = "none" /\ world' = world
  BY <1>2, <1>3
<1>9. TruthOK(y)'
  BY <1>1, <1>2, <1>3, <1>4, <1>7, <1>8, RemovesOn
<1> QED
  BY <1>4, <1>9 DEF StaysTrue

LEMMA RepairTruth ==
    ASSUME TruthInv, trouble = "none", NEW p \in Procs, RepairDone(p)
    PROVE  StaysTrue(p)
<1> DEFINE x == proc[p]
<1>1. x.pc = "restore" /\ x.pc \in RemovalPcs
  BY DEF RepairDone, RemovalPcs
<1>2. /\ Typed /\ EffectsOK(x) /\ RecordsOK(x) /\ (Going(x) => RemovalTruth(x))
  BY <1>1, InRemoval
<1>3. UNCHANGED <<disk, world, touched>>
  BY DEF RepairDone, outside, ghosts
<1>4. PICK y \in Process :
                \/ /\ Becomes(p, y, "commit", x.todo, x.effects, x.draft, <<>>)
                   /\ x.draft.own = x.seen.own
                \/ /\ Becomes(p, y, "publish", x.todo, x.effects, x.draft, <<"own">>)
                   /\ x.draft.own # x.seen.own
  BY <1>2, RepairBecomes
<1>5. /\ proc' = [proc EXCEPT ![p] = y] /\ Follows(x, y) /\ y.pc \in {"commit", "publish"}
      /\ y.effects = x.effects /\ y.draft = x.draft /\ y.pc \in RemovalPcs
      /\ y.pc = "commit" => x.draft.own = x.seen.own
      /\ y.pc = "publish" => x.draft.own # x.seen.own /\ y.left = <<"own">>
  BY <1>4 DEF Becomes, RemovalPcs
<1>6. ASSUME Going(x)
      PROVE  RemovalTruth(y)' /\ LastTruth(y)'
  <2>1. CASE Fixed(x)
    <3>1. Tells(x.draft.own, Things) /\ x.seen.own = disk.own
      BY <1>1, <1>2, <1>6, <2>1 DEF RemovalTruth, RecordsOK
    <3>2. Tells(y.draft.own, Things)' /\ (y.pc = "commit" => Tells(disk.own, Things)')
      BY <1>3, <1>5, <3>1 DEF Tells, Agrees
    <3> QED
      BY <1>5, <3>2, NotBegun DEF RemovalTruth, LastTruth, Begun
  <2>2. CASE ~Fixed(x)
    <3>1. x.draft.own = x.seen.own /\ Tells(disk.own, Things)
      BY <1>1, <1>2, <1>6, <2>2 DEF RemovalTruth, RecordsOK, EffectsOK
    <3> QED
      BY <1>3, <1>5, <3>1 DEF RemovalTruth, LastTruth, Tells, Agrees
  <2> QED
    BY <2>1, <2>2
<1>7. TruthOK(y)'
  BY <1>1, <1>2, <1>3, <1>5, <1>6, RemovesOn
<1> QED
  BY <1>5, <1>7 DEF StaysTrue

LEMMA AcquireTruth ==
    ASSUME TruthInv, PlansOK', NEW p \in Procs, Acquire(p)
    PROVE  TruthInv'
<1>1. Typed
  BY DEF TruthInv, PlansOK, DraftsOK
<1>2. PICK y \in Process :
        Becomes(p, y, "check", proc[p].todo, proc[p].effects, proc[p].draft, proc[p].left)
  BY <1>1, AcquireTyped
<1>3. /\ UNCHANGED <<disk, world, touched, trouble>> /\ holder = None /\ proc[p].pc = "previewed"
      /\ holder' = p
  BY <1>1, AcquireTyped DEF Acquire
<1>4. /\ proc' = [proc EXCEPT ![p] = y] /\ Follows(proc[p], y) /\ y.pc = "check"
      /\ y.effects = proc[p].effects
  BY <1>2 DEF Becomes
<1>5. proc[p].effects = "none" /\ ~proc[p].broken /\ proc[p].result = "success"
  BY <1>3 DEF TruthInv, PlansOK, PlanOK
<1>6. ASSUME trouble = "none"
      PROVE  TruthOK(y)'
  <2>1. Tells(disk.own, Things)'
    BY <1>3, <1>6 DEF TruthInv, Tells, Agrees
  <2>2. EffectsOK(y)'
    BY <1>4, <1>5, <2>1 DEF EffectsOK, Follows, SetupPcs, InClient
  <2>3. SetupTruth(y)' /\ RemovalTruth(y)' /\ LastTruth(y)'
    BY <1>4 DEF SetupTruth, RemovalTruth, LastTruth, InClient
  <2> QED
    BY <2>2, <2>3 DEF TruthOK
<1> QED
  BY <1>3, <1>4, <1>6, TruthKept

\* Who is not at work knows nothing that could become untrue.
LEMMA OthersTruth ==
    ASSUME TruthInv, PlansOK', NEW p \in Procs, proc[p].pc \in Free, NEW y, y.pc \in Free,
           proc' = [proc EXCEPT ![p] = y], UNCHANGED <<disk, world, touched, holder, trouble>>
    PROVE  TruthInv'
<1>1. \A q \in Procs : proc'[q] = IF q = p THEN y ELSE proc[q]
  BY DEF TruthInv, PlansOK, DraftsOK, Typed, TypeOK
<1>2. ASSUME trouble' = "none", NEW q \in Procs, proc'[q].pc \notin Free
      PROVE  TruthOK(proc[q])'
  <2>1. proc'[q] = proc[q] /\ TruthOK(proc[q])
    BY <1>1, <1>2 DEF TruthInv
  <2> QED
    BY <2>1 DEF TruthOK, EffectsOK, Going, SetupTruth, RemovalTruth, LastTruth, ClientOK,
       Tells, Agrees, At, Mine, Deployed, IsFresh, Fixed
<1>3. trouble' = "none" /\ holder' = None => Tells(disk.own, Things)'
  BY DEF TruthInv, Tells, Agrees
<1> QED
  BY <1>2, <1>3 DEF TruthInv

LEMMA RemovingTruth ==
    ASSUME TruthInv, PlansOK', NEW p \in Procs, Removing(p)
    PROVE  TruthInv'
<1>1. Typed
  BY DEF TruthInv, PlansOK, DraftsOK
<1>2. CASE Preview(p)
  <2>1. UNCHANGED <<disk, world, touched, holder, trouble>>
    BY <1>1, <1>2, PreviewBecomes
  <2>2. PICK y \in Process :
          proc' = [proc EXCEPT ![p] = y] /\ proc[p].pc = "idle" /\ y.pc = "previewed"
    BY <1>1, <1>2, PreviewBecomes
  <2>3. proc[p].pc \in Free /\ y.pc \in Free /\ proc' = [proc EXCEPT ![p] = y]
    BY <2>2 DEF Free
  <2> QED
    BY <2>1, <2>3, OthersTruth
<1>3. CASE LockRefused(p)
  BY <1>1, <1>3, LockRefusedTyped, IdleShape, OthersTruth DEF Free
<1>4. CASE Acquire(p)
  BY <1>4, AcquireTruth
<1>5. CASE ~Preview(p) /\ ~LockRefused(p) /\ ~Acquire(p)
  <2>1. proc[p].pc \in {"check", "remove", "restore"} /\ proc[p].pc \in RemovalPcs
    BY <1>5 DEF Removing, CheckAll, CheckClient, CheckRepair, Remove, RemoveRefused, RemoveFails,
       StopService, StopFails, PurgeDone, ClientDone, Restore, RestoreFails, RepairDone, InTurn,
       RemovalPcs
  <2>2. proc[p].pc \notin Free /\ proc[p].pc \notin {"catch", "unplug", "unmcp", "revoke"}
    BY <2>1 DEF Free
  <2>3. holder' = holder /\ trouble' = trouble
    BY <1>5 DEF Removing, CheckAll, CheckClient, CheckRepair, Remove, RemoveRefused, RemoveFails,
       StopService, StopFails, PurgeDone, ClientDone, Restore, RestoreFails, RepairDone
  <2>4. PICK z : proc' = [proc EXCEPT ![p] = z]
    <3>1. PlansOK
      BY DEF TruthInv
    <3> QED
      BY <1>5, <3>1, RemovingPlans DEF Plans, Removing
  <2>5. trouble = "none" => StaysTrue(p)
    <3>1. RemoveRefused(p) \/ RemoveFails(p) \/ StopFails(p) \/ RestoreFails(p)
            => \E y \in Process : Failing(p, y)
      BY <1>1, RemoveFailing, OtherFailing
    <3> QED
      BY <1>5, <2>2, <3>1, GivesUp, CheckTruth, RemoveTruth, StopTruth, RestoreTruth, RepairTruth
         DEF Removing
  <2>6. CASE trouble = "none"
    <3>1. PICK y : proc' = [proc EXCEPT ![p] = y] /\ TruthOK(y)'
      BY <2>5, <2>6 DEF StaysTrue
    <3> QED
      BY <2>2, <2>3, <3>1, TruthKept
  <2>7. CASE trouble # "none"
    BY <2>2, <2>3, <2>4, <2>7, TruthKept
  <2> QED
    BY <2>6, <2>7
<1> QED
  BY <1>2, <1>3, <1>4, <1>5

(***************************************************************************)
(* The end of a command, the user, and the theorem.                        *)
(***************************************************************************)
\* The ownership is written once, at its turn.
LEMMA InTheList ==
    ASSUME NEW l \in Lists
    PROVE  /\ l \in Begun => Head(l) # "own"
           /\ l \notin Begun /\ Head(l) # "own" => Len(l) # 1 /\ Tail(l) \notin Begun
<1>1. l # <<>> /\ l \in Seq(Records)
  BY ListFacts
<1>2. l \in Begun => Head(l) # "own"
  BY <1>1 DEF Begun
<1>3. ASSUME l \notin Begun, Head(l) # "own"
      PROVE  Len(l) # 1 /\ Tail(l) \notin Begun
  <2>1. PICK i \in DOMAIN l : l[i] = "own"
    BY <1>3 DEF Begun
  <2>2. i \in 2 .. Len(l)
    BY <1>1, <1>3, <2>1
  <2>3. i - 1 \in DOMAIN Tail(l) /\ Tail(l)[i - 1] = l[i]
    BY <1>1, <2>2
  <2>4. Tail(l) \notin Begun
    BY <2>1, <2>3 DEF Begun
  <2>5. Len(l) # 1
    BY <1>1, <2>2
  <2> QED
    BY <2>4, <2>5
<1> QED
  BY <1>2, <1>3

\* A record is published, and previews of others are out of date.
LEMMA PublishKept ==
    ASSUME TruthInv, PlansOK', NEW p \in Procs, proc[p].pc \notin Free, NEW r \in Records, NEW y,
           proc' = [Stale(p, r) EXCEPT ![p] = y], holder' = holder, trouble' = trouble,
           trouble = "none" => TruthOK(y)'
    PROVE  TruthInv'
<1>1. Typed /\ LockOK
  BY DEF TruthInv, PlansOK, DraftsOK, Typed
<1>2. \A q \in Procs : proc'[q] = IF q = p THEN y ELSE Stale(p, r)[q]
  BY <1>1, StaleType
<1>3. holder' = p /\ holder' # None
  BY <1>1, NobodyAssumption DEF LockOK
<1>4. \A q \in Procs : q # p => proc[q].pc \in Free
  BY <1>1, <1>3 DEF LockOK
<1>5. \A q \in Procs : q # p => Stale(p, r)[q].pc \in Free
  BY <1>1, <1>4, StaleType DEF Free
<1>6. ASSUME trouble' = "none", NEW q \in Procs, proc'[q].pc \notin Free
      PROVE  TruthOK(proc[q])'
  <2>1. proc'[q] = y
    BY <1>2, <1>5, <1>6
  <2>2. TruthOK(y)'
    BY <1>6
  <2> QED
    BY <2>1, <2>2 DEF TruthOK, EffectsOK, Going, SetupTruth, RemovalTruth, LastTruth, ClientOK,
       Tells, Agrees, At, Mine, Deployed, IsFresh, Fixed
<1> QED
  BY <1>3, <1>6 DEF TruthInv

LEMMA PublishTruth ==
    ASSUME TruthInv, PlansOK', NEW p \in Procs, Publish(p)
    PROVE  TruthInv'
<1> DEFINE x == proc[p]
<1>1. Typed
  BY DEF TruthInv, PlansOK, DraftsOK
<1>2. PICK r \in Records : r = Head(x.left)
  BY <1>1, PublishBecomes
<1>3. /\ UNCHANGED <<world, touched, holder, trouble>> /\ x.pc = "publish" /\ x.left \in Lists
      /\ disk' = Written(p, r) /\ x.pc \notin Free
  BY <1>1, <1>2, PublishBecomes DEF Quiet, Free
<1>4. PICK y \in Process :
        /\ proc' = [Stale(p, r) EXCEPT ![p] = y] /\ Follows(x, y)
        /\ y.draft = x.draft /\ y.effects = Proven(x.effects)
        /\ \/ Len(x.left) = 1 /\ y.pc = "commit"
           \/ Len(x.left) # 1 /\ y.pc = "publish" /\ y.left = Tail(x.left)
  BY <1>1, <1>2, PublishBecomes
<1>5. ASSUME trouble = "none"
      PROVE  TruthOK(y)'
  <2>1. /\ EffectsOK(x) /\ (Going(x) => LastTruth(x)) /\ ~x.broken /\ Proven(x.effects) # "none"
    BY <1>3, <1>5, InRemoval DEF RemovalPcs
  <2>2. EffectsOK(y)'
    BY <1>4, <2>1 DEF EffectsOK, Follows, SetupPcs, InClient
  <2>3. SetupTruth(y)' /\ RemovalTruth(y)'
    BY <1>4 DEF SetupTruth, RemovalTruth, InClient
  <2>4. ASSUME Going(x)
        PROVE  LastTruth(y)'
    <3>1. /\ Tells(x.draft.own, Things)
          /\ x.left \in Begun => disk.own = x.draft.own
      BY <1>3, <2>1, <2>4 DEF LastTruth
    <3>2. Tells(y.draft.own, Things)'
      BY <1>3, <1>4, <3>1 DEF Tells, Agrees
    <3>3. x.left \in Begun \/ r = "own" => disk'.own = x.draft.own
      BY <1>1, <1>2, <1>3, <3>1, WrittenType
    <3>4. ~(x.left \in Begun \/ r = "own") => Len(x.left) # 1 /\ Tail(x.left) \notin Begun
      BY <1>2, <1>3, InTheList
    <3>5. y.pc = "publish" /\ y.left \in Begun => disk'.own = y.draft.own
      BY <1>4, <3>3, <3>4
    <3>6. y.pc = "commit" => Tells(disk.own, Things)'
      <4>1. y.pc = "commit" => disk'.own = y.draft.own
        BY <1>4, <3>3, <3>4
      <4> QED
        BY <3>2, <4>1 DEF Tells, Agrees
    <3> QED
      BY <3>2, <3>5, <3>6 DEF LastTruth, Begun
  <2> QED
    BY <1>4, <2>2, <2>3, <2>4 DEF TruthOK, Going, Follows
<1> QED
  BY <1>3, <1>4, <1>5, PublishKept

LEMMA PublishFailsTruth ==
    ASSUME TruthInv, PlansOK', NEW p \in Procs, PublishFails(p)
    PROVE  TruthInv'
<1> DEFINE x == proc[p]
<1>1. Typed
  BY DEF TruthInv, PlansOK, DraftsOK
<1>2. PICK r \in Records : r = Head(x.left)
  BY <1>1, PublishFailsBecomes
<1>3. /\ UNCHANGED <<world, touched, holder, trouble>> /\ x.pc = "publish" /\ x.pc \notin Free
  BY <1>1, PublishFailsBecomes DEF Quiet, Free
<1>4. PICK y \in Process :
        \/ Failing(p, y)
        \/ /\ proc' = [Stale(p, r) EXCEPT ![p] = y] /\ Follows(x, y)
           /\ y.effects = "unproven" /\ y.pc = "failed"
  BY <1>1, <1>2, PublishFailsBecomes
<1>5. CASE Failing(p, y)
  <2>1. trouble = "none" => TruthOK(y)'
    BY <1>3, <1>5, AtWork, FailTruth
  <2> QED
    BY <1>3, <1>5, <2>1, TruthKept DEF Failing
<1>6. CASE /\ proc' = [Stale(p, r) EXCEPT ![p] = y] /\ Follows(x, y)
           /\ y.effects = "unproven" /\ y.pc = "failed"
  <2>1. ASSUME trouble = "none"
        PROVE  TruthOK(y)'
    <3>1. ~x.broken
      BY <1>3, <2>1, InRemoval DEF RemovalPcs
    <3>2. EffectsOK(y)'
      BY <1>6, <3>1 DEF EffectsOK, Follows, SetupPcs, InClient
    <3>3. SetupTruth(y)' /\ RemovalTruth(y)' /\ LastTruth(y)'
      BY <1>6 DEF SetupTruth, RemovalTruth, LastTruth, InClient
    <3> QED
      BY <3>2, <3>3 DEF TruthOK
  <2> QED
    BY <1>3, <1>6, <2>1, PublishKept
<1> QED
  BY <1>4, <1>5, <1>6

\* A command that ends without a word has left the records as true as they were, or has made
\* them so.
LEMMA EndTruth ==
    ASSUME TruthInv, PlansOK', NEW p \in Procs, Commit(p) \/ Failed(p) \/ Crash(p)
    PROVE  TruthInv'
<1> DEFINE x == proc[p]
<1>1. Typed /\ LockOK
  BY DEF TruthInv, PlansOK, DraftsOK, Typed
<1>2. /\ x.pc \notin Free /\ holder' = None /\ proc' = [proc EXCEPT ![p] = Idle]
      /\ UNCHANGED <<disk, world, touched>>
  BY <1>1, EndTyped DEF Ends
<1>3. holder = p /\ \A q \in Procs : q # p => proc[q].pc \in Free
  BY <1>1, <1>2 DEF LockOK
<1>4. \A q \in Procs : proc'[q].pc \in Free
  <2>1. \A q \in Procs : proc'[q] = IF q = p THEN Idle ELSE proc[q]
    BY <1>1, <1>2 DEF Typed, TypeOK
  <2> HIDE DEF Idle
  <2> QED
    BY <1>3, <2>1, IdleShape DEF Free
<1>5. ASSUME trouble' = "none"
      PROVE  Tells(disk.own, Things)'
  <2>1. trouble = "none" /\ (x.effects = "none" \/ (x.pc = "commit" /\ x.result # "recovery-required"))
    BY <1>1, <1>5 DEF Commit, Failed, Crash, End, Typed, TypeOK
  <2>2. TruthOK(x) /\ EffectsOK(x)
    BY <1>2, <2>1, AtWork
  <2>3. Tells(disk.own, Things)
    <3>1. CASE x.effects = "none"
      BY <2>2, <3>1 DEF EffectsOK
    <3>2. CASE x.pc = "commit" /\ x.result # "recovery-required"
      BY <2>2, <3>2 DEF TruthOK, EffectsOK, Going, LastTruth
    <3> QED
      BY <2>1, <3>1, <3>2
  <2> QED
    BY <1>2, <2>3 DEF Tells, Agrees
<1> QED
  BY <1>4, <1>5 DEF TruthInv

\* What the user touches, nobody claims to know.
LEMMA MeddleTruth ==
    ASSUME TruthInv, PlansOK', Meddle
    PROVE  TruthInv'
<1>1. Typed
  BY DEF TruthInv, PlansOK, DraftsOK
<1>2. UNCHANGED <<disk, holder, trouble>>
  BY <1>1, MeddleBecomes
<1>3. PICK b \in Profiles \cup {Service}, v \in Conditions :
        touched' = touched \cup {b} /\ world' = [world EXCEPT ![b] = v]
  BY <1>1, MeddleBecomes
<1>4. /\ \A a \in Things : a \notin touched' => a \notin touched /\ world'[a] = world[a]
      /\ \A a : a \notin touched' => a \notin touched
  BY <1>1, <1>3, Process_
<1>5. \A own : \A S \in SUBSET Things : Tells(own, S) =>
         \A a \in S : a \notin touched' => (own[a] \in Standing <=> world'[a] = "ours")
  BY <1>4 DEF Tells, Agrees
<1>6. ASSUME trouble = "none", NEW q \in Procs, proc'[q].pc \notin Free
      PROVE  TruthOK(proc[q])'
  <2> DEFINE x == proc[q]
  <2>1. x \in Process
    BY <1>1, Process_
  <2>2. PICK f \in SUBSET {"mcp", "plugin"} : proc'[q] = [x EXCEPT !.foul = f]
    BY <1>1, MeddleBecomes
  <2>3. PICK y : y = proc'[q]
    OBVIOUS
  <2>4. /\ y.pc = x.pc /\ y.command = x.command /\ y.client = x.client /\ y.todo = x.todo
        /\ y.current = x.current /\ y.seen = x.seen /\ y.draft = x.draft /\ y.left = x.left
        /\ y.plan = x.plan /\ y.tried = x.tried /\ y.made = x.made /\ y.broken = x.broken
        /\ y.effects = x.effects /\ y.result = x.result
    BY <2>1, <2>2, <2>3 DEF Process
  <2>5. EffectsOK(x) /\ (Going(x) => SetupTruth(x) /\ RemovalTruth(x) /\ LastTruth(x))
    BY <1>6, <2>3, <2>4 DEF TruthInv, TruthOK
  <2>6. EffectsOK(y)'
    BY <1>2, <1>5, <2>4, <2>5 DEF EffectsOK, Tells, Agrees
  <2>7. ASSUME Going(x)
        PROVE  SetupTruth(y)'
    <3>1. SetupTruth(x)
      BY <2>5, <2>7
    <3>2. /\ Deployed(y) = Deployed(x) /\ Mine(y) = Mine(x) /\ IsFresh(y) = IsFresh(x)
          /\ \A k : At(y, k) = At(x, k)
          /\ Deployed(x) \subseteq Things /\ Deployed(x) \ Mine(x) \subseteq Things
          /\ ServiceAssets \subseteq Things /\ Release \in Things /\ Paths \in Things
      BY <2>4, KindsOfThings DEF Deployed, Mine, IsFresh, At
    <3>3. /\ y.pc \in {"install", "verify-prior"} => Tells(y.draft.own, Things)'
          /\ y.pc \in {"deploy", "clients"} => Tells(y.draft.own, Deployed(y))'
          /\ y.pc \in InClient => Tells(y.draft.own, Deployed(y) \ Mine(y))'
      <4>1. /\ y.pc \in {"install", "verify-prior"} => Tells(x.draft.own, Things)
            /\ y.pc \in {"deploy", "clients"} => Tells(x.draft.own, Deployed(x))
            /\ y.pc \in InClient => Tells(x.draft.own, Deployed(x) \ Mine(x))
        BY <2>4, <3>1 DEF SetupTruth
      <4>2. ASSUME NEW S \in SUBSET Things, Tells(x.draft.own, S)
            PROVE  \A a \in S : a \notin touched' => (y.draft.own[a] \in Standing <=> world'[a] = "ours")
        BY <1>5, <2>4, <4>2
      <4> DEFINE Told(S) ==
                   \A a \in S : a \notin touched' => (y.draft.own[a] \in Standing <=> world'[a] = "ours")
      <4>3. /\ y.pc \in {"install", "verify-prior"} => Told(Things)
            /\ y.pc \in {"deploy", "clients"} => Told(Deployed(x))
            /\ y.pc \in InClient => Told(Deployed(x) \ Mine(x))
        BY <3>2, <4>1, <4>2
      <4>4. /\ y.pc \in {"install", "verify-prior"} => Told(Things)
            /\ y.pc \in {"deploy", "clients"} => Told(Deployed(y))
            /\ y.pc \in InClient => Told(Deployed(y) \ Mine(y))
        BY <3>2, <4>3
      <4> QED
        BY <4>4 DEF Tells, Agrees, Deployed, Mine, At, IsFresh
    <3>4. y.pc \in InClient => ClientOK(y)'
      <4> HAVE y.pc \in InClient
      <4>1. ClientOK(x) /\ x.client \in Clients
        BY <1>1, <2>4, <3>1, Process_ DEF SetupTruth, ShapeOK
      <4>2. \A k \in Components : At(x, k) \in Things
        BY <4>1, KindsOfThings DEF At, Profiles, Components
      <4>3. x.tried \subseteq Components /\ x.plan \subseteq Components /\ "plugin" \in Components
        BY <2>1, ProcessFields DEF Components
      <4>4. \A k \in Components : At(x, k) \notin touched' =>
               At(x, k) \notin touched /\ world'[At(x, k)] = world[At(x, k)]
        BY <1>4, <4>2
      <4> QED
        BY <2>4, <3>2, <4>1, <4>3, <4>4 DEF ClientOK, At, Agrees
    <3>5. /\ y.pc = "deploy" /\ IsFresh(y) => \A a \in {Release, Paths} \ touched' : world'[a] = "ours"
          /\ y.pc \in InClient \cup {"clients"} /\ IsFresh(y) =>
                \A a \in ServiceAssets \ touched' : world'[a] = "ours"
      BY <1>4, <2>4, <3>1, <3>2 DEF SetupTruth
    <3> QED
      BY <2>4, <3>1, <3>2, <3>3, <3>4, <3>5 DEF SetupTruth, IsFresh
  <2>8. ASSUME Going(x)
        PROVE  RemovalTruth(y)' /\ LastTruth(y)'
    <3>1. RemovalTruth(x) /\ LastTruth(x)
      BY <2>5, <2>8
    <3> DEFINE Told(own, S) ==
                 \A a \in S : a \notin touched' => (own[a] \in Standing <=> world'[a] = "ours")
    <3>2. ASSUME NEW own, NEW S \in SUBSET Things, Tells(own, S)
          PROVE  Told(own, S)
      BY <1>5, <3>2
    <3>3. Fixed(y) = Fixed(x)
      BY <2>4 DEF Fixed
    <3>4. RemovalTruth(y)'
      <4>1. /\ y.pc = "remove" /\ y.command = "uninstall" => Told(y.draft.own, Things \ {Service})
            /\ y.pc = "remove" /\ y.command = "purge" => Told(y.draft.own, Things)
            /\ y.pc = "remove" /\ y.command = "client-uninstall" => Told(y.draft.own, Things \ y.todo)
            /\ y.pc = "restore" /\ Fixed(y) => Told(y.draft.own, Things)
            /\ y.pc = "restore" /\ ~Fixed(y) => y.effects = "none"
        <5> HIDE DEF Told
        <5> QED
          BY <2>4, <3>1, <3>2, <3>3 DEF RemovalTruth
      <4> QED
        BY <4>1 DEF RemovalTruth, Fixed, Tells, Agrees
    <3>5. LastTruth(y)'
      <4>1. /\ y.pc = "publish" => Told(y.draft.own, Things)
            /\ y.pc = "publish" /\ y.left \in Begun => disk.own = y.draft.own
            /\ y.pc = "commit" => Told(disk.own, Things)
        <5> HIDE DEF Told
        <5> QED
          BY <2>4, <3>1, <3>2 DEF LastTruth
      <4> QED
        BY <1>2, <4>1 DEF LastTruth, Begun, Tells, Agrees
    <3> QED
      BY <3>4, <3>5
  <2>9. TruthOK(y)'
    BY <2>4, <2>6, <2>7, <2>8 DEF TruthOK, Going
  <2> QED
    BY <2>3, <2>9 DEF TruthOK, EffectsOK, Going, SetupTruth, RemovalTruth, LastTruth, ClientOK,
       Tells, Agrees, At, Mine, Deployed, IsFresh, Fixed
<1>7. trouble' = "none" /\ holder' = None => Tells(disk.own, Things)'
  BY <1>2, <1>5 DEF TruthInv, Tells, Agrees
<1> QED
  BY <1>2, <1>6, <1>7 DEF TruthInv

LEMMA SetupKeepsTruth ==
    ASSUME TruthInv, PlansOK', NEW p \in Procs, Setup(p)
    PROVE  TruthInv'
<1>1. Typed
  BY DEF TruthInv, PlansOK, DraftsOK
<1>2. StartSetup(p) \/ WorkOfSetup(p) \/ Conclude(p)
  BY DEF Setup, WorkOfSetup
<1>3. CASE StartSetup(p)
  BY <1>3, StartTruth
<1>4. CASE WorkOfSetup(p) \/ Conclude(p)
  <2>1. \E z \in Process :
          proc' = [proc EXCEPT ![p] = z] /\ Quiet /\ proc[p].pc \in SetupPcs
    <3>1. CASE WorkOfSetup(p)
      BY <1>1, <3>1, SetupWorks DEF Working
    <3>2. CASE Conclude(p)
      <4>1. proc[p].pc \in SetupPcs
        BY <3>2 DEF Conclude, SetupPcs
      <4> QED
        BY <1>1, <3>2, <4>1, ConcludeTyped
    <3> QED
      BY <1>4, <3>1, <3>2
  <2>2. holder' = holder /\ trouble' = trouble /\ proc[p].pc \notin Free
    BY <2>1 DEF Quiet, SetupPcs, InClient, Free
  <2>3. CASE trouble = "none"
    <3>1. PICK y : proc' = [proc EXCEPT ![p] = y] /\ TruthOK(y)'
      BY <1>4, <2>3, SetupsTruth DEF StaysTrue
    <3> QED
      BY <2>2, <3>1, TruthKept
  <2>4. CASE trouble # "none"
    <3>1. PICK y : proc' = [proc EXCEPT ![p] = y]
      BY <2>1
    <3> QED
      BY <2>2, <2>4, <3>1, TruthKept
  <2> QED
    BY <2>3, <2>4
<1> QED
  BY <1>2, <1>3, <1>4

LEMMA TruthNext ==
    ASSUME TruthInv, [Next]_vars
    PROVE  TruthInv'
<1>1. PlansOK'
  BY PlansNext DEF TruthInv
<1>2. ASSUME NEW p \in Procs, Setup(p)
      PROVE  TruthInv'
  BY <1>1, <1>2, SetupKeepsTruth
<1>3. ASSUME NEW p \in Procs, Removing(p)
      PROVE  TruthInv'
  BY <1>1, <1>3, RemovingTruth
<1>4. ASSUME NEW p \in Procs, Ending(p)
      PROVE  TruthInv'
  BY <1>1, <1>4, PublishTruth, PublishFailsTruth, EndTruth DEF Ending
<1>5. CASE Meddle
  BY <1>1, <1>5, MeddleTruth
<1>6. CASE UNCHANGED vars
  <2>1. /\ disk' = disk /\ world' = world /\ touched' = touched /\ holder' = holder
        /\ trouble' = trouble /\ proc' = proc
    BY <1>6 DEF vars, outside, ghosts
  <2>2. trouble' = "none" /\ holder' = None => Tells(disk.own, Things)'
    BY <2>1 DEF TruthInv, Tells, Agrees
  <2>3. ASSUME trouble' = "none", NEW p \in Procs, proc'[p].pc \notin Free
        PROVE  TruthOK(proc[p])'
    <3>1. TruthOK(proc[p])
      BY <2>1, <2>3 DEF TruthInv
    <3> QED
      BY <2>1, <3>1 DEF TruthOK, EffectsOK, Going, SetupTruth, RemovalTruth, LastTruth, ClientOK,
         Tells, Agrees, At, Mine, Deployed, IsFresh, Fixed
  <2> QED
    BY <1>1, <2>2, <2>3 DEF TruthInv
<1> QED
  BY <1>2, <1>3, <1>4, <1>5, <1>6 DEF Next

LEMMA InitTruth == Init => TruthInv
<1> SUFFICES ASSUME Init PROVE TruthInv
  OBVIOUS
<1>1. disk.own = [a \in Assets |-> "none"] /\ world = [a \in Things |-> "absent"]
  BY DEF Init, NoRecords
<1>2. Tells(disk.own, Things)
  BY <1>1, KindsOfThings DEF Tells, Agrees, Standing
<1>3. \A p \in Procs : proc[p].pc \in Free
  BY IdleShape DEF Init, Free
<1> QED
  BY <1>2, <1>3, InitPlans DEF TruthInv

(***************************************************************************)
(* Between two commands, and as long as each has come to what it has       *)
(* reported, ownership.json lists what SkillWire has made and that is      *)
(* still there, and nothing else: setup, whatever fails it for a client,   *)
(* uninstall, "clients uninstall", purge and repair leave it so.           *)
(***************************************************************************)
THEOREM RecordIsAlwaysTrue == Spec => []RecordIsTrue
<1>1. TruthInv => RecordIsTrue
  BY DEF TruthInv, RecordIsTrue, Tells, Agrees, Standing
<1> QED
  BY <1>1, InitTruth, TruthNext, PTL DEF Spec
=============================================================================
