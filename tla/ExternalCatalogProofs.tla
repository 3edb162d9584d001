----------------------- MODULE ExternalCatalogProofs -----------------------
(***************************************************************************)
(* Proofs about ExternalCatalog, for any jobs, repositories, trees and     *)
(* bounds.  First what a synchronization makes of a commit: that the       *)
(* revisions are well defined although they name one another, and that     *)
(* they are closed under dependencies.  Then the store.                    *)
(***************************************************************************)
EXTENDS ExternalCatalog, FiniteSetTheorems, TLAPS

(***************************************************************************)
(* The healthy skills are the least closed set.                            *)
(***************************************************************************)

\* A set that has a skill without findings as soon as it has what that depends on.
Closed(t, lost, S) ==
    \A p \in Parsed(t, lost) :
        OwnFindings(t, lost, p) = {} /\ Targets(t, lost, p) \subseteq S => p \in S

\* A tree whose skills have their roots in Paths.
Rooted(t) == t.declares \subseteq Paths

LEMMA ParsedPaths ==
    ASSUME NEW t, NEW lost, Rooted(t)
    PROVE  Parsed(t, lost) \subseteq Candidates(t) /\ Candidates(t) \subseteq Paths
BY DEF Parsed, Candidates, Nested, Rooted

LEMMA LeastHealthy ==
    ASSUME NEW t, NEW lost, NEW S \in SUBSET Paths, Closed(t, lost, S)
    PROVE  Healthy(t, lost) \subseteq S
BY Zenon DEF Healthy, Closed

LEMMA HealthyClosed ==
    ASSUME NEW t, NEW lost
    PROVE  Closed(t, lost, Healthy(t, lost))
<1> SUFFICES ASSUME NEW p \in Parsed(t, lost), OwnFindings(t, lost, p) = {},
                    Targets(t, lost, p) \subseteq Healthy(t, lost)
             PROVE  p \in Healthy(t, lost)
  BY DEF Closed
<1>1. ASSUME NEW S \in SUBSET Paths, Closed(t, lost, S)
      PROVE  p \in S
  <2>1. Targets(t, lost, p) \subseteq S
    BY <1>1, LeastHealthy
  <2> QED
    BY <1>1, <2>1 DEF Closed
<1> QED
  BY <1>1, Zenon DEF Healthy, Closed

\* A healthy skill has no findings, and what it depends on is healthy.
LEMMA HealthyFacts ==
    ASSUME NEW t, NEW lost, Rooted(t), NEW p \in Healthy(t, lost)
    PROVE  /\ p \in Parsed(t, lost) /\ p \in Paths /\ p \in Candidates(t)
           /\ OwnFindings(t, lost, p) = {}
           /\ Targets(t, lost, p) \subseteq Healthy(t, lost)
<1> DEFINE S == {q \in Parsed(t, lost) : /\ OwnFindings(t, lost, q) = {}
                                        /\ Targets(t, lost, q) \subseteq Healthy(t, lost)}
<1>1. S \in SUBSET Paths
  BY ParsedPaths
<1>2. S \subseteq Healthy(t, lost)
  BY HealthyClosed DEF Closed
<1>3. Closed(t, lost, S)
  BY <1>2 DEF Closed
<1>4. Healthy(t, lost) \subseteq S
  BY <1>1, <1>3, LeastHealthy
<1> QED
  BY <1>4, ParsedPaths

(***************************************************************************)
(* The revisions are well defined.                                         *)
(***************************************************************************)

\* The revision of the skill at p, with the revisions f of what it depends on.
Built(t, c, lost, p, f) ==
    [commit |-> c,
     is |-> [path |-> p, name |-> t.doc[p].name, body |-> t.doc[p].body,
             targets |-> {f[q] : q \in Targets(t, lost, p)}]]

\* Function f is right about the skills of D, and D has all that they depend on.
RightOn(t, c, lost, D, f) ==
    \A p \in D : Targets(t, lost, p) \subseteq D /\ f[p] = Built(t, c, lost, p, f)

LEMMA BuiltAlike ==
    ASSUME NEW t, NEW c, NEW lost, NEW p, NEW f, NEW g,
           \A q \in Targets(t, lost, p) : f[q] = g[q]
    PROVE  Built(t, c, lost, p, f) = Built(t, c, lost, p, g)
<1>1. {f[q] : q \in Targets(t, lost, p)} = {g[q] : q \in Targets(t, lost, p)}
  OBVIOUS
<1> QED
  BY <1>1 DEF Built

LEMMA RightAgree ==
    ASSUME NEW t, NEW c, NEW lost, Rooted(t),
           NEW D, NEW E, NEW f, NEW g,
           RightOn(t, c, lost, D, f), RightOn(t, c, lost, E, g),
           NEW p \in Healthy(t, lost), p \in D, p \in E
    PROVE  f[p] = g[p]
<1> DEFINE S == {q \in Paths : q \in D /\ q \in E => f[q] = g[q]}
<1>1. Closed(t, lost, S)
  <2> SUFFICES ASSUME NEW q \in Parsed(t, lost), Targets(t, lost, q) \subseteq S,
                      q \in D, q \in E
               PROVE  f[q] = g[q]
    BY ParsedPaths DEF Closed
  <2>1. \A x \in Targets(t, lost, q) : f[x] = g[x]
    BY DEF RightOn
  <2>2. f[q] = Built(t, c, lost, q, f) /\ g[q] = Built(t, c, lost, q, g)
    BY DEF RightOn
  <2> QED
    BY <2>1, <2>2, BuiltAlike
<1>2. Healthy(t, lost) \subseteq S
  BY <1>1, LeastHealthy
<1> QED
  BY <1>2

\* There is a function that is right about all healthy skills: the definition of
\* RevisionsAt has a solution.
LEMMA RightExists ==
    ASSUME NEW t, NEW c, NEW lost, Rooted(t)
    PROVE  \E f : f = [p \in Healthy(t, lost) |-> Built(t, c, lost, p, f)]
<1> DEFINE H == Healthy(t, lost)
           D == {p \in H : \E E \in SUBSET H : \E g : RightOn(t, c, lost, E, g) /\ p \in E}
           F == [p \in D |-> CHOOSE v : \E E \in SUBSET H : \E g :
                                 RightOn(t, c, lost, E, g) /\ p \in E /\ v = g[p]]
<1>1. ASSUME NEW E \in SUBSET H, NEW g, RightOn(t, c, lost, E, g), NEW p \in E
      PROVE  p \in D /\ F[p] = g[p]
  <2>1. p \in D
    BY <1>1
  <2>2. PICK E2 \in SUBSET H : \E g2 : RightOn(t, c, lost, E2, g2) /\ p \in E2 /\ F[p] = g2[p]
    <3>1. \E v : \E E2 \in SUBSET H : \E g2 : RightOn(t, c, lost, E2, g2) /\ p \in E2 /\ v = g2[p]
      BY <1>1
    <3> QED
      BY <2>1, <3>1
  <2>3. PICK g2 : RightOn(t, c, lost, E2, g2) /\ p \in E2 /\ F[p] = g2[p]
    BY <2>2
  <2> QED
    BY <1>1, <2>1, <2>3, RightAgree
<1>a. \A p \in D : p \in H /\ \E E \in SUBSET H : \E g : RightOn(t, c, lost, E, g) /\ p \in E
  OBVIOUS
<1>b. F = [p \in D |-> F[p]]
  OBVIOUS
<1> HIDE DEF D, F
<1>2. RightOn(t, c, lost, D, F)
  <2> SUFFICES ASSUME NEW p \in D
               PROVE  Targets(t, lost, p) \subseteq D /\ F[p] = Built(t, c, lost, p, F)
    BY DEF RightOn
  <2>1. PICK E \in SUBSET H : \E g : RightOn(t, c, lost, E, g) /\ p \in E
    BY <1>a
  <2>2. PICK g : RightOn(t, c, lost, E, g) /\ p \in E
    BY <2>1
  <2>3. Targets(t, lost, p) \subseteq E /\ g[p] = Built(t, c, lost, p, g)
    BY <2>2 DEF RightOn
  <2>4. \A q \in E : q \in D /\ F[q] = g[q]
    BY <1>1, <2>2
  <2>5. Built(t, c, lost, p, F) = Built(t, c, lost, p, g)
    BY <2>3, <2>4, BuiltAlike
  <2> QED
    BY <2>2, <2>3, <2>4, <2>5
<1>3. Closed(t, lost, D)
  <2> SUFFICES ASSUME NEW p \in Parsed(t, lost), OwnFindings(t, lost, p) = {},
                      Targets(t, lost, p) \subseteq D, p \notin D
               PROVE  FALSE
    BY DEF Closed
  <2> DEFINE E == D \cup {p}
             g == [q \in E |-> IF q \in D THEN F[q] ELSE Built(t, c, lost, p, F)]
  <2>1. p \in H
    BY <1>a, HealthyClosed DEF Closed
  <2>2. E \in SUBSET H
    BY <1>a, <2>1
  <2>3. \A q \in D : g[q] = F[q]
    OBVIOUS
  <2>4. g[p] = Built(t, c, lost, p, F)
    OBVIOUS
  <2> HIDE DEF g
  <2>5. ASSUME NEW q \in D
        PROVE  Targets(t, lost, q) \subseteq E /\ g[q] = Built(t, c, lost, q, g)
    <3>1. Targets(t, lost, q) \subseteq D /\ F[q] = Built(t, c, lost, q, F)
      BY <1>2 DEF RightOn
    <3>2. Built(t, c, lost, q, F) = Built(t, c, lost, q, g)
      BY <2>3, <3>1, BuiltAlike
    <3> QED
      BY <2>3, <3>1, <3>2
  <2>6. g[p] = Built(t, c, lost, p, g)
    BY <2>3, <2>4, BuiltAlike
  <2>7. RightOn(t, c, lost, E, g)
    BY <2>5, <2>6 DEF RightOn
  <2>8. p \in E
    OBVIOUS
  <2> HIDE DEF E
  <2> QED
    BY <1>1, <2>2, <2>7, <2>8
<1>4. D = H
  <2>1. D \in SUBSET Paths /\ D \subseteq H
    BY <1>a, HealthyFacts
  <2> QED
    BY <1>3, <2>1, LeastHealthy
<1>5. F = [p \in H |-> Built(t, c, lost, p, F)]
  <2>1. \A p \in H : F[p] = Built(t, c, lost, p, F)
    BY <1>2, <1>4 DEF RightOn
  <2>2. F = [p \in H |-> F[p]]
    BY <1>4, <1>b
  <2> QED
    BY <2>1, <2>2
<1> QED
  BY <1>5

\* What RevisionsAt makes of a healthy skill, for every tree, commit and loss.
THEOREM RevisionsAreBuilt ==
    ASSUME NEW t, NEW c, NEW lost, Rooted(t)
    PROVE  RevisionsAt(t, c, lost) =
               [p \in Healthy(t, lost) |-> Built(t, c, lost, p, RevisionsAt(t, c, lost))]
<1> DEFINE P(f) == f = [p \in Healthy(t, lost) |-> Built(t, c, lost, p, f)]
<1>1. RevisionsAt(t, c, lost) = CHOOSE f : P(f)
  BY DEF RevisionsAt, Built
<1>2. \E f : P(f)
  BY RightExists
<1>3. P(CHOOSE f : P(f))
  BY <1>2
<1> QED
  BY <1>1, <1>3

(***************************************************************************)
(* What a synchronization hands to the store.                              *)
(***************************************************************************)

\* The revisions that are proposed are closed under dependencies.
LEMMA ProposedAreClosed ==
    ASSUME NEW r \in Repositories, NEW c \in Commits, NEW lost \in SUBSET Blobs,
           NEW v \in Proposed(Reading(Tree[r][c], c, lost))
    PROVE  /\ v.is.path \in Paths
           /\ v.is.targets \subseteq Proposed(Reading(Tree[r][c], c, lost))
<1> DEFINE t == Tree[r][c]
           R == RevisionsAt(t, c, lost)
           H == Healthy(t, lost)
           Own(p) == OwnFindings(t, lost, p)
<1>1. Rooted(t)
  BY TreeAssumption DEF Rooted
<1>2. ~Unreadable(t, lost)
  <2>1. SUFFICES ASSUME Unreadable(t, lost) PROVE FALSE
    OBVIOUS
  <2>2. \A x \in Reading(t, c, lost) : x.revision = None
    BY <2>1 DEF Reading, Found
  <2> QED
    BY <2>2 DEF Proposed
<1>3. Reading(t, c, lost) =
        {IF p \in H THEN [path |-> p, findings |-> {}, revision |-> R[p]]
         ELSE Found(p, IF Own(p) = {} THEN {"dependency"} ELSE Own(p)) : p \in Candidates(t)}
  BY <1>2 DEF Reading
<1>4. \A p \in H : R[p] # None
  BY RevisionAssumption
<1>5. \A p \in H : p \in Candidates(t) /\ p \in Paths /\ Targets(t, lost, p) \subseteq H
  BY <1>1, HealthyFacts
<1>6. \A x \in Reading(t, c, lost) : x.revision # None => \E p \in H : x.revision = R[p]
  BY <1>3 DEF Found
<1>7. \A p \in H : R[p] \in Proposed(Reading(t, c, lost))
  <2> SUFFICES ASSUME NEW p \in H PROVE R[p] \in Proposed(Reading(t, c, lost))
    OBVIOUS
  <2> DEFINE x == [path |-> p, findings |-> {}, revision |-> R[p]]
  <2>1. x \in Reading(t, c, lost)
    BY <1>3, <1>5
  <2>2. x.revision = R[p] /\ x.revision # None
    BY <1>4
  <2> HIDE DEF x
  <2> QED
    BY <2>1, <2>2 DEF Proposed
<1>8. PICK p \in H : v = R[p]
  BY <1>6 DEF Proposed
<1>9. R[p] = Built(t, c, lost, p, R)
  BY <1>1, RevisionsAreBuilt
<1>10. v.is.path = p /\ v.is.targets = {R[q] : q \in Targets(t, lost, p)}
  BY <1>8, <1>9 DEF Built
<1> QED
  BY <1>5, <1>7, <1>10

\* A candidate is a root, or the one that stands for the tree.
LEMMA CandidateNames ==
    ASSUME NEW r \in Repositories, NEW c \in Commits, NEW lost
    PROVE  CandidatePaths(Reading(Tree[r][c], c, lost)) \subseteq Paths \cup {Synthetic}
<1> DEFINE t == Tree[r][c]
<1>1. Candidates(t) \subseteq Paths
  BY TreeAssumption, ParsedPaths DEF Rooted
<1>2. CASE Unreadable(t, lost)
  BY <1>2 DEF CandidatePaths, Reading, Found
<1>3. CASE ~Unreadable(t, lost)
  <2>1. \A x \in Reading(t, c, lost) : x.path \in Candidates(t)
    BY <1>3 DEF Reading, Found
  <2> QED
    BY <1>1, <2>1 DEF CandidatePaths
<1> QED
  BY <1>2, <1>3

\* The validation has results for snapshot s.
HasResult(s) ==
    \E x \in Results : x.of = [repository |-> repository, commit |-> s.commit, lost |-> s.lost]

LEMMA ResultsAre ==
    ASSUME NEW x \in Results
    PROVE  \E r \in Repositories : \E c \in Commits : \E l \in SUBSET Blobs :
               /\ x.of = [repository |-> r, commit |-> c, lost |-> l]
               /\ x.candidates = Reading(Tree[r][c], c, l)
<1>1. PICK r \in Repositories, c \in Commits : \E l \in Losses(Tree[r][c], c) :
          x = [of |-> [repository |-> r, commit |-> c, lost |-> l],
               candidates |-> Reading(Tree[r][c], c, l)]
  BY DEF Results
<1>2. Losses(Tree[r][c], c) \subseteq SUBSET Blobs
  BY DEF Losses
<1> QED
  BY <1>1, <1>2

LEMMA InputsAre ==
    ASSUME NEW s, HasResult(s)
    PROVE  /\ repository \in Repositories /\ s.commit \in Commits /\ s.lost \in SUBSET Blobs
           /\ Inputs(s) = Reading(Tree[repository][s.commit], s.commit, s.lost)
<1> DEFINE key == [repository |-> repository, commit |-> s.commit, lost |-> s.lost]
           x == CHOOSE y \in Results : y.of = key
<1>1. x \in Results /\ x.of = key
  BY DEF HasResult
<1>2. Inputs(s) = x.candidates
  BY DEF Inputs
<1> HIDE DEF x
<1>3. PICK r \in Repositories, c \in Commits, l \in SUBSET Blobs :
         /\ x.of = [repository |-> r, commit |-> c, lost |-> l]
         /\ x.candidates = Reading(Tree[r][c], c, l)
  BY <1>1, ResultsAre
<1>4. r = repository /\ c = s.commit /\ l = s.lost
  BY <1>1, <1>3
<1> QED
  BY <1>2, <1>3, <1>4

LEMMA InputFacts ==
    ASSUME NEW s, HasResult(s)
    PROVE  /\ CandidatePaths(Inputs(s)) \subseteq Paths \cup {Synthetic}
           /\ \A v \in Proposed(Inputs(s)) : /\ v.is.path \in Paths
                                             /\ v.is.targets \subseteq Proposed(Inputs(s))
BY InputsAre, ProposedAreClosed, CandidateNames
(***************************************************************************)
(* The inductive invariant.                                                *)
(***************************************************************************)
Ids == [commit : Commits, lost : SUBSET Blobs]

JobType ==
    [pc : {"idle", "confirm", "absent", "read", "publish"},
     verify : {None} \cup [snapshot : Ids, path : Paths \cup {Synthetic}],
     fresh : BOOLEAN, commit : Commits \cup {None}, lost : SUBSET Blobs]

\* A job verifies a candidate of a snapshot that is there, and publishes results.
JobOK(x) ==
    /\ x.verify # None => x.verify.snapshot \in Snapshots
    /\ x.pc = "publish" => x.commit \in Commits /\ HasResult([commit |-> x.commit, lost |-> x.lost])

JobsOK ==
    /\ job \in [Jobs -> JobType]
    /\ \A j \in Jobs : JobOK(job[j])

\* A snapshot observes the contents that the validation proposes, and with a revision all
\* that it depends on.
SnapshotOK(s) ==
    /\ s \in Ids /\ HasResult(s)
    /\ {r.is : r \in observed[s]} = {r.is : r \in Proposed(Inputs(s))}
    /\ \A r \in observed[s] : r.is.targets \subseteq observed[s]
    /\ candidate[s] \in [CandidatePaths(Inputs(s)) -> Classes]

StoreOK ==
    /\ repository \in Repositories
    /\ observed \in [Snapshots -> SUBSET Revisions]
    /\ missing \in [Snapshots -> SUBSET Paths]
    /\ DOMAIN candidate = Snapshots
    /\ class \in [Revisions -> Classes]
    /\ status \in [Revisions -> Statuses]
    /\ current \in Snapshots \cup {None}
    /\ \A r \in Revisions : r.is.path \in Paths /\ r.is.targets \subseteq Revisions
    /\ \A s \in Snapshots : SnapshotOK(s)
    /\ CommitHasOneCatalog

RestOK ==
    /\ branch \in Commits /\ public \in BOOLEAN /\ moves \in 0..MaxMoves
    /\ loss \in [count : 0..4, since : {"never", "recent", "day"}]
    /\ loss.count = 0 <=> loss.since = "never"
    /\ lostBlobs \in 0..MaxLost /\ orders \in 0..MaxOrders

IInv == StoreOK /\ JobsOK /\ RestOK

(***************************************************************************)
(* What a step leaves as it was.                                           *)
(***************************************************************************)
LEMMA ResultStays ==
    ASSUME repository' = repository, NEW s
    PROVE  HasResult(s)' = HasResult(s) /\ Inputs(s)' = Inputs(s)
BY DEF HasResult, Inputs

LEMMA StoreStays ==
    ASSUME StoreOK, UNCHANGED <<repository, observed, missing, current, candidate>>,
           class' \in [Revisions -> Classes], status' \in [Revisions -> Statuses]
    PROVE  StoreOK'
<1>1. Snapshots' = Snapshots /\ Revisions' = Revisions
  BY DEF Snapshots, Revisions
<1>2. ASSUME NEW s \in Snapshots PROVE SnapshotOK(s)'
  <2>1. HasResult(s)' = HasResult(s) /\ Inputs(s)' = Inputs(s)
    BY ResultStays
  <2>2. SnapshotOK(s)
    BY DEF StoreOK
  <2> QED
    BY <2>1, <2>2 DEF SnapshotOK
<1>3. CommitHasOneCatalog'
  BY <1>1 DEF StoreOK, CommitHasOneCatalog
<1> QED
  BY <1>1, <1>2, <1>3 DEF StoreOK

LEMMA IdleType == Idle \in JobType
BY ZenonT(60) DEF Idle, JobType

LEMMA IdleOK == JobOK(Idle)
BY DEF Idle, JobOK

\* A job that goes on to anything but a publication, or only learns that the head of the
\* chain is another one, or is over.
LEMMA JobsMove ==
    ASSUME JobsOK, repository' = repository, Snapshots \subseteq Snapshots',
           job' \in [Jobs -> JobType],
           \A i \in Jobs :
              \/ job'[i] = Idle
              \/ job'[i].verify = job[i].verify /\ job'[i].pc # "publish"
              \/ /\ job'[i].verify = job[i].verify /\ job'[i].pc = job[i].pc
                 /\ job'[i].commit = job[i].commit /\ job'[i].lost = job[i].lost
    PROVE  JobsOK'
<1> SUFFICES ASSUME NEW i \in Jobs PROVE JobOK(job[i])'
  BY DEF JobsOK
<1>1. JobOK(job[i])
  BY DEF JobsOK
<1>2. CASE job'[i] = Idle
  BY <1>2 DEF JobOK, Idle
<1>3. CASE job'[i].verify = job[i].verify /\ job'[i].pc # "publish"
  BY <1>1, <1>3 DEF JobOK
<1>4. CASE /\ job'[i].verify = job[i].verify /\ job'[i].pc = job[i].pc
           /\ job'[i].commit = job[i].commit /\ job'[i].lost = job[i].lost
  BY <1>1, <1>4 DEF JobOK, HasResult
<1> QED
  BY <1>2, <1>3, <1>4

LEMMA JobEnds ==
    ASSUME JobsOK, repository' = repository, Snapshots \subseteq Snapshots',
           NEW j \in Jobs, job' = [job EXCEPT ![j] = Idle]
    PROVE  JobsOK'
<1>1. job' \in [Jobs -> JobType]
  BY IdleType DEF JobsOK
<1> QED
  BY <1>1, JobsMove DEF JobsOK

LEMMA JobGoes ==
    ASSUME JobsOK, repository' = repository, Snapshots \subseteq Snapshots',
           NEW j \in Jobs, NEW pc \in {"idle", "confirm", "absent", "read"}, NEW b \in BOOLEAN,
           job' = [job EXCEPT ![j].pc = pc, ![j].fresh = b]
    PROVE  JobsOK'
<1> DEFINE x == [job[j] EXCEPT !.pc = pc, !.fresh = b]
<1>1. job[j] \in JobType
  BY DEF JobsOK
<1>2. x \in JobType
  BY <1>1, ZenonT(60) DEF JobType
<1>3. x.pc = pc /\ x.verify = job[j].verify
  BY <1>1 DEF JobType
<1>4. job' = [job EXCEPT ![j] = x]
  OBVIOUS
<1> HIDE DEF x
<1>5. job' \in [Jobs -> JobType]
  BY <1>2, <1>4 DEF JobsOK
<1> QED
  BY <1>3, <1>4, <1>5, JobsMove DEF JobsOK

\* The other jobs may find that the head which they have read is a stale one.
LEMMA JobsLearn ==
    ASSUME JobsOK, repository' = repository, Snapshots \subseteq Snapshots',
           NEW b \in [Jobs -> BOOLEAN], NEW S \in SUBSET Jobs,
           job' = [i \in Jobs |-> IF i \in S THEN Idle ELSE [job[i] EXCEPT !.fresh = b[i]]]
    PROVE  JobsOK'
<1>1. ASSUME NEW i \in Jobs
      PROVE  /\ [job[i] EXCEPT !.fresh = b[i]] \in JobType
             /\ [job[i] EXCEPT !.fresh = b[i]].verify = job[i].verify
             /\ [job[i] EXCEPT !.fresh = b[i]].pc = job[i].pc
             /\ [job[i] EXCEPT !.fresh = b[i]].commit = job[i].commit
             /\ [job[i] EXCEPT !.fresh = b[i]].lost = job[i].lost
  <2>1. job[i] \in JobType /\ b[i] \in BOOLEAN
    BY DEF JobsOK
  <2>2. [job[i] EXCEPT !.fresh = b[i]] \in JobType
    BY <2>1, ZenonT(60) DEF JobType
  <2> QED
    BY <2>1, <2>2 DEF JobType
<1>2. job' \in [Jobs -> JobType]
  BY <1>1, IdleType
<1> QED
  BY <1>1, <1>2, JobsMove

LEMMA EndsOK ==
    ASSUME JobsOK, repository' = repository, Snapshots \subseteq Snapshots',
           NEW j \in Jobs, Ends(j)
    PROVE  JobsOK'
<1> DEFINE appended == \E r \in Revisions : status'[r] # status[r]
           b == [i \in Jobs |-> job[i].fresh /\ ~appended]
           S == {j}
<1>1. job' = [i \in Jobs |-> IF i \in S THEN Idle ELSE [job[i] EXCEPT !.fresh = b[i]]]
  BY DEF Ends
<1>2. b \in [Jobs -> BOOLEAN] /\ S \in SUBSET Jobs
  OBVIOUS
<1> HIDE DEF b, S
<1> QED
  BY <1>1, <1>2, JobsLearn
(***************************************************************************)
(* The steps that leave the store alone, but for its advisories.           *)
(***************************************************************************)
LEMMA StoreKept ==
    ASSUME StoreOK, UNCHANGED <<repository, snapshots, classes>>,
           status' = status \/ status' \in [Revisions -> Statuses]
    PROVE  StoreOK' /\ Snapshots' = Snapshots
<1>1. class' \in [Revisions -> Classes] /\ status' \in [Revisions -> Statuses]
  BY DEF classes, StoreOK
<1> QED
  BY <1>1, StoreStays DEF snapshots, classes, Snapshots

LEMMA ResolveInv ==
    ASSUME IInv, NEW j \in Jobs, Resolve(j)
    PROVE  IInv'
<1>1. StoreOK' /\ Snapshots' = Snapshots
  BY StoreKept DEF IInv, Resolve, upstream
<1>2. RestOK'
  BY DEF IInv, Resolve, upstream, RestOK
<1>3. JobsOK'
  <2>1. AnswersAsPublic \in BOOLEAN /\ repository' = repository
    BY DEF IInv, RestOK, AnswersAsPublic, Resolve, upstream
  <2> QED
    BY <1>1, <2>1, JobGoes DEF IInv, Resolve
<1> QED
  BY <1>1, <1>2, <1>3 DEF IInv

LEMMA StartVerifyInv ==
    ASSUME IInv, NEW j \in Jobs, StartVerify(j)
    PROVE  IInv'
<1>1. StoreOK' /\ Snapshots' = Snapshots
  BY StoreKept DEF IInv, StartVerify, upstream
<1>2. RestOK'
  BY DEF IInv, StartVerify, upstream, RestOK
<1>3. PICK s \in Snapshots : \E p \in DOMAIN candidate[s] :
          job' = [job EXCEPT ![j] = [Idle EXCEPT !.pc = "read", !.fresh = TRUE,
                                                !.verify = [snapshot |-> s, path |-> p]]]
  BY DEF StartVerify
<1>4. PICK p \in DOMAIN candidate[s] :
          job' = [job EXCEPT ![j] = [Idle EXCEPT !.pc = "read", !.fresh = TRUE,
                                                !.verify = [snapshot |-> s, path |-> p]]]
  BY <1>3
<1>5. s \in Ids /\ p \in Paths \cup {Synthetic}
  BY InputFacts DEF IInv, StoreOK, SnapshotOK
<1> DEFINE v == [snapshot |-> s, path |-> p]
           x == [Idle EXCEPT !.pc = "read", !.fresh = TRUE, !.verify = v]
<1>6. v \in [snapshot : Ids, path : Paths \cup {Synthetic}] /\ v.snapshot = s
  BY <1>5
<1> HIDE DEF v
<1>7. x \in JobType
  BY <1>6, ZenonT(60) DEF JobType, Idle
<1>8. x.pc = "read" /\ x.verify = v
  BY DEF Idle
<1>9. job' = [job EXCEPT ![j] = x]
  BY <1>4 DEF v
<1> HIDE DEF x
<1>10. job' \in [Jobs -> JobType]
  BY <1>7, <1>9 DEF IInv, JobsOK
<1>11. ASSUME NEW i \in Jobs PROVE JobOK(job[i])'
  <2>1. CASE i = j
    BY <1>1, <1>6, <1>8, <1>9, <2>1 DEF JobOK, IInv, JobsOK
  <2>2. CASE i # j
    <3>1. job'[i] = job[i] /\ JobOK(job[i])
      BY <1>9, <2>2 DEF IInv, JobsOK
    <3>2. repository' = repository
      BY DEF StartVerify, upstream
    <3> QED
      BY <1>1, <3>1, <3>2, ResultStays DEF JobOK
  <2> QED
    BY <2>1, <2>2
<1> QED
  BY <1>1, <1>2, <1>10, <1>11 DEF IInv, JobsOK

LEMMA ConfirmInv ==
    ASSUME IInv, NEW j \in Jobs, Confirm(j)
    PROVE  IInv'
<1>1. StoreOK' /\ Snapshots' = Snapshots
  BY StoreKept DEF IInv, Confirm, upstream
<1>2. RestOK'
  BY DEF IInv, Confirm, upstream, RestOK
<1>3. JobsOK'
  <2>1. repository' = repository /\ JobsOK
    BY DEF IInv, Confirm, upstream
  <2>2. CASE job' = [job EXCEPT ![j] = Idle]
    BY <1>1, <2>1, <2>2, JobEnds
  <2>3. CASE Goto(j, "absent")
    <3>1. job[j] \in JobType /\ job[j].fresh \in BOOLEAN
      BY <2>1 DEF JobsOK, JobType
    <3>2. job' = [job EXCEPT ![j].pc = "absent", ![j].fresh = job[j].fresh]
      BY <2>1, <2>3, <3>1 DEF Goto, JobsOK, JobType
    <3> QED
      BY <1>1, <2>1, <3>1, <3>2, JobGoes
  <2> QED
    BY <2>2, <2>3 DEF Confirm
<1> QED
  BY <1>1, <1>2, <1>3 DEF IInv

LEMMA ReadInv ==
    ASSUME IInv, NEW j \in Jobs, Read(j)
    PROVE  IInv'
<1>1. StoreOK' /\ Snapshots' = Snapshots /\ repository' = repository
  BY StoreKept DEF IInv, Read, upstream
<1> DEFINE c == CommitOf(j)
<1>2. PICK x \in Results :
         /\ x.of.repository = repository /\ x.of.commit = c
         /\ lostBlobs + Cardinality(x.of.lost) <= MaxLost
         /\ lostBlobs' = lostBlobs + Cardinality(x.of.lost)
         /\ job' = [job EXCEPT ![j].pc = "publish", ![j].commit = c, ![j].lost = x.of.lost]
  BY DEF Read
<1>3. PICK r \in Repositories, k \in Commits, l \in SUBSET Blobs :
         x.of = [repository |-> r, commit |-> k, lost |-> l]
  BY ResultsAre
<1>4. r = repository /\ k = c /\ x.of.lost = l
  BY <1>2, <1>3
<1>5. HasResult([commit |-> c, lost |-> l])
  BY <1>3, <1>4 DEF HasResult
<1>6. RestOK'
  <2>1. IsFiniteSet(l)
    <3>1. IsFiniteSet(Paths \cup {"manifest"})
      BY PathsAssumption, FS_AddElement
    <3>2. IsFiniteSet((Paths \cup {"manifest"}) \cup {"license"})
      BY <3>1, FS_AddElement
    <3>3. Blobs = (Paths \cup {"manifest"}) \cup {"license"}
      BY DEF Blobs
    <3> QED
      BY <3>2, <3>3, FS_Subset
  <2>2. Cardinality(l) \in Nat
    BY <2>1, FS_CardinalityType
  <2>3. lostBlobs' \in 0..MaxLost
    BY <1>2, <1>4, <2>2, BoundsAssumption DEF IInv, RestOK
  <2> QED
    BY <2>3 DEF Read, IInv, RestOK, upstream
<1> DEFINE y == [job[j] EXCEPT !.pc = "publish", !.commit = c, !.lost = l]
<1>7. job[j] \in JobType /\ c \in Commits
  BY <1>4 DEF IInv, JobsOK
<1>8. y \in JobType
  BY <1>7, ZenonT(60) DEF JobType
<1>9. y.pc = "publish" /\ y.verify = job[j].verify /\ y.commit = c /\ y.lost = l
  BY <1>7 DEF JobType
<1>10. job' = [job EXCEPT ![j] = y]
  BY <1>2, <1>4
<1> HIDE DEF y, c
<1>11. job' \in [Jobs -> JobType]
  BY <1>8, <1>10 DEF IInv, JobsOK
<1>12. ASSUME NEW i \in Jobs PROVE JobOK(job[i])'
  <2>1. JobOK(job[i])
    BY DEF IInv, JobsOK
  <2>2. CASE i = j
    <3>1. job'[i] = y
      BY <1>10, <2>2 DEF IInv, JobsOK
    <3>2. HasResult([commit |-> k, lost |-> l])'
      BY <1>1, <1>4, <1>5, ResultStays
    <3>3. job'[i].commit = k /\ job'[i].lost = l /\ k \in Commits
      BY <1>4, <1>9, <3>1
    <3> QED
      BY <1>1, <1>9, <2>1, <2>2, <3>1, <3>2, <3>3 DEF JobOK
  <2>3. CASE i # j
    <3>1. job'[i] = job[i]
      BY <1>10, <2>3 DEF IInv, JobsOK
    <3> QED
      BY <1>1, <2>1, <3>1, ResultStays DEF JobOK
  <2> QED
    BY <2>2, <2>3
<1> QED
  BY <1>1, <1>6, <1>11, <1>12 DEF IInv, JobsOK

LEMMA FailInv ==
    ASSUME IInv, NEW j \in Jobs, Fail(j) \/ PublishRefused(j)
    PROVE  IInv'
<1>1. /\ UNCHANGED <<upstream, snapshots, classes, status, loss, lostBlobs, orders>>
      /\ job' = [job EXCEPT ![j] = Idle]
  BY DEF Fail, PublishRefused
<1>2. StoreOK' /\ Snapshots' = Snapshots
  BY <1>1, StoreKept DEF IInv, upstream
<1>3. RestOK'
  BY <1>1 DEF IInv, upstream, RestOK
<1>4. JobsOK'
  BY <1>1, <1>2, JobEnds DEF IInv, upstream
<1> QED
  BY <1>2, <1>3, <1>4 DEF IInv

LEMMA RecordAbsenceInv ==
    ASSUME IInv, NEW j \in Jobs, RecordAbsence(j)
    PROVE  IInv'
<1>1. status' \in [Revisions -> Statuses]
  <2>1. Gone \in [Revisions -> Statuses]
    BY DEF Gone, IInv, StoreOK, Statuses
  <2> QED
    BY <2>1 DEF RecordAbsence, IInv, StoreOK
<1>2. StoreOK' /\ Snapshots' = Snapshots
  BY <1>1, StoreKept DEF RecordAbsence, IInv, upstream
<1>3. RestOK'
  <2>1. /\ loss' \in [count : 0..4, since : {"never", "recent", "day"}]
        /\ loss'.count # 0 /\ loss'.since # "never"
    BY DEF RecordAbsence, IInv, RestOK
  <2> QED
    BY <2>1 DEF RecordAbsence, IInv, RestOK, upstream
<1>4. JobsOK'
  BY <1>2, EndsOK DEF RecordAbsence, IInv, upstream
<1> QED
  BY <1>2, <1>3, <1>4 DEF IInv
\* Advisories, registrations, the time, the repository.
LEMMA SurroundingsInv ==
    ASSUME IInv, Revoke \/ Registered \/ DayPasses \/ Push \/ ChangeVisibility
    PROVE  IInv'
<1>1. repository' = repository /\ UNCHANGED <<snapshots, classes>>
  BY DEF Revoke, Registered, DayPasses, Push, ChangeVisibility, upstream
<1>2. status' \in [Revisions -> Statuses]
  BY DEF Revoke, Registered, DayPasses, Push, ChangeVisibility, IInv, StoreOK, Statuses
<1>3. StoreOK' /\ Snapshots' = Snapshots
  BY <1>1, <1>2, StoreKept DEF IInv
<1>4. RestOK'
  <2>1. CASE Revoke
    BY <2>1, BoundsAssumption DEF Revoke, IInv, RestOK, upstream
  <2>2. CASE Registered
    BY <2>2 DEF Registered, NoLoss, IInv, RestOK, upstream
  <2>3. CASE DayPasses
    BY <2>3 DEF DayPasses, IInv, RestOK, upstream
  <2>4. CASE Push
    BY <2>4, BoundsAssumption DEF Push, IInv, RestOK
  <2>5. CASE ChangeVisibility
    BY <2>5, BoundsAssumption DEF ChangeVisibility, IInv, RestOK
  <2> QED
    BY <2>1, <2>2, <2>3, <2>4, <2>5
<1>5. JobsOK'
  <2>1. CASE Revoke
    <3> DEFINE b == [i \in Jobs |-> FALSE]
               S == {i \in Jobs : FALSE}
    <3>1. job' = [i \in Jobs |-> IF i \in S THEN Idle ELSE [job[i] EXCEPT !.fresh = b[i]]]
      BY <2>1 DEF Revoke
    <3>2. b \in [Jobs -> BOOLEAN] /\ S \in SUBSET Jobs
      OBVIOUS
    <3> HIDE DEF b, S
    <3> QED
      BY <1>1, <1>3, <3>1, <3>2, JobsLearn DEF IInv
  <2>2. CASE job' = job
    BY <1>1, <1>3, <2>2, JobsMove DEF IInv, JobsOK
  <2> QED
    BY <2>1, <2>2 DEF Registered, DayPasses, Push, ChangeVisibility
<1> QED
  BY <1>3, <1>4, <1>5 DEF IInv

\* The classes of the candidates of one snapshot, and those of the revisions, change.
LEMMA ClassesChange ==
    ASSUME StoreOK, UNCHANGED <<repository, observed, missing, current>>,
           NEW s \in Snapshots, NEW f \in [DOMAIN candidate[s] -> Classes],
           candidate' = [candidate EXCEPT ![s] = f],
           class' \in [Revisions -> Classes], status' \in [Revisions -> Statuses]
    PROVE  StoreOK'
<1>1. Snapshots' = Snapshots /\ Revisions' = Revisions
  BY DEF Snapshots, Revisions
<1>2. ASSUME NEW u \in Snapshots PROVE SnapshotOK(u)'
  <2>1. HasResult(u)' = HasResult(u) /\ Inputs(u)' = Inputs(u)
    BY ResultStays
  <2>2. SnapshotOK(u) /\ DOMAIN candidate = Snapshots
    BY DEF StoreOK
  <2>3. candidate'[u] \in [CandidatePaths(Inputs(u)) -> Classes]
    BY <2>2 DEF SnapshotOK
  <2> QED
    BY <2>1, <2>2, <2>3 DEF SnapshotOK
<1>3. CommitHasOneCatalog'
  BY <1>1 DEF StoreOK, CommitHasOneCatalog
<1>4. DOMAIN candidate' = Snapshots'
  BY <1>1 DEF StoreOK
<1> QED
  BY <1>1, <1>2, <1>3, <1>4 DEF StoreOK

LEMMA AdministratorInv ==
    ASSUME IInv, Administrator
    PROVE  IInv'
<1>a. PICK s \in Snapshots : \E p \in DOMAIN candidate[s] :
          \E next \in {"quarantined", "curated"} : Transition(s, p, next)
  BY DEF Administrator
<1>1. PICK p \in DOMAIN candidate[s], next \in {"quarantined", "curated"} :
          Transition(s, p, next)
  BY <1>a
<1> DEFINE r == Observes(s, p)
           now == candidate[s][p]
           f == [candidate[s] EXCEPT ![p] = IF Legal(now, next) THEN next ELSE now]
<1>2. UNCHANGED <<upstream, snapshots, status, loss, job, lostBlobs>>
      /\ orders' = orders + 1 /\ orders < MaxOrders
  BY <1>1 DEF Transition
<1>3. candidate' = [candidate EXCEPT ![s] = f]
  BY <1>1 DEF Transition
<1>4. f \in [DOMAIN candidate[s] -> Classes]
  BY DEF IInv, StoreOK, SnapshotOK, Classes
<1>5. class' \in [Revisions -> Classes]
  BY <1>1 DEF Transition, IInv, StoreOK, Classes
<1> HIDE DEF f
<1>6. StoreOK'
  BY <1>2, <1>3, <1>4, <1>5, ClassesChange DEF IInv, StoreOK, upstream, snapshots
<1>7. RestOK'
  BY <1>2, BoundsAssumption DEF IInv, RestOK, upstream
<1>8. JobsOK'
  BY <1>2, JobsMove DEF IInv, JobsOK, upstream, snapshots, Snapshots
<1> QED
  BY <1>6, <1>7, <1>8 DEF IInv

(***************************************************************************)
(* Publications.                                                           *)
(***************************************************************************)

\* A job that publishes has results for the snapshot that it publishes.
LEMMA IdFacts ==
    ASSUME IInv, NEW j \in Jobs, job[j].pc = "publish"
    PROVE  Id(j) \in Ids /\ HasResult(Id(j)) /\ Id(j).commit = job[j].commit
<1>1. job[j] \in JobType /\ JobOK(job[j])
  BY DEF IInv, JobsOK
<1> QED
  BY <1>1 DEF JobOK, JobType, Id, Ids

\* What is stored of a revision has its content.
LEMMA StoredIs ==
    ASSUME NEW v
    PROVE  Stored(v).is = v.is /\ (Stored(v) = v \/ Stored(v) \in Revisions)
BY DEF Stored

\* Where nothing differs, the revisions that are stored observe the proposed contents, are
\* closed under dependencies, and are on roots.
LEMMA SeenFacts ==
    ASSUME NEW s, HasResult(s), ~DependencyDiffers(Inputs(s)),
           NEW seen, seen = {Stored(v) : v \in Proposed(Inputs(s))}
    PROVE  /\ {r.is : r \in seen} = {v.is : v \in Proposed(Inputs(s))}
           /\ \A r \in seen : r.is.path \in Paths /\ r.is.targets \subseteq seen
<1> DEFINE P == Proposed(Inputs(s))
<1>1. \A v \in P : Stored(v).is = v.is
  BY StoredIs
<1>2. \A v \in P : v.is.path \in Paths /\ v.is.targets \subseteq P
  BY InputFacts
<1>3. \A v \in P : \A q \in v.is.targets : Stored(q) = q
  BY DEF DependencyDiffers
<1> HIDE DEF P
<1>4. \A v \in P : v.is.targets \subseteq seen
  BY <1>2, <1>3 DEF P
<1>5. \A r \in seen : \E v \in P : r = Stored(v) /\ r.is = v.is
  BY <1>1 DEF P
<1>6. \A v \in P : Stored(v) \in seen /\ Stored(v).is = v.is
  BY <1>1 DEF P
<1>7. {r.is : r \in seen} = {v.is : v \in P}
  BY <1>5, <1>6
<1> QED
  BY <1>2, <1>4, <1>5, <1>7 DEF P
LEMMA AdviceType ==
    ASSUME NEW D, NEW advice \in [D -> Statuses], NEW roots, NEW revisions
    PROVE  /\ Removed(advice, roots) \in [D -> Statuses]
           /\ Restored(advice, revisions) \in [D -> Statuses]
BY DEF Removed, Restored, Statuses

LEMMA RefreshOK ==
    ASSUME IInv, NEW j \in Jobs, Refresh(j), UNCHANGED <<upstream, lostBlobs, orders>>
    PROVE  RestOK'
<1>1. loss' \in {loss, NoLoss}
  BY DEF Refresh
<1> QED
  BY <1>1 DEF IInv, RestOK, NoLoss, upstream

LEMMA PublishNewInv ==
    ASSUME IInv, NEW j \in Jobs, PublishNew(j)
    PROVE  IInv'
<1> DEFINE seen == {Stored(r) : r \in Proposed(Inputs(Id(j)))}
           roots == Roots(Inputs(Id(j)))
           advice == [r \in Revisions \cup seen |-> IF r \in Revisions THEN status[r] ELSE "none"]
<1>1. PICK id : id = Id(j)
  OBVIOUS
<1>2. /\ id \in Ids /\ HasResult(id) /\ id \notin Snapshots
      /\ id.commit = job[j].commit /\ ~Conflict(j)
  BY <1>1, IdFacts DEF PublishNew
<1>3. /\ {r.is : r \in seen} = {v.is : v \in Proposed(Inputs(id))}
      /\ \A r \in seen : r.is.path \in Paths /\ r.is.targets \subseteq seen
  <2>1. ~DependencyDiffers(Inputs(id))
    BY <1>1, <1>2 DEF Conflict
  <2> HIDE DEF seen
  <2>2. seen = {Stored(v) : v \in Proposed(Inputs(id))}
    BY <1>1 DEF seen
  <2> QED
    BY <1>2, <2>1, <2>2, SeenFacts
<1>4. /\ observed' = [s \in Snapshots \cup {id} |-> IF s = id THEN seen ELSE observed[s]]
      /\ missing' = [s \in Snapshots \cup {id} |->
                        IF s = id THEN {r.is.path : r \in Dropped(roots)} ELSE missing[s]]
      /\ candidate' = [s \in Snapshots \cup {id} |->
                          IF s = id THEN CandidateClasses(Inputs(id)) ELSE candidate[s]]
      /\ class' = Classification(seen)
      /\ status' = Removed(Restored(advice, seen), roots)
      /\ current' = id /\ Ends(j) /\ UNCHANGED <<upstream, lostBlobs, orders>>
  BY <1>1 DEF PublishNew
<1> HIDE DEF seen, roots
<1>5. Snapshots' = Snapshots \cup {id} /\ Revisions' = Revisions \cup seen
  BY <1>4 DEF Snapshots, Revisions, Classification
<1>6. repository' = repository /\ (\A s : HasResult(s)' = HasResult(s) /\ Inputs(s)' = Inputs(s))
  BY <1>4, ResultStays DEF upstream
<1>7. class' \in [Revisions' -> Classes]
  BY <1>4, <1>5 DEF Classification, IInv, StoreOK, Classes
<1>8. status' \in [Revisions' -> Statuses]
  <2>1. advice \in [Revisions \cup seen -> Statuses]
    BY DEF IInv, StoreOK, Statuses
  <2> HIDE DEF advice
  <2>2. Restored(advice, seen) \in [Revisions \cup seen -> Statuses]
    BY <2>1, AdviceType
  <2> QED
    BY <1>4, <1>5, <2>2, AdviceType
<1>9. \A r \in Revisions' : r.is.path \in Paths /\ r.is.targets \subseteq Revisions'
  BY <1>3, <1>5 DEF IInv, StoreOK
<1>10. observed' \in [Snapshots' -> SUBSET Revisions']
  BY <1>4, <1>5 DEF IInv, StoreOK
<1>11. missing' \in [Snapshots' -> SUBSET Paths]
  <2>1. \A r \in Dropped(roots) : r.is.path \in Paths
    BY DEF Dropped, IInv, StoreOK
  <2> QED
    BY <1>4, <1>5, <2>1 DEF IInv, StoreOK
<1>12. ASSUME NEW s \in Snapshots' PROVE SnapshotOK(s)'
  <2>1. CASE s = id
    <3>1. observed'[s] = seen /\ candidate'[s] = CandidateClasses(Inputs(id))
      BY <1>4, <2>1
    <3>2. CandidateClasses(Inputs(id)) \in [CandidatePaths(Inputs(id)) -> Classes]
      BY DEF CandidateClasses, Classes
    <3> QED
      BY <1>2, <1>3, <1>6, <2>1, <3>1, <3>2 DEF SnapshotOK
  <2>2. CASE s # id
    <3>1. s \in Snapshots /\ SnapshotOK(s)
      BY <1>5, <2>2 DEF IInv, StoreOK
    <3>2. observed'[s] = observed[s] /\ candidate'[s] = candidate[s]
      BY <1>4, <2>2, <3>1
    <3> QED
      BY <1>6, <3>1, <3>2 DEF SnapshotOK
  <2> QED
    BY <2>1, <2>2
<1>13. CommitHasOneCatalog'
  <2>1. \A s \in Snapshots : s.commit = id.commit => observed[s] = {}
    BY <1>2 DEF Conflict, PublishedBefore
  <2>2. \A s \in Snapshots : observed'[s] = observed[s]
    BY <1>2, <1>4
  <2> QED
    BY <1>5, <2>1, <2>2 DEF CommitHasOneCatalog, IInv, StoreOK
<1>14. DOMAIN candidate' = Snapshots'
  BY <1>4, <1>5
<1>15. StoreOK'
  BY <1>4, <1>5, <1>6, <1>7, <1>8, <1>9, <1>10, <1>11, <1>12, <1>13, <1>14 DEF IInv, StoreOK
<1>16. RestOK'
  BY <1>4, RefreshOK DEF PublishNew
<1>17. JobsOK'
  BY <1>4, <1>5, <1>6, EndsOK DEF IInv
<1> QED
  BY <1>15, <1>16, <1>17 DEF IInv

LEMMA PublishAgainInv ==
    ASSUME IInv, NEW j \in Jobs, PublishAgain(j)
    PROVE  IInv'
<1> DEFINE target == job[j].verify
           roots == Roots(Inputs(Id(j)))
<1>1. PICK id : id = Id(j)
  OBVIOUS
<1>2. id \in Snapshots /\ repository' = repository
      /\ UNCHANGED <<upstream, observed, missing, lostBlobs, orders>>
      /\ status' = Restored(Removed(status, roots), observed[id])
      /\ current' = id /\ Ends(j)
  BY <1>1 DEF PublishAgain, upstream
<1>3. status' \in [Revisions -> Statuses]
  <2>1. Removed(status, roots) \in [Revisions -> Statuses]
    BY AdviceType DEF IInv, StoreOK
  <2> QED
    BY <1>2, <2>1, AdviceType
<1>4. PICK f \in [DOMAIN candidate[id] -> Classes] :
         /\ DOMAIN candidate' = Snapshots
         /\ \A u \in Snapshots : candidate'[u] = IF u = id THEN f ELSE candidate[u]
  <2>1. candidate[id] \in [DOMAIN candidate[id] -> Classes] /\ DOMAIN candidate = Snapshots
    BY <1>2 DEF IInv, StoreOK, SnapshotOK
  <2>2. CASE UNCHANGED classes
    BY <2>1, <2>2 DEF classes
  <2>3. CASE ~UNCHANGED classes
    <3> DEFINE g == [candidate[id] EXCEPT ![target.path] =
                        IF Reverified(j, @) THEN "verified" ELSE @]
    <3>1. candidate' = [candidate EXCEPT ![id] = g]
      BY <1>1, <2>3 DEF PublishAgain
    <3>2. g \in [DOMAIN candidate[id] -> Classes]
      BY <2>1 DEF Classes
    <3> HIDE DEF g
    <3> QED
      BY <2>1, <3>1, <3>2
  <2> QED
    BY <2>2, <2>3
<1>5. class' \in [Revisions -> Classes]
  BY DEF PublishAgain, classes, IInv, StoreOK, Classes
<1>6. StoreOK'
  <2>1. [s \in Snapshots |-> observed[s]] = observed
    BY DEF IInv, StoreOK
  <2>2. Snapshots' = Snapshots /\ Revisions' = Revisions
    BY <1>2, <1>5 DEF Snapshots, Revisions
  <2>3. ASSUME NEW u \in Snapshots PROVE SnapshotOK(u)'
    <3>1. HasResult(u)' = HasResult(u) /\ Inputs(u)' = Inputs(u)
      BY <1>2, ResultStays
    <3>2. SnapshotOK(u) /\ DOMAIN candidate = Snapshots
      BY DEF IInv, StoreOK
    <3>3. candidate'[u] \in [CandidatePaths(Inputs(u)) -> Classes]
      BY <1>2, <1>4, <3>2 DEF SnapshotOK
    <3> QED
      BY <1>2, <3>1, <3>2, <3>3 DEF SnapshotOK
  <2>4. CommitHasOneCatalog'
    BY <1>2, <2>2 DEF IInv, StoreOK, CommitHasOneCatalog
  <2>5. DOMAIN candidate' = Snapshots'
    BY <1>4, <2>2 DEF IInv, StoreOK
  <2> QED
    BY <1>2, <1>3, <1>5, <2>2, <2>3, <2>4, <2>5 DEF IInv, StoreOK
<1>7. RestOK'
  BY <1>2, RefreshOK DEF PublishAgain
<1>8. JobsOK'
  BY <1>2, EndsOK DEF IInv, Snapshots
<1> QED
  BY <1>6, <1>7, <1>8 DEF IInv

(***************************************************************************)
(* The invariant holds.                                                    *)
(***************************************************************************)
LEMMA InitInv == Init => IInv
<1> SUFFICES ASSUME Init PROVE IInv
  OBVIOUS
<1>1. DOMAIN <<>> = {}
  OBVIOUS
<1>2. Snapshots = {} /\ Revisions = {} /\ DOMAIN candidate = {} /\ DOMAIN missing = {} /\ DOMAIN status = {}
  BY <1>1 DEF Init, Snapshots, Revisions
<1>3. StoreOK
  BY <1>2 DEF Init, StoreOK, CommitHasOneCatalog
<1>4. JobsOK
  BY IdleType, IdleOK DEF Init, JobsOK
<1>5. RestOK
  BY BoundsAssumption DEF Init, RestOK, NoLoss
<1> QED
  BY <1>3, <1>4, <1>5 DEF IInv

LEMMA NextInv == IInv /\ [Next]_vars => IInv'
<1> SUFFICES ASSUME IInv, [Next]_vars PROVE IInv'
  OBVIOUS
<1>1. CASE UNCHANGED vars
  <2>1. UNCHANGED <<upstream, snapshots, classes, status, loss, job, lostBlobs, orders>>
    BY <1>1 DEF vars
  <2>2. StoreOK' /\ Snapshots' = Snapshots
    BY <2>1, StoreKept DEF IInv, upstream
  <2>3. JobsOK'
    BY <2>1, <2>2, JobsMove DEF IInv, JobsOK, upstream
  <2>4. RestOK'
    BY <2>1 DEF IInv, RestOK, upstream
  <2> QED
    BY <2>2, <2>3, <2>4 DEF IInv
<1>2. CASE \E j \in Jobs : JobStep(j)
  BY <1>2, ResolveInv, StartVerifyInv, ConfirmInv, ReadInv, FailInv, RecordAbsenceInv,
     PublishNewInv, PublishAgainInv DEF JobStep
<1>3. CASE Administrator \/ Revoke \/ Registered \/ DayPasses \/ Push \/ ChangeVisibility
  BY <1>3, AdministratorInv, SurroundingsInv
<1> QED
  BY <1>1, <1>2, <1>3 DEF Next

LEMMA Invariance == Spec => []IInv
<1> QED
  BY InitInv, NextInv, PTL DEF Spec
\* The store holds what its tables are declared to hold, whatever the trees.
THEOREM TypeCorrect == Spec => []TypeOK
<1>1. IInv => TypeOK
  BY DEF IInv, StoreOK, SnapshotOK, JobsOK, JobType, RestOK, TypeOK
<1> QED
  BY <1>1, Invariance, PTL

\* What the source offers is what the validation found at the commit of the snapshot that
\* is offered, whichever commits its revisions were first published from (publishRevision).
THEOREM HeadIsAlwaysTheCommit == Spec => []HeadIsTheCommit
<1>1. IInv => HeadIsTheCommit
  BY DEF IInv, StoreOK, SnapshotOK, HeadIsTheCommit
<1> QED
  BY <1>1, Invariance, PTL

\* The catalog holds every revision that one of its revisions depends on, and a source
\* offers nothing without what it depends on (publishDependencies).
THEOREM DependenciesAreAlwaysPublished == Spec => []DependenciesArePublished
<1>1. IInv => DependenciesArePublished
  BY DEF IInv, StoreOK, SnapshotOK, DependenciesArePublished
<1> QED
  BY <1>1, Invariance, PTL

\* No two snapshots of one commit observe revisions, however many jobs validate that
\* commit at once and whatever each of them could not fetch.
THEOREM CommitAlwaysHasOneCatalog == Spec => []CommitHasOneCatalog
<1>1. IInv => CommitHasOneCatalog
  BY DEF IInv, StoreOK
<1> QED
  BY <1>1, Invariance, PTL

(***************************************************************************)
(* What a step does to the advisories and to the classes.                  *)
(***************************************************************************)

\* Only a publication ends a job that publishes with another head, or another loss.
LEMMA PublicationOnly ==
    ASSUME IInv, Next, Publishes
    PROVE  \E j \in Jobs : PublishNew(j) \/ PublishAgain(j)
<1>1. PICK i \in Jobs : job[i].pc = "publish" /\ job'[i].pc = "idle"
  BY DEF Publishes
<1>2. current' # current \/ loss' # loss
  BY DEF Publishes
<1>3. job \in [Jobs -> JobType]
  BY DEF IInv, JobsOK
<1>4. ASSUME NEW j \in Jobs, RecordAbsence(j)
      PROVE  FALSE
  <2>1. i # j
    BY <1>1, <1>4 DEF RecordAbsence
  <2>2. job'[i].pc = job[i].pc
    BY <1>3, <1>4, <2>1 DEF RecordAbsence, Ends, JobType
  <2> QED
    BY <1>1, <2>2
<1>5. ~Registered /\ ~DayPasses
  BY <1>1 DEF Registered, DayPasses
<1>6. ~\E j \in Jobs : Resolve(j) \/ StartVerify(j) \/ Confirm(j) \/ Read(j) \/ Fail(j) \/ PublishRefused(j)
  BY <1>2 DEF Resolve, StartVerify, Confirm, Read, Fail, PublishRefused, snapshots
<1>7. ~(Administrator \/ Revoke \/ Push \/ ChangeVisibility)
  BY <1>2 DEF Administrator, Transition, Revoke, Push, ChangeVisibility, snapshots
<1> QED
  BY <1>4, <1>5, <1>6, <1>7 DEF Next, JobStep

LEMMA NewSettles ==
    ASSUME IInv, NEW j \in Jobs, PublishNew(j)
    PROVE  Settled
<1> DEFINE seen == {Stored(r) : r \in Proposed(Inputs(Id(j)))}
           roots == Roots(Inputs(Id(j)))
           advice == [r \in Revisions \cup seen |-> IF r \in Revisions THEN status[r] ELSE "none"]
           restored == Restored(advice, seen)
<1>1. status' = Removed(restored, roots) /\ current' = Id(j) /\ observed'[Id(j)] = seen
  BY DEF PublishNew
<1>2. \A r \in seen : r.is.path \in roots
  <2>1. \A v \in Proposed(Inputs(Id(j))) : Stored(v).is.path = v.is.path
    BY StoredIs
  <2> QED
    BY <2>1 DEF Roots
<1>3. \A p \in roots : \E q \in seen : q.is.path = p
  <2>1. \A v \in Proposed(Inputs(Id(j))) : Stored(v).is.path = v.is.path
    BY StoredIs
  <2> QED
    BY <2>1 DEF Roots
<1>4. status \in [Revisions -> Statuses] /\ (current # None => observed[current] \subseteq Revisions)
  BY DEF IInv, StoreOK
<1>5. DOMAIN advice = Revisions \cup seen /\ \A r \in Revisions \cup seen : advice[r] \in Statuses
  BY <1>4 DEF Statuses
<1> HIDE DEF seen, roots, advice
<1>6. /\ DOMAIN restored = Revisions \cup seen
      /\ \A r \in seen : restored[r] \in {"none", "available", "revoked"}
  BY <1>5 DEF Restored, Unavailable, Statuses
<1>7. \A r \in Revisions \cup seen : restored[r] \in Statuses
  BY <1>5 DEF Restored, Statuses
<1> HIDE DEF restored
<1>8. ASSUME NEW r \in observed'[current']
      PROVE  status'[r] \in {"none", "available", "revoked"}
  <2>1. r \in seen /\ r \notin Dropped(roots)
    BY <1>1, <1>2 DEF Dropped
  <2> QED
    BY <1>1, <1>6, <2>1 DEF Removed
<1>9. ASSUME current # None, NEW r \in observed[current],
             \A q \in observed'[current'] : q.is.path # r.is.path
      PROVE  status'[r] \in Unavailable \cup {"revoked"}
  <2>1. r \in Dropped(roots) /\ r \in Revisions \cup seen
    BY <1>1, <1>3, <1>4, <1>9 DEF Dropped
  <2> QED
    BY <1>1, <1>6, <2>1 DEF Removed, Unavailable
<1> QED
  BY <1>8, <1>9 DEF Settled

LEMMA AgainSettles ==
    ASSUME IInv, NEW j \in Jobs, PublishAgain(j)
    PROVE  Settled
<1> DEFINE roots == Roots(Inputs(Id(j)))
           removed == Removed(status, roots)
           offered == observed[Id(j)]
<1>1. /\ status' = Restored(removed, offered)
      /\ current' = Id(j) /\ observed'[current'] = offered /\ Id(j) \in Snapshots
  BY DEF PublishAgain
<1>2. {r.is : r \in offered} = {r.is : r \in Proposed(Inputs(Id(j)))} /\ offered \subseteq Revisions
  BY <1>1 DEF IInv, StoreOK, SnapshotOK
<1>3. \A p \in roots : \E q \in offered : q.is.path = p
  <2> SUFFICES ASSUME NEW p \in roots PROVE \E q \in offered : q.is.path = p
    OBVIOUS
  <2>1. PICK v \in Proposed(Inputs(Id(j))) : v.is.path = p
    BY DEF Roots
  <2>2. v.is \in {r.is : r \in offered}
    BY <1>2
  <2> QED
    BY <2>1, <2>2
<1>4. status \in [Revisions -> Statuses] /\ (current # None => observed[current] \subseteq Revisions)
  BY DEF IInv, StoreOK
<1>5. DOMAIN removed = Revisions /\ \A r \in Revisions : removed[r] \in Statuses
  BY <1>4 DEF Removed, Statuses
<1>6. \A r \in Dropped(roots) : r \in Revisions => removed[r] \in Unavailable \cup {"revoked"}
  BY <1>4 DEF Removed, Unavailable
<1> HIDE DEF roots, removed, offered
<1>7. ASSUME NEW r \in observed'[current']
      PROVE  status'[r] \in {"none", "available", "revoked"}
  BY <1>1, <1>2, <1>5, <1>7 DEF Restored, Statuses, Unavailable
<1>8. ASSUME current # None, NEW r \in observed[current],
             \A q \in observed'[current'] : q.is.path # r.is.path
      PROVE  status'[r] \in Unavailable \cup {"revoked"}
  <2>1. r \in Dropped(roots) /\ r \in Revisions /\ r \notin offered
    BY <1>1, <1>3, <1>4, <1>8 DEF Dropped
  <2> QED
    BY <1>1, <1>5, <1>6, <2>1 DEF Restored
<1> QED
  BY <1>7, <1>8 DEF Settled

LEMMA RevokedStays ==
    ASSUME IInv, Next, NEW r \in Revisions, status[r] = "revoked"
    PROVE  status'[r] = "revoked"
<1>1. status \in [Revisions -> Statuses]
  BY DEF IInv, StoreOK
<1>2. ASSUME NEW j \in Jobs, PublishNew(j) PROVE status'[r] = "revoked"
  BY <1>1, <1>2 DEF PublishNew, Removed, Restored, Unavailable
<1>3. ASSUME NEW j \in Jobs, PublishAgain(j) PROVE status'[r] = "revoked"
  BY <1>1, <1>3 DEF PublishAgain, Removed, Restored, Unavailable
<1>4. ASSUME NEW j \in Jobs, RecordAbsence(j) PROVE status'[r] = "revoked"
  BY <1>1, <1>4 DEF RecordAbsence, Gone
<1>5. CASE Revoke
  BY <1>1, <1>5 DEF Revoke
<1>6. CASE Administrator
  BY <1>6 DEF Administrator, Transition
<1>7. CASE Registered \/ DayPasses \/ Push \/ ChangeVisibility
  BY <1>7 DEF Registered, DayPasses, Push, ChangeVisibility
<1>8. ASSUME NEW j \in Jobs, Resolve(j) \/ StartVerify(j) \/ Confirm(j) \/ Read(j) \/ Fail(j) \/ PublishRefused(j)
      PROVE  status'[r] = "revoked"
  BY <1>8 DEF Resolve, StartVerify, Confirm, Read, Fail, PublishRefused
<1> QED
  BY <1>2, <1>3, <1>4, <1>5, <1>6, <1>7, <1>8 DEF Next, JobStep

\* Whenever a publication moves the head or finds a lost source again, what it offers is
\* available and what it drops is not; and no step takes a revocation back.
THEOREM AdvisoriesAlwaysFollowTheHead == Spec => AdvisoriesFollowTheHead
<1>1. IInv /\ [Next]_vars =>
          [/\ Publishes => Settled
           /\ \A r \in Revisions : status[r] = "revoked" => status'[r] = "revoked"]_vars
  <2> SUFFICES ASSUME IInv, Next
               PROVE  /\ Publishes => Settled
                      /\ \A r \in Revisions : status[r] = "revoked" => status'[r] = "revoked"
    OBVIOUS
  <2>1. Publishes => Settled
    BY PublicationOnly, NewSettles, AgainSettles
  <2> QED
    BY <2>1, RevokedStays
<1> QED
  BY <1>1, Invariance, PTL DEF Spec, AdvisoriesFollowTheHead

\* The verification that takes revision r out of quarantine.
Reverifies(j, r) ==
    /\ job[j].pc = "publish" /\ job[j].verify # None
    /\ r.is.path = job[j].verify.path
    /\ r \in observed[job[j].verify.snapshot]

LEMMA OrdersKeepQuarantine ==
    ASSUME IInv, Administrator, NEW r \in Revisions, class[r] = "quarantined"
    PROVE  class'[r] = "quarantined"
<1>1. PICK s \in Snapshots : \E p \in DOMAIN candidate[s] :
          \E next \in {"quarantined", "curated"} : Transition(s, p, next)
  BY DEF Administrator
<1>2. PICK p \in DOMAIN candidate[s], next \in {"quarantined", "curated"} : Transition(s, p, next)
  BY <1>1
<1>3. PICK q : q = Observes(s, p)
  OBVIOUS
<1>4. class \in [Revisions -> Classes]
  BY DEF IInv, StoreOK
<1>5. CASE q = None
  BY <1>2, <1>3, <1>5 DEF Transition
<1>6. CASE q # None
  <2>1. class[q] # next => Legal(class[q], next)
    BY <1>2, <1>3, <1>6 DEF Transition
  <2>2. class' = [class EXCEPT ![q] = next]
    BY <1>2, <1>3, <1>6 DEF Transition
  <2> QED
    BY <1>4, <2>1, <2>2 DEF Legal
<1> QED
  BY <1>5, <1>6

LEMMA QuarantineEnds ==
    ASSUME IInv, Next, NEW r \in Revisions, class[r] = "quarantined", class'[r] # "quarantined"
    PROVE  \E j \in Jobs : Reverifies(j, r)
<1>1. ~Administrator
  BY OrdersKeepQuarantine
<1>2. ASSUME NEW j \in Jobs, PublishNew(j) PROVE FALSE
  BY <1>2 DEF PublishNew, Classification
<1>3. ~(Revoke \/ Registered \/ DayPasses \/ Push \/ ChangeVisibility)
  BY DEF Revoke, Registered, DayPasses, Push, ChangeVisibility, classes
<1>4. ~\E j \in Jobs : \/ Resolve(j) \/ StartVerify(j) \/ Confirm(j) \/ Read(j) \/ Fail(j)
                        \/ PublishRefused(j) \/ RecordAbsence(j)
  BY DEF Resolve, StartVerify, Confirm, Read, Fail, PublishRefused, RecordAbsence, classes
<1>5. PICK j \in Jobs : PublishAgain(j)
  BY <1>1, <1>2, <1>3, <1>4 DEF Next, JobStep
<1> DEFINE target == job[j].verify
           q == Observes(Id(j), target.path)
<1>6. target # None /\ q # None /\ target.snapshot = Id(j) /\ job[j].pc = "publish"
  BY <1>5 DEF PublishAgain, classes
<1>7. class' = [class EXCEPT ![q] = IF Reverified(j, @) THEN "verified" ELSE @]
  BY <1>5, <1>6 DEF PublishAgain
<1>8. q \in observed[Id(j)] /\ q.is.path = target.path
  BY <1>6 DEF Observes
<1> HIDE DEF q
<1>9. r = q
  BY <1>7 DEF IInv, StoreOK
<1> QED
  BY <1>6, <1>8, <1>9 DEF Reverifies

\* A quarantined revision is let out of quarantine by nothing but the administrator's
\* verification of a candidate that observes it: not by a publication of the same content,
\* from whatever commit.
THEOREM QuarantineIsAlwaysKept == Spec => QuarantineIsKept
<1>1. IInv /\ [Next]_vars =>
          [\A r \in Revisions :
             class[r] = "quarantined" /\ class'[r] # "quarantined" =>
                 \E j \in Jobs :
                     /\ job[j].pc = "publish" /\ job[j].verify # None
                     /\ r.is.path = job[j].verify.path
                     /\ r \in observed[job[j].verify.snapshot]]_vars
  BY QuarantineEnds DEF Reverifies
<1> QED
  BY <1>1, Invariance, PTL DEF Spec, QuarantineIsKept
=============================================================================
