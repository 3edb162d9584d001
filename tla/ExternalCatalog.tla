--------------------------- MODULE ExternalCatalog ---------------------------
(***************************************************************************)
(* The catalog of one imported source: what a synchronization reads at a   *)
(* commit and makes of it (source-synchronization-service.ts), and what    *)
(* PostgreSQL keeps of it (external-catalog-store.ts): the snapshots of    *)
(* validated commits, the candidates in them, the immutable revisions that *)
(* they observe, the classification of both, the advisories, and the       *)
(* snapshot that is offered.                                               *)
(*                                                                         *)
(* A synchronization works on the network for a long time and publishes in *)
(* one transaction, which is one action here.  That transaction holds the  *)
(* head of the chain of advisories and the row of the source.  Leases are  *)
(* the subject of SyncRuns: here any two jobs may overlap, as a bootstrap  *)
(* without a lease overlaps a job that has one.                            *)
(*                                                                         *)
(* A hash is what it is taken of.  So a revision is its content identity   *)
(* and the commit whose bundle it was published from, and a snapshot is    *)
(* its commit and the results of the validation, which depend on that and  *)
(* on the blobs that could not be fetched.  Findings keep their classes,   *)
(* not their codes.  Of the chain of advisories, which only grows, the     *)
(* last status of each revision is kept, and which jobs have read a head   *)
(* that is still the head.                                                 *)
(***************************************************************************)
EXTENDS Integers, FiniteSets, Functions

CONSTANTS
    Jobs,      \* synchronizations that may run at once
    None,      \* no snapshot, document or revision
    Paths,     \* the roots of skills in the repository
    Synthetic, \* the candidate that stands for a tree that cannot be read
    Commits,   \* the commits of the default branch
    Repositories, Tree, \* repositories, and what each holds at each commit
    MaxMoves,  \* bound: pushes, and changes of the repository's visibility
    MaxLost,   \* bound: blobs that could not be fetched
    MaxOrders  \* bound: decisions of the administrator and of the operator

ASSUME PathsAssumption == IsFiniteSet(Paths)
ASSUME NamesAssumption == Synthetic \notin Paths /\ None \notin Paths \cup {Synthetic}
ASSUME TreeAssumption ==
    \A r \in Repositories :
        DOMAIN Tree[r] = Commits /\ \A c \in Commits : Tree[r][c].declares \subseteq Paths
ASSUME BoundsAssumption == {MaxMoves, MaxLost, MaxOrders} \subseteq Nat

VARIABLES
    repository, \* the repository of the source
    branch,    \* the commit of its default branch
    public,    \* it is public
    moves,     \* what has been used of MaxMoves
    observed,  \* for each snapshot the revisions that it observes
    missing,   \* for each snapshot the roots that it observes to be missing
    candidate, \* for each snapshot the classification of its candidates
    class,     \* for each revision its classification
    status,    \* for each revision its last advisory
    current,   \* current_published_snapshot_id
    loss,      \* how often, and since when, the source has been found not to be public
    job,       \* the synchronizations
    lostBlobs, \* what has been used of MaxLost
    orders     \* what has been used of MaxOrders

upstream == <<repository, branch, public, moves>>
snapshots == <<observed, missing, current>>
classes == <<candidate, class>>
vars == <<upstream, snapshots, classes, status, loss, job, lostBlobs, orders>>

Snapshots == DOMAIN observed
Revisions == DOMAIN class

(***************************************************************************)
(* What a synchronization makes of a commit.  A tree has a manifest, or    *)
(* none; the documents of skills; and a license.  A manifest that declares *)
(* no skills leaves them to be found by their documents.                   *)
(***************************************************************************)

Broken == 0

\* The blobs that a synchronization reads, next to the documents.
Blobs == Paths \cup {"manifest", "license"}

Nested(t) == {p \in Paths : t.doc[p] # None}

Candidates(t) == IF t.manifest = "skills" THEN t.declares ELSE Nested(t)

Unreadable(t, lost) ==
    \/ t.manifest = "broken"
    \/ t.manifest # "none" /\ "manifest" \in lost
    \/ Candidates(t) = {}

Parsed(t, lost) == {p \in Candidates(t) \ lost : t.doc[p] # None /\ t.doc[p].body # Broken}

Namesakes(t, lost, name) == {p \in Parsed(t, lost) : t.doc[p].name = name}

\* resolveInternalDependencies: a name that no other skill of the snapshot has alone is
\* dropped, and that is an error if the document requires it.
Resolves(t, lost, p, name) ==
    name # t.doc[p].name /\ Cardinality(Namesakes(t, lost, name)) = 1

\* What the frontmatter requires and what the text mentions.
DependencyEvidence(t, p) == t.doc[p].needs \cup t.doc[p].mentions

Targets(t, lost, p) ==
    UNION {Namesakes(t, lost, n) : n \in {m \in DependencyEvidence(t, p) : Resolves(t, lost, p, m)}}

\* The license of the repository is a finding of every one of its skills.
LegalFindings(t, lost) ==
    {f \in {"license", "evidence"} :
        \/ f = "license" /\ ~t.licensed
        \/ f = "evidence" /\ t.licensed /\ "license" \in lost}

\* A blob that could not be fetched fails like a document that does not parse.
OwnFindings(t, lost, p) == LegalFindings(t, lost) \cup
    {f \in {"resource", "schema", "duplicate", "dependency"} :
        \/ f = "resource" /\ t.doc[p] = None
        \/ f = "schema" /\ t.doc[p] # None /\ p \notin Parsed(t, lost)
        \/ p \in Parsed(t, lost) /\
              \/ f = "duplicate" /\ Namesakes(t, lost, t.doc[p].name) # {p}
              \/ f = "dependency" /\ \E n \in t.doc[p].needs : ~Resolves(t, lost, p, n)}

\* The skills that are left when those with findings, those on a cycle, and in rounds
\* those that depend on one of these have been taken out: the least set that has a skill
\* without findings as soon as it has all that the skill depends on.
Healthy(t, lost) ==
    LET Grown(S) == \A p \in Parsed(t, lost) :
                        OwnFindings(t, lost, p) = {} /\ Targets(t, lost, p) \subseteq S => p \in S
    IN {p \in Parsed(t, lost) : \A S \in SUBSET Paths : Grown(S) => p \in S}

\* buildRevision and createExternalSkillRevision.  The identity leaves out the commit of
\* the skill itself, but has the revisions that it depends on, by their names.
RevisionsAt(t, c, lost) ==
    LET rev[p \in Healthy(t, lost)] ==
            [commit |-> c,
             is |-> [path |-> p, name |-> t.doc[p].name, body |-> t.doc[p].body,
                     targets |-> {rev[q] : q \in Targets(t, lost, p)}]]
    IN rev

\* None is no revision.
ASSUME RevisionAssumption ==
    \A r \in Repositories : \A c \in Commits : \A lost \in SUBSET Blobs :
        \A p \in Healthy(Tree[r][c], lost) : RevisionsAt(Tree[r][c], c, lost)[p] # None

Found(p, findings) == [path |-> p, findings |-> findings, revision |-> None]

\* The candidates that the validation of a tree at commit c hands to publishSnapshot.
Reading(t, c, lost) ==
    LET healthy == Healthy(t, lost)
        revision == RevisionsAt(t, c, lost)
        Own(p) == OwnFindings(t, lost, p)
    IN IF Unreadable(t, lost)
       THEN {Found(Synthetic, {IF "manifest" \in lost THEN "schema" ELSE "manifest"})}
       ELSE {IF p \in healthy THEN [path |-> p, findings |-> {}, revision |-> revision[p]]
             ELSE Found(p, IF Own(p) = {} THEN {"dependency"} ELSE Own(p)) : p \in Candidates(t)}

\* What may be lost, as far as it makes a difference, and the results then.
Losses(t, c) ==
    {l \in SUBSET Blobs : Cardinality(l) <= MaxLost
                          /\ \A b \in l : Reading(t, c, l) # Reading(t, c, l \ {b})}

Results ==
    UNION {UNION {{[of |-> [repository |-> r, commit |-> c, lost |-> l],
                    candidates |-> Reading(Tree[r][c], c, l)] : l \in Losses(Tree[r][c], c)} :
                  c \in Commits} : r \in Repositories}

(***************************************************************************)
(* The store.  Every action below is one transaction.                      *)
(***************************************************************************)

Classes == {"verified", "quarantined", "curated"}

\* The last advisory of a revision.  It is unavailable when its skill has been removed,
\* and when its source is gone.
Statuses == {"none", "available", "removed", "gone", "revoked"}
Unavailable == {"removed", "gone"}

Idle == [pc |-> "idle", verify |-> None, fresh |-> FALSE, commit |-> None, lost |-> {}]

NoLoss == [count |-> 0, since |-> "never"]

Init ==
    /\ repository \in Repositories /\ branch \in Commits /\ public = TRUE /\ moves = 0
    /\ observed = <<>> /\ missing = <<>> /\ current = None
    /\ candidate = <<>> /\ class = <<>> /\ status = <<>>
    /\ loss = NoLoss
    /\ job = [j \in Jobs |-> Idle]
    /\ lostBlobs = 0 /\ orders = 0

Goto(j, pc) == job' = [job EXCEPT ![j].pc = pc]

\* Job j has ended and status' is what the advisories say now.  The chain has one head:
\* whatever appends to it makes the head that another job has read a stale one.
Ends(j) ==
    LET appended == \E r \in Revisions : status'[r] # status[r]
    IN job' = [i \in Jobs |-> IF i = j THEN Idle ELSE [job[i] EXCEPT !.fresh = @ /\ ~appended]]

(***************************************************************************)
(* The work of a job on the network.  It asks for the source's metadata    *)
(* and reads the head of the chain; what happens between the two it cannot *)
(* tell from what happens before.  A job of the administrator goes to the  *)
(* commit of one candidate without asking for the metadata; it has the     *)
(* lease of the source, so that there is one of these at a time.           *)
(***************************************************************************)

\* What GitHub says of the repository: a public one, or 404, or a private one.  That is
\* asked for once more before the absence is put on record.
AnswersAsPublic == public

Resolve(j) ==
    /\ job[j].pc = "idle"
    /\ job' = [job EXCEPT ![j].pc = IF AnswersAsPublic THEN "read" ELSE "confirm",
                          ![j].fresh = AnswersAsPublic]
    /\ UNCHANGED <<upstream, snapshots, classes, status, loss, lostBlobs, orders>>

StartVerify(j) ==
    /\ job[j].pc = "idle" /\ \A i \in Jobs : job[i].verify = None
    /\ \E s \in Snapshots : \E p \in DOMAIN candidate[s] :
          job' = [job EXCEPT ![j] = [Idle EXCEPT !.pc = "read", !.fresh = TRUE,
                                                !.verify = [snapshot |-> s, path |-> p]]]
    /\ UNCHANGED <<upstream, snapshots, classes, status, loss, lostBlobs, orders>>

Confirm(j) ==
    /\ job[j].pc = "confirm"
    /\ IF AnswersAsPublic THEN job' = [job EXCEPT ![j] = Idle] ELSE Goto(j, "absent")
    /\ UNCHANGED <<upstream, snapshots, classes, status, loss, lostBlobs, orders>>

\* readDefaultSnapshot, readSnapshotAtCommit.
CommitOf(j) == IF job[j].verify = None THEN branch ELSE job[j].verify.snapshot.commit

Read(j) ==
    /\ job[j].pc = "read" /\ AnswersAsPublic
    /\ LET commit == CommitOf(j)
       IN \E lost \in {x.of.lost : x \in {y \in Results : y.of.repository = repository
                                                      /\ y.of.commit = commit}} :
             /\ lostBlobs + Cardinality(lost) <= MaxLost
             /\ lostBlobs' = lostBlobs + Cardinality(lost)
             /\ job' = [job EXCEPT ![j].pc = "publish", ![j].commit = commit, ![j].lost = lost]
    /\ UNCHANGED <<upstream, snapshots, classes, status, loss, orders>>

\* An error that is not of a blob, a time limit, a lost lease, the end of the process.
Fail(j) ==
    /\ job[j].pc # "idle"
    /\ job' = [job EXCEPT ![j] = Idle]
    /\ UNCHANGED <<upstream, snapshots, classes, status, loss, lostBlobs, orders>>

(***************************************************************************)
(* recordSourceUnavailable.  The fourth observation in a row counts when   *)
(* the first is a day old, by what the row held before.  (Its question     *)
(* whether the source has been seen since under another name always has    *)
(* the answer no: what sees the source forgets the observations as well.)  *)
(***************************************************************************)

Gone == [r \in Revisions |->
            IF current # None /\ r \in observed[current] /\ status[r] \notin Unavailable \cup {"revoked"}
            THEN "gone" ELSE status[r]]

RecordAbsence(j) ==
    LET count == IF loss.count = 4 THEN 4 ELSE loss.count + 1
        confirmed == count = 4 /\ loss.since = "day"
    IN /\ job[j].pc = "absent"
       /\ loss' = [count |-> count, since |-> IF loss.since = "never" THEN "recent" ELSE loss.since]
       /\ status' = IF confirmed THEN Gone ELSE status
       /\ Ends(j)
       /\ UNCHANGED <<upstream, snapshots, classes, lostBlobs, orders>>

(***************************************************************************)
(* publishSnapshot.                                                        *)
(***************************************************************************)

Id(j) == [commit |-> job[j].commit, lost |-> job[j].lost]

\* The candidates of a snapshot.
Inputs(s) ==
    (CHOOSE x \in Results : x.of = [repository |-> repository, commit |-> s.commit, lost |-> s.lost]).candidates

CandidatePaths(inputs) == {x.path : x \in inputs}

\* The revisions that it proposes, and their roots.
Proposed(inputs) == {x.revision : x \in {y \in inputs : y.revision # None}}

Roots(inputs) == {r.is.path : r \in Proposed(inputs)}

\* Mutant: a root has the revision that it had.
StoredByPath(r) ==
    IF \E q \in Revisions : q.is.path = r.is.path
    THEN CHOOSE q \in Revisions : q.is.path = r.is.path ELSE r

\* The row of the same root with the same content, if there is one, and otherwise a new one.
Stored(r) == IF \E q \in Revisions : q.is = r.is THEN CHOOSE q \in Revisions : q.is = r.is ELSE r

\* insertCandidate.
CandidateClasses(inputs) ==
    [p \in CandidatePaths(inputs) |-> IF p \in Roots(inputs) THEN "verified" ELSE "quarantined"]

\* The revision that a candidate has, if any.
Observes(s, p) ==
    IF \E r \in observed[s] : r.is.path = p THEN CHOOSE r \in observed[s] : r.is.path = p ELSE None

\* The identity of a root includes the name that its skill had first.
Renamed(inputs) ==
    \E r \in Proposed(inputs), q \in Revisions : q.is.path = r.is.path /\ q.is.name # r.is.name

\* A document depends on the revision that this synchronization has built of another one,
\* and what the catalog holds for that one has been published from another commit.
DependencyDiffers(inputs) ==
    \E r \in Proposed(inputs) : \E q \in r.is.targets : Stored(q) # q

PublishedBefore(commit) ==
    \E s \in Snapshots : s.commit = commit /\ (observed[s] # {} \/ missing[s] # {})

\* Mutant: the revision in the catalog is good enough.
ConflictUnlessDependency(j) == PublishedBefore(job[j].commit) \/ Renamed(Inputs(Id(j)))

\* Mutant: a commit may be published with other results.
ConflictUnlessPublished(j) == Renamed(Inputs(Id(j))) \/ DependencyDiffers(Inputs(Id(j)))

Conflict(j) ==
    \/ PublishedBefore(job[j].commit)
    \/ Renamed(Inputs(Id(j)))
    \/ DependencyDiffers(Inputs(Id(j)))

\* The skills that the current snapshot offers and these roots do not have.
Dropped(roots) == IF current = None THEN {} ELSE {r \in observed[current] : r.is.path \notin roots}

\* Mutant: only what has no advisory yet is removed.
RemovedOnce(advice, roots) ==
    [r \in DOMAIN advice |-> IF r \in Dropped(roots) /\ advice[r] = "none" THEN "removed" ELSE advice[r]]

Removed(advice, roots) ==
    [r \in DOMAIN advice |->
        IF r \in Dropped(roots) /\ advice[r] \notin Unavailable \cup {"revoked"}
        THEN "removed" ELSE advice[r]]

Restored(advice, revisions) ==
    [r \in DOMAIN advice |->
        IF r \in revisions /\ advice[r] \in Unavailable THEN "available" ELSE advice[r]]

\* Mutant: what has been validated is verified.
ClassificationAnew(seen) ==
    [r \in Revisions \cup seen |-> IF r \in seen THEN "verified" ELSE class[r]]

\* ensureRevisionClassification: what is reused keeps its classification.
Classification(seen) ==
    [r \in Revisions \cup seen |-> IF r \in Revisions THEN class[r] ELSE "verified"]

\* Mutant: the time of the first absence is kept.
RefreshCount(j) ==
    loss' = IF job[j].verify = None THEN [loss EXCEPT !.count = 0] ELSE loss

\* refreshSourceIdentity, in the transaction of a publication.
Refresh(j) ==
    loss' = IF job[j].verify = None THEN NoLoss ELSE loss

PublishNew(j) ==
    LET id == Id(j)
        inputs == Inputs(id)
        roots == Roots(inputs)
        seen == {Stored(r) : r \in Proposed(inputs)}
        advice == [r \in Revisions \cup seen |-> IF r \in Revisions THEN status[r] ELSE "none"]
    IN /\ job[j].pc = "publish" /\ job[j].fresh
       /\ id \notin Snapshots /\ ~Conflict(j)
       /\ Refresh(j)
       /\ observed' = [s \in Snapshots \cup {id} |-> IF s = id THEN seen ELSE observed[s]]
       /\ missing' = [s \in Snapshots \cup {id} |->
                        IF s = id THEN {r.is.path : r \in Dropped(roots)} ELSE missing[s]]
       /\ candidate' = [s \in Snapshots \cup {id} |->
                          IF s = id THEN CandidateClasses(inputs) ELSE candidate[s]]
       /\ class' = Classification(seen)
       /\ status' = Removed(Restored(advice, seen), roots)
       /\ current' = id
       /\ Ends(j)
       /\ UNCHANGED <<upstream, lostBlobs, orders>>

\* reverifyCandidate: what has been found again to be in order is no longer quarantined.
Reverified(j, now) ==
    job[j].verify.path \in Roots(Inputs(Id(j))) /\ now = "quarantined"

\* The same commit with the same results: nothing is published but the snapshot is current.
PublishAgain(j) ==
    LET id == Id(j)
        target == job[j].verify
    IN /\ job[j].pc = "publish" /\ job[j].fresh
       /\ id \in Snapshots
       /\ target # None => target.snapshot = id
       /\ Refresh(j)
       /\ IF target = None \/ Observes(id, target.path) = None THEN UNCHANGED classes
          ELSE LET r == Observes(id, target.path)
               IN /\ candidate' = [candidate EXCEPT ![id][target.path] =
                                      IF Reverified(j, @) THEN "verified" ELSE @]
                  /\ class' = [class EXCEPT ![r] = IF Reverified(j, @) THEN "verified" ELSE @]
       /\ status' = Restored(Removed(status, Roots(Inputs(id))), observed[id])
       /\ current' = id
       /\ Ends(j)
       /\ UNCHANGED <<upstream, observed, missing, lostBlobs, orders>>

\* ADVISORY_CHAIN_STALE, NOT_FOUND, PUBLICATION_CONFLICT: the transaction is rolled back.
PublishRefused(j) ==
    /\ job[j].pc = "publish"
    /\ \/ ~job[j].fresh
       \/ Id(j) \in Snapshots /\ job[j].verify # None /\ job[j].verify.snapshot # Id(j)
       \/ Id(j) \notin Snapshots /\ Conflict(j)
    /\ job' = [job EXCEPT ![j] = Idle]
    /\ UNCHANGED <<upstream, snapshots, classes, status, loss, lostBlobs, orders>>

(***************************************************************************)
(* transitionCandidate.  The classification of a candidate that has a      *)
(* revision is that of the revision, which other candidates may share.     *)
(***************************************************************************)

Legal(from, to) ==
    \/ from \in {"verified", "curated"} /\ to = "quarantined"
    \/ from = "verified" /\ to = "curated"

Transition(s, p, next) ==
    LET r == Observes(s, p)
        effective == IF r = None THEN candidate[s][p] ELSE class[r]
    IN /\ orders < MaxOrders
       /\ next = "curated" => r # None
       /\ effective # next => Legal(effective, next)
       /\ effective # next \/ Legal(candidate[s][p], next)
       /\ candidate' = [candidate EXCEPT ![s][p] = IF Legal(@, next) THEN next ELSE @]
       /\ class' = IF r = None THEN class ELSE [class EXCEPT ![r] = next]
       /\ orders' = orders + 1
       /\ UNCHANGED <<upstream, snapshots, status, loss, job, lostBlobs>>

Administrator ==
    \E s \in Snapshots : \E p \in DOMAIN candidate[s] : \E next \in {"quarantined", "curated"} :
        Transition(s, p, next)

(***************************************************************************)
(* What happens next to all of this.                                       *)
(***************************************************************************)

\* An advisory of the operator, written to the database.
Revoke ==
    /\ orders < MaxOrders
    /\ \E r \in Revisions : status[r] # "revoked" /\ status' = [status EXCEPT ![r] = "revoked"]
    /\ job' = [j \in Jobs |-> [job[j] EXCEPT !.fresh = FALSE]]
    /\ orders' = orders + 1
    /\ UNCHANGED <<upstream, snapshots, classes, loss, lostBlobs>>

\* A discovery sees the source, or the administrator registers it once more.
Registered ==
    /\ AnswersAsPublic /\ loss # NoLoss
    /\ loss' = NoLoss
    /\ UNCHANGED <<upstream, snapshots, classes, status, job, lostBlobs, orders>>

DayPasses ==
    /\ loss.since = "recent"
    /\ loss' = [loss EXCEPT !.since = "day"]
    /\ UNCHANGED <<upstream, snapshots, classes, status, job, lostBlobs, orders>>

Push ==
    /\ moves < MaxMoves
    /\ \E c \in Commits \ {branch} : branch' = c
    /\ moves' = moves + 1
    /\ UNCHANGED <<repository, public, snapshots, classes, status, loss, job, lostBlobs, orders>>

ChangeVisibility ==
    /\ moves < MaxMoves
    /\ public' = ~public
    /\ moves' = moves + 1
    /\ UNCHANGED <<repository, branch, snapshots, classes, status, loss, job, lostBlobs, orders>>

JobStep(j) ==
    \/ Resolve(j) \/ StartVerify(j) \/ Confirm(j) \/ Read(j) \/ Fail(j)
    \/ RecordAbsence(j) \/ PublishNew(j) \/ PublishAgain(j) \/ PublishRefused(j)

Next ==
    \/ \E j \in Jobs : JobStep(j)
    \/ Administrator \/ Revoke \/ Registered \/ DayPasses \/ Push \/ ChangeVisibility

Spec == Init /\ [][Next]_vars

(***************************************************************************)
(* Properties.                                                             *)
(***************************************************************************)

\* Every snapshot has its observations, its missing roots and the classes of its
\* candidates; every revision its class and its last advisory; the offered snapshot is
\* one of them; and the count of absences and its time belong together.
TypeOK ==
    /\ branch \in Commits /\ public \in BOOLEAN /\ moves \in 0..MaxMoves
    /\ observed \in [Snapshots -> SUBSET Revisions]
    /\ missing \in [Snapshots -> SUBSET Paths]
    /\ DOMAIN candidate = Snapshots
    /\ \A s \in Snapshots : candidate[s] \in [CandidatePaths(Inputs(s)) -> Classes]
    /\ class \in [Revisions -> Classes]
    /\ status \in [Revisions -> Statuses]
    /\ current \in Snapshots \cup {None}
    /\ loss.count \in 0..4 /\ loss.since \in {"never", "recent", "day"}
    /\ loss.count = 0 <=> loss.since = "never"
    /\ \A j \in Jobs : job[j].pc \in {"idle", "confirm", "absent", "read", "publish"}
    /\ lostBlobs \in 0..MaxLost /\ orders \in 0..MaxOrders

\* What the source offers is what the validation has found at the commit of the offered
\* snapshot, root by root and with the same content, although most of its revisions may
\* have been published from other commits (publishRevision reuses them).
HeadIsTheCommit ==
    current # None =>
        {r.is : r \in observed[current]} = {r.is : r \in Proposed(Inputs(current))}

\* A revision names the revisions that it depends on.  All of them are in the catalog, and
\* what is offered depends on nothing that is not offered with it (publishDependencies).
DependenciesArePublished ==
    /\ \A r \in Revisions : r.is.targets \subseteq Revisions
    /\ current # None => \A r \in observed[current] : r.is.targets \subseteq observed[current]

\* The catalog never holds two accounts of one commit: of its snapshots, which differ in
\* what could be read, at most one observes revisions.
CommitHasOneCatalog ==
    \A s, t \in Snapshots :
        s.commit = t.commit /\ observed[s] # {} /\ observed[t] # {} => s = t

\* A publication that moves the head, or that finds a lost source again, leaves each
\* revision that it offers available, and each that it no longer offers unavailable; and
\* no step takes a revocation back.
Publishes ==
    \E j \in Jobs : job[j].pc = "publish" /\ job'[j].pc = "idle" /\ (current' # current \/ loss' # loss)

Settled ==
    /\ \A r \in observed'[current'] : status'[r] \in {"none", "available", "revoked"}
    /\ current # None =>
          \A r \in observed[current] :
              (\A q \in observed'[current'] : q.is.path # r.is.path) =>
                  status'[r] \in Unavailable \cup {"revoked"}

AdvisoriesFollowTheHead ==
    [][/\ Publishes => Settled
       /\ \A r \in Revisions : status[r] = "revoked" => status'[r] = "revoked"]_vars

\* What the administrator has quarantined stays in quarantine, through every publication
\* of the same content from whatever commit, until the administrator has a candidate that
\* observes it verified again.
QuarantineIsKept ==
    [][\A r \in Revisions :
          class[r] = "quarantined" /\ class'[r] # "quarantined" =>
              \E j \in Jobs :
                  /\ job[j].pc = "publish" /\ job[j].verify # None
                  /\ r.is.path = job[j].verify.path
                  /\ r \in observed[job[j].verify.snapshot]]_vars
=============================================================================
