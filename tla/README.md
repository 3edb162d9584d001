# TLA+ models of skillwire

This directory models the parts of skillwire that are hard to test: several
server processes that synchronize sources against one PostgreSQL database, the
catalog that comes of it and the agents that are served from it meanwhile, and
the administrative commands of a self-hosted installation, which have to survive
being interrupted anywhere. Paths below are relative to the repository's `src/`
directory unless they begin with `docs/`, `specs/` or `tests/`.

Contents: [the system](#1-the-system), [modules](#2-modules),
[SyncRuns](#3-syncruns), [ExternalCatalog](#4-externalcatalog),
[Delivery](#5-delivery), [OperationJournal](#6-operationjournal),
[SecretRotation](#7-secretrotation), [KeyRotation](#8-keyrotation),
[Upgrade](#9-upgrade), [Installation](#10-installation),
[runs and bounds](#11-runs-and-bounds), [fairness](#12-fairness),
[proofs](#13-proofs),
[disagreements](#14-where-the-documents-and-the-code-disagree),
[left out](#15-what-is-not-modelled), [plan](#16-plan).

## 1. The system

skillwire serves skills (signed, immutable revisions) over MCP. A server process
(`main.ts`, `composition.ts`) runs an HTTP transport, a catalog of first-party
and imported skills, and a scheduler that imports skills from GitHub sources into
PostgreSQL. A separate command line (`onboarding/`) installs, repairs, upgrades
and removes a self-hosted installation.

| component | state it keeps | operations | who calls it | what makes it correct |
|---|---|---|---|---|
| leases (`persistence/postgres/sync-lease-store.ts`, `lease-fencing.ts`) | one row per key: holder, token, expiry | acquire, renew, release, assertLeaseHeld | scheduler; every fenced transaction | tokens grow; a job that lost its lease commits nothing |
| scheduler (`lifecycle/github-sync-scheduler.ts`) | timers, one in-flight set per process | start, stop, runOnce; jobs with heartbeat and deadline | its timer | every run ends; a late job does no harm |
| run rows (`persistence/postgres/github-source-store.ts`) | `github_sync_runs`, `next_sync_at`, discovery rows | enqueue, claim, mark, complete, fail, quarantine, recover | scheduler, administrator, discovery | one active run a source; final results; retries neither lost nor doubled |
| synchronization (`application/services/source-synchronization-service.ts`) | none between calls | resolve commit, read tree, validate, publish | a job; bootstrap command | publishes what it read, or nothing |
| external catalog (`persistence/postgres/external-catalog-store.ts`) | snapshots, candidates, revisions, advisory chain, head | publishSnapshot, review, approve, advisories | synchronization, administrator | head and advisory chain move forward |
| discovery (`application/services/source-discovery-service.ts`) | discovery runs, checkpoints | enqueue, page through a search, resume | scheduler | a search resumes where it stopped |
| GitHub client (`ingestion/github/rest-client.ts`) | budgets of a job | requests with retries, rate limits | synchronization, discovery | budgets hold; limits defer |
| catalog reads (`catalog/`, `persistence/postgres/imported-skill-catalog-provider.ts`) | bounded cache of verified revisions | resolve, read, refresh status | use cases | nothing revoked is delivered |
| use cases, memory (`application/use-cases/`, `persistence/postgres/repository-memory-store.ts`) | usage and outcome rows per key and repository | load, record outcome, list, forget | MCP tools | forgotten means forgotten |
| API keys (`authentication/`, `persistence/postgres/api-key-store.ts`) | key rows | create, rotate, revoke, authenticate | middleware, onboarding | a revoked key opens nothing |
| readiness (`lifecycle/audit-cleanup-scheduler.ts`, `readiness-state.ts`) | ready flag | cleanup, probe, start, stop | timers | ready means the last probe worked |
| migrations (`persistence/postgres/migration-runner.ts`) | `schema_migrations` | migrate under an advisory lock | start of a server, upgrade | each file once, in order |
| journals, lock (`onboarding/domain/operation-journal.ts`) | one append-only file per operation; lock file | create, open, append, runEffect; acquire, release | every changing command | nothing half done is forgotten |
| recovery (`onboarding/application/recovery.ts`) | none | recoverOperation | repair | ends an interrupted operation, in reverse order |
| lifecycle commands (`onboarding/application/production-lifecycle.ts`, `production-setup.ts`) | installation record | setup, repair, rotate, upgrade, backup, uninstall | administrator | reports what happened |
| sagas (`upgrade.ts`, `service-secret-rotation.ts`, `uninstall.ts`, `profile-transaction.ts` in `onboarding/application/`) | files, containers, profiles | their effects and compensations | lifecycle commands | forward or back, never between |
| credential bridge (`credential-bridge/`) | one upstream session | forward requests | MCP client | one answer per request |

How they interact: scheduler, administrator and bootstrap command are different
processes that meet only in PostgreSQL transactions; the lease row of a source
serializes jobs, and its token fences their writes. Administrative commands meet
in the installation lock and in the journals that earlier commands left behind.

What is hard: ticks of one process overlap when one outlasts its interval, and
ticks of several processes always may; every reply to COMMIT can be lost; the
deadline of a tick aborts the context with which its failure should be recorded;
a lease can expire under a job that still runs; an administrative command may die
between an effect and the line that records it, and the repair of that may die
too. `PROJECT.json` lists these hazards one by one, each at its line, with the
properties that look for it.

## 2. Modules

| module | models | theorems in |
|---|---|---|
| `SyncLease` | the row of one lease key; part of `SyncRuns` | |
| `SyncRuns` | scheduler, run rows, fenced publication, bootstrap, administrator | `SyncRunsProofs` |
| `ExternalCatalog` | what a synchronization makes of a commit, and what the database keeps of it | `ExternalCatalogProofs` |
| `Delivery` | the six tools of the MCP server, the catalog reads behind them, the memory of repositories | `DeliveryProofs` |
| `OperationJournal` | journals, runEffect, lock, recovery, command envelope | `OperationJournalProofs` |
| `SecretRotation` | the rotation of the database password | `SecretRotationProofs` |
| `KeyRotation` | the rotation of the key of a client | `KeyRotationProofs` |
| `Upgrade` | upgrade to another release, backup, migrations | `UpgradeProofs` |
| `Installation` | setup, its continuation, both uninstalls, purge, repair | `InstallationProofs` |
| `MCSyncRuns`, `MCExternalCatalog`, `MCDelivery`, `MCOperationJournal`, `MCSecretRotation`, `MCKeyRotation`, `MCUpgrade`, `MCInstallation` | the instances for TLC | |

The modules meet where the code's components do. `SyncRuns` instantiates
`SyncLease`, with sources for keys and ticks for holders, and shares its variable
`lease`. What its action `Publish` does as one write of a head is all of
`ExternalCatalog`, which in turn drops the leases and lets any two jobs overlap.
What `ExternalCatalog` publishes is what `Delivery` serves; of it `Delivery` keeps the
class of each revision, its last advisory and the length of the chain.
`OperationJournal` shows what a journal and the installation lock are good for;
`SecretRotation`, `KeyRotation`, `Upgrade` and `Installation` are the effects that
run in that envelope. Of the journal they keep what it has been shown to come
down to: whether an effect is on record, and whether the journal asks for recovery
when the command has ended.

Definitions whose comment begins with "Mutant" are the bugs each property is
tested against; no specification uses them.

## 3. SyncRuns

| state | code |
|---|---|
| `lease[s]` | row `sync/<s>` of `github_sync_leases`; `live` is "expires after now" |
| `run[r]` | a row of `github_sync_runs`; `ready` is "next_attempt_at has passed", `prev` is `retry_of_run_id`, `pin` is `requested_commit_sha` |
| `due[s]` | `next_sync_at` has passed |
| `tick[t]`, `job[t][s]` | the program counters and locals of `runOnce` and `#executeSyncRun`; `aborted` is the tick's signal, `lost` the job's own |
| `snapshots[s]`, `head[s]` | `external_source_snapshots`, `current_published_snapshot_id` |
| `upstream[s]` | GitHub's default branch |
| `bootstrap[s]` | what a bootstrap process has read |
| `newest`, `fence` | history: what jobs published, under which token |

Each transaction is one step, because its statements run under row locks
and the fence is asserted inside it. Between two steps of a job all others may
run. The actions follow the code's calls: `Recover` → `EnqueueDue` → `ClaimRuns`
→ per job `AcquireLease`, `MarkRunning`, `ReadUpstream`, `Publish`, `Complete` or
one of `Fail`, `Quarantine`, `NotRecorded`, then `ReleaseLease`. Side by side
run `HeartbeatRenews` and `HeartbeatFails`.

Choices worth knowing:

* `requestTransaction` refuses to commit for an aborted context, so every
  transaction of a job has the guard `~Aborted`. That makes `cancelled` in `Fail`
  always false. It is there because the code computes it.
* An abort is either a deadline or `stop()`; the code treats them alike.
* A crash takes one tick (with its jobs); a process with two overlapping ticks
  that dies is two crashes. Processes restart.
* What distinguishes errors is only what the catch block tests: retryable,
  deferred by a rate limit beyond a week, quarantine, other.
* The commits of a branch are numbered in the order of its history. A force push
  back to an old commit is not modelled.
* `SKIP LOCKED` and `ORDER BY ... LIMIT`: any choice of as many rows as fit.
* The expiry of a lease that a live job tends, an abort, a crash, a lost reply,
  an unreachable database, a discovery that throws and a deferred rate limit each
  cost one of `MaxFaults`. A lease whose job is gone expires freely.

`NoCommitRegression`, `FencedHead` and `SuccessIsPublished` are about the fence:
each needs two jobs, an expiry between a read and a publication, and a takeover.
`ResultIsFinal` and `RetryIsQueuedOnce` are about recovery racing the late
holder; `OneActiveRun` about all five ways in which rows are queued.

## 4. ExternalCatalog

| state | code |
|---|---|
| `repository`, `branch`, `public`, `moves` | GitHub: the trees by commit, the default branch, the visibility |
| `observed[s]`, `missing[s]` | for a snapshot the revisions that `external_snapshot_observations` ties to it, and the roots that it observes to be missing |
| `candidate[s]`, `class[r]` | the classification of the candidates of a snapshot and of a revision |
| `status[r]` | the last advisory of a revision in the chain |
| `current` | `current_published_snapshot_id` |
| `loss` | `consecutive_source_absence_count` with the time of the first absence |
| `job[j]` | a synchronization: its place, the candidate that it verifies, the commit, the blobs that it could not read, and whether the head of the chain that it read is still the head (`fresh`) |

The first half of the module is the pure part: `Reading` is what
`source-synchronization-service.ts` makes of a tree. Candidates come from the
manifest, or from the documents when it declares none; a document parses or not;
a name that two skills share, a missing dependency, a cycle, a missing licence,
a blob that could not be fetched are findings; `Healthy` is the least set of skills
without findings whose dependencies are healthy too, which is what the code
reaches by taking skills out in rounds; `RevisionsAt` builds the revisions, whose
identity includes the revisions that they depend on. A hash stands for what it is
taken of, so a revision is its content and the commit from which it was published.

The second half is the store. `PublishNew`, `PublishAgain`, `PublishRefused` are the
transaction of `publishSnapshot`: a stale advisory head, a commit already published
with other results, a root under another name and a dependency on a revision
published from another commit are refused; what remains reuses the rows of equal
content, keeps their classification, marks what is no longer offered unavailable
and what is offered again available, and moves the head. `RecordAbsence` counts
absences of the source; `Administrator` is `transitionCandidate`; `StartVerify` a
verification, which goes to the commit of one candidate; `Revoke` an advisory of
the operator. Leases are left to `SyncRuns`.

`HeadIsTheCommit` compares what is offered, revision by revision and wherever it
was published from, with what the validation finds at the commit of the head.
`DependenciesArePublished` follows the identities of revisions into the catalog,
`CommitHasOneCatalog` excludes two accounts of one commit by two jobs of which one
has lost a blob. `AdvisoriesFollowTheHead` is about the chain after commits that
remove and bring back skills, `QuarantineIsKept` about an administrator's decision
against every later publication of the same content.

## 5. Delivery

| state | code |
|---|---|
| `class`, `status`, `chain`, `changes` | the catalog: class and last advisory of each imported revision, events of the advisory chain |
| `memory[s][r]` | a row of `repository_skill_usage`: its outcome, and which loads it has counted |
| `audit` | rows of `repository_erasure_audit` |
| `request[q]` | a call of a tool: revision, scope, the query that is next (`at`), the head of the chain that it has read, the first status, its answer; and the history that the properties speak of |

A load asks for the status of a revision, for the revision, and for its status
again; each time the database provider reads the head of the advisory chain, and
with a second query its events. All of these are steps, and so is every write:
`Status`, `Find`, `Latest`, `Final`, `Record`, `Outcome`, `Forget`, `List`, `Search`.
`ReadHead` is the first of the two queries. `Fail` is a query that fails or a
COMMIT whose reply is lost, `TimeOut` the deadline of a request: it answers 503, and
a COMMIT that is on its way may still be done. `Found` and `Cache` are the first-party
catalog, which answers without the database and serves an unavailable revision
only while the cache of verified revisions holds it. Meanwhile revisions are
published, quarantined, verified, and advisories are appended.

`AnswersAreTimely` compares an answer with all the ways in which the revision has
stood while the request ran. `UsesAreAccountedFor` follows a confirmed use through
lost replies, concurrent loads and erasures, and says that a refused load leaves
no trace. `ForgottenStaysForgotten` is what an agent may conclude from the answer
to forget: of the loads that had ended before.

## 6. OperationJournal

| state | code |
|---|---|
| `journal[o]` | the lines of an operation's file: phase, step, and of the detail what later code reads (`note`) |
| `damaged[o]` | the file has a torn line or repeats a sequence number: `open` throws |
| `world[o][k]` | how far effect k has come; effects of different operations are different |
| `op[o]` | its command, number of effects, and what the administrator was told |
| `holder` | the installation lock |
| `proc[p]` | a process: program counter, `mem` (the `entries` of its journal), `scan` (the result of `journalsRequiringRecovery`), `target` and `todo` of `recoverOperation` |

`append` is modelled with all of its checks (`MayAppend`) and three outcomes:
written, not written, and written but not heard of or torn (`NotWritten`).
A process that missed its own line goes on counting from memory, and the file is
damaged by its next one. `runEffect` is one action per await. `recoverOperation`
is `Examine`, then the undoing and the lines in the code's order, each a step.

`Exact` chooses what recovery can observe. TRUE is the contract `recovery.ts` is
written and tested for: an observer that can tell whether an effect is there (it
may still answer "ambiguous"). FALSE is what `repairOperation` passes today,
"ambiguous" always.

Envelope: every changing command takes the lock, creates a journal, runs
effects, and writes its last word; `setup` differs from the others in its last
word (`LastWord`) and in reporting without the journal. What effects do is left
abstract; `SecretRotation`, `KeyRotation`, `Upgrade` and `Installation` have them.

`SuccessIsProven` ties three pieces of state together (report, file, world) for
ever. `NothingForgotten` is the reason the journal exists; `PlainFailureIsClean`
is about `failure`, which decides what the administrator is told from the lines
in memory; `OneWriter` is about the scan that happens before the lock is taken.

## 7. SecretRotation

| state | code |
|---|---|
| `file[q]` | the directory of secrets: the content behind the names current, candidate and retained; a secret stands for its value and for the hash of it |
| `db`, `app` | the password of the role `skillwire`; the name of the file the application was started with |
| `published`, `ownership` | `service-secret-set.json`, `ownership.json` (identity, retained secrets, and a count of what other commands changed) |
| `holder`, `report` | the installation lock, the last report |
| `interrupted` | the journal of some rotation asks for recovery |
| `proc[p]` | a command: place, stage, and the locals `old`, `seen` (what the preview read), `fresh`, `owns` (`ownedCandidatePaths`), `swapped` |
| `used` | the secrets generated so far |

A rotation reads both records, takes the lock, reads them again (`CheckState`),
and goes through five journaled effects: candidate, candidate readiness, swap,
active readiness, publication. Each system call of an effect is a step, so each
may fail (`Breaks`), and the process may die between any two (`Crash`). A failure
before the end of the first effect drops the candidate; a later one runs the
rollback: two renames back, ALTER ROLE and deployment with the old file, both
records as the preview read them, the candidate removed. What remains after a
crash is what the next rotation finds. The name of the candidate is the same for
every rotation away from the same secret, since the operation id is a hash of its
identity; `CandidateExists` is the O_EXCL that keeps a retry from using it.

Of the journal, `interrupted` is all that is kept: that an effect on record
blocks later repairs until it is settled is what `OperationJournal` shows, and
repair settles none of these (it observes every effect as ambiguous).
`ChangeOtherAsset` stands for the other commands that rewrite `ownership.json`
under the lock, e.g. the rotation of a client key. ALTER ROLE may take effect and
still be reported as failed, `compose up` may recreate the application and still
fail, and `atomicWriteJson` may throw before or after it has replaced its file.

`DatabasePasswordIsKept` is what matters most: of the up to three files that hold
secrets after several broken rotations, one holds what PostgreSQL wants, so that
an administrator can get out. `SuccessIsComplete` and `DisagreementIsRecorded`
relate files, database, application and both records; `PublishedIsKept` and
`NoLostOwnership` say what no step may do to an earlier state. Not modelled: a
power loss that undoes renames not yet synchronized, and an ALTER ROLE whose
client was killed and that takes effect later.

## 8. KeyRotation

| state | code |
|---|---|
| `live`, `issued` | the client keys that the database accepts; those ever created |
| `stored` | the keys whose token is on this machine |
| `bridge[c]` | `bridge-state.json`: the key that the bridge of a client presents |
| `record[r][c]` | the key that `credential-references`, `client-integrations` and `ownership` name |
| `interrupted` | the journal of some rotation asks for recovery |
| `deadly` | history: clients whose old key was revoked by a call that has failed |
| `proc[p]` | a rotation: its place, the client, the old key, what the preview read, the replacement |

A rotation creates a key, stores its token, lets the bridge use it, tries it,
revokes the old key, removes the old token, and publishes three records. Until the
revocation a failure goes back: `Rollback` of the bridge, `Withdraw` of the key,
`Discard` of the token. Each call, the undoing ones included, may fail with or
without its effect, and the process may die between any two.

`ClientIsServed` is the promise to the user whose client is running: at every
moment of all that, and of every later attempt, the bridge presents a key that the
database accepts and whose token can be read. `RecordsAgree` says that what is left
behind, a second key or an unowned token, is on record in a journal. `deadly`
is the exception; section 14 says why it is needed.

## 9. Upgrade

| state | code |
|---|---|
| `schema`, `writes` | the database: its last migration, and how often the application has written to it |
| `app`, `public` | the release that the application container runs, and whether on the clients' socket |
| `launcher`, `unpacked` | `~/.local/bin/skillwire`; the directories of releases |
| `active`, `deployment`, `installed`, `ownership` | `active-release.json`, `deployment.json`, `installation.json`, `ownership.json` |
| `backup[b]` | the directory of a backup: how far it has come, what the archive holds |
| `proc[p]` | an upgrade or a backup: its place within an effect (`pc`), the effect (`stage`), what the preview read, the evidence of the database, and the variables of `runUpgrade` |

An upgrade is a sequence of effects (`Successor`): verify, backup, drain if the
schema changes, install, migrate, read back, start on a private socket, clients,
select, start in public, publish. Each is an intent in the journal, its calls, and
a last word; each of these may fail (`CallFails`, `StopFails`, `MigrateFails`,
`StartFails`, `AppendFails`, ...) and the process may die, while a container that it
started goes on to migrate. A migration is one transaction per file, so an
upgrade over two files can stop between them. The evidence of the database (here
the number of writes) is read under the lock and compared with the restored
backup and with the release that has been started. `HandleError`, `Halt`, `RestoreLauncher`,
`RestartPrior`, `RetainAssets` are the catch of `runUpgrade`, with the three answers
that it gives (`verdict`). The application writes while it runs; the user may remove
the launcher.

`SchemaIsKnown` is the property that an upgrade is for: no application ever meets
a schema it does not know, and none serves clients before its release is selected.
`MigratesDrainedAndBackedUp` is about the moment of a migration,
`DisagreementIsRecorded` about everything that is left behind, `SuccessIsComplete`
about a report of success.

## 10. Installation

| state | code |
|---|---|
| `disk` | the records: `installation.json` (`inst`), `ownership.json` (`own`), `external-integrations.json`, `client-integrations.json`, `bridge-state.json` |
| `world[a]` | the things: containers, release, volume, files, the MCP entry and the plugin of each client; absent, ours, the user's equivalent, something else, half removed, or in quarantine |
| `keys` | client keys: issued, live, stored |
| `trouble` | history: some command came to less than it began |
| `touched`, `faults` | history and bound: what the user has changed, the failed calls and crashes |
| `proc[p]` | a command: its place, what it read, which of that is still current, what it is to publish, and for the client in hand the plan, the mutations with their post images, the key |

Setup takes its lock first, then installs, deploys, and goes through the clients:
preflight, key, token, MCP entry, plugin, verification. What fails for a client is
undone in reverse order, unless the profile has changed since its post image
(`GuardFails`); and each inverse may fail. The four other commands read, preview,
lock, and compare; `Publish` notes whose reading is out of date. The same actions
model a fresh setup, the continuation of an incomplete one, a setup with another
client, and a setup after a default uninstall: which of these it is follows from
the records that it reads.

`RecordIsTrue` says that between two commands the ownership record lists what
SkillWire has made, and all of it, as long as no command has reported to have come
to less; `RemovedIsGone`, without that reservation, that nothing is struck off the
record while it is there. Things that the user has touched are excepted.

## 11. Runs and bounds

| run | states | instance |
|---|---|---|
| `sync_runs` | 4.4 million | one source, two ticks, three rows, two faults: all safety properties of run rows |
| `sync_heads` | 0.9 million | two commits, one fault: heads only move forward under leases |
| `sync_liveness` | 0.4 million | one fault and an unleased bootstrap: every run ends |
| `external_catalog` | 3.2 million | two jobs; six repositories of two commits and up to two skills, in which the second commit changes a dependency, its target, removes, renames and breaks skills or has no licence; two pushes or changes of visibility, one unreadable blob, one order |
| `delivery` | 2.0 million | two requests of any tool, two scopes, one imported revision and two first-party ones with a cache for one, two changes of the catalog |
| `operation_journal` | 4.2 million | two processes, three operations of up to two effects, the last one a repair, two faults |
| `secret_rotation` | 0.8 million | two processes, three rotations, four faults, two changes by other commands |
| `key_rotation` | 0.1 million | two processes, two clients, five keys, three faults |
| `upgrade` | 4.6 million | two processes; releases with schemas 1, 1 and 3, the third migration forward-only; two backups, one write, two faults |
| `installation` | 1.7 million | two processes, one client, one key, one fault or edit |
| `secret_prior_retained`, `installation_uninstall` | until violated | section 14 |

*Sources.* Two ticks are enough for a takeover and its victim; the lease serializes
a third. One source is enough since no statement relates rows of two sources,
except `LIMIT`, which only makes a tick do less. Three rows hold a run, its retry
and the retry of that (`MaxAttempts` is 2, so the limit is hit). Requests leave
`Reserve` rows to retries, so that a recovery never lacks one. Two faults give
the crash of a job and the loss of its successor.

*Catalog.* Two jobs are what can overlap: a bootstrap and a leased job, or a
synchronization and a verification. Two skills make a dependency, a
cycle, a name that is shared; two commits the change between a publication and the
next. Two requests are a load and what may interfere with it: a forget, another
load of the same row, an outcome; more changes of the catalog than two only repeat
ways in which a revision stands.

*Operations.* Two effects give a verified one behind an unproven one; three
operations give an interrupted one, a repair that is interrupted, and the repair
of both. Four secrets give a rotation that is interrupted and two attempts after
it; four faults give a failed effect, a failed or lost line about it, a failure
within its rollback, and one in a later attempt. Five keys for two clients give
three replacements, so a client can be rotated again after a rotation that failed
and left a key. A release with the schema of the first and one with two migrations
more give both kinds of upgrade, one after the other, and a crash between two
files. A second process is needed for the window between preview and lock.
`Installation` is the largest state per process; with one mishap every single
call, crash or edit is tried at every point, followed by any command. A client is
handled after the other, so that one client shows each effect and its undoing.

`CHECK_DEADLOCK FALSE` stands in the runs whose bounded rows, operations, secrets,
keys, backups or requests run out (`SyncRuns`, `OperationJournal`,
`SecretRotation`, `KeyRotation`, `Upgrade`, `Installation`, `Delivery`); `sync_heads`,
`sync_liveness` and `external_catalog` keep the check. Symmetry is over ticks, jobs,
processes, clients, keys, secrets, backups, requests and scopes, and nowhere where
liveness is checked.

## 12. Fairness

`FairSpec` of `SyncRuns` assumes weak fairness of each tick's steps (an interval
timer fires for ever, in a process that is restarted), of each job's steps (its
promises settle: every call has a timeout), of the expiry of a lease nobody tends
and of `next_attempt_at` (the database clock advances). Nothing makes a heartbeat,
a push, an administrator or a bootstrap process take a step, and faults are
bounded. `EveryRunEnds` therefore says: as long as things do not go wrong for
ever, no run stays queued or running.
The other modules are checked for safety only: an administrative command that
stops is run again by a person, and a request is answered by its deadline.

## 13. Proofs

All constants are arbitrary in the proofs: any number of sources, ticks, rows,
faults, processes, operations, effects, clients, keys, secrets, requests, scopes,
revisions, releases, schemas, backups, trees, paths and things. The assumptions are those of the modules (`SizesAssumption`,
`BootstrappedAssumption`, `NoneAssumption`; `BoundsAssumption`, `FaultsAssumption`,
`NobodyAssumption`, `ContentsAssumption`; `RevisionsAssumption`, `AdvisoryAssumption`;
`ReleasesAssumption`; `PathsAssumption`, `NamesAssumption`, `TreeAssumption`,
`RevisionAssumption`; `ClientsAssumption`): numbers are numbers, paths and clients are
finitely many, a tree declares roots among the paths and every commit has one, "no one" is not a tick, process, revision or answer, an absent
or torn file is no secret, no revision is both imported and of the release, and the
release that is installed first is one. Nothing is assumed of how the schemas of the
releases are ordered: that an older release may know more than a newer one, or as
much, is no special case.

`SyncRunsProofs` proves `TypeOK`, `OneActiveRun`, `FencedHead` and
`NoCommitRegression`. `OneActiveRun` is inductive by itself only for the ways in
which rows are queued; the fenced properties need the strengthening

    IInv == TypeOK /\ OneActiveRun /\ TokensGrow /\ JobsHaveRuns
            /\ HoldersOwnRuns /\ ReadsAreRecent

`TokensGrow`: no token in a job or at a head exceeds that of the lease row.
`HoldersOwnRuns`: a job that holds its lease and has marked its run is the one
the row names, unless the run has ended, so a publication is made for a run that
is running. `ReadsAreRecent`: whoever holds the lease with an unpinned commit in
hand has read it no earlier than the newest published one, since a publication
in between would have needed the lease. The steps are grouped by what they
disturb: steps that only move a program counter, steps that write run rows,
steps that end leases, and the four that do more.

The same module adds `ResultIsFinal`, `RetryIsQueuedOnce` and `SuccessIsPublished`,
so that every safety property of `SyncRuns` is proved. `RowsMove` says what any step
does to the rows: each stays, goes on as an active one or is requested (`Alone`), or
some active runs fail and each gets a row of its own that names it (`Retries`); a row
that ends stays for good. `RetryIsQueuedOnce` needs `OriginsHaveEnded`: a row names as
its origin only a run that has ended, so one that is still active has no successor
when it fails, and gets one in the same step. `SuccessIsPublished` needs
`PublishedMoved`: as long as a job that has published holds its lease, the head is
under its token, because another job's publication would have needed that lease.

`OperationJournalProofs` proves all five properties of its run, `TypeOK`,
`SuccessIsProven` and `OneWriter` from

    IInv == TypeOK /\ LockOK /\ ProcsOK /\ OpsOK /\ SuccessIsProven

`LockOK`: only the holder of the lock has an operation; `ProcsOK`: the effects
before a process's step are done, and the target of a recovery is not the own
operation; `OpsOK`: what has not begun has an empty journal and no report, and a
success has a journal. Every action either keeps the lock (`HeldStep`), gives it up
(`EndStep`), takes it (`AcquireInv`) or never had it (`UnlockedInv`), and respects
finished journals (`Respects`).

On top of `IInv`, `NoteInv` says what a journal tells of the world, and gives
`NothingForgotten` and `PlainFailureIsClean`, neither of which is inductive: between
the action of an effect and its line, and while an interrupted recovery is resumed,
they hold for reasons that they do not state. `RunOK`, of the operation that a process runs: the
effects to come are absent and have no line; what is there is marked in the memory,
and what is there in part is unresolved in the file, but for the effect at hand,
whose intent is then the last line. `OverOK`, of an operation that nobody runs: what
is there in part is unresolved, or `Pending` (only its intent is in the journal, and
either that is the last line or recovery has begun to settle other lines), or
overlooked. `TargetOK`, of an operation that is recovered: what is there in part is
still on the list of the process, or will be overlooked. A line that recovery writes
is never about an effect that is there in part (`LineSpares`), so it settles nothing
too early. The appends are handled once, by four lemmas about a sequence and one
more line (`OneMore`, `MarkedMore`, `UnresolvedMore`, `IntendedMore`); the
exceptions in `NothingForgotten` are where they are needed, at the failed append of
`RecordUnproven` and at the `recovered` line.

`SecretRotationProofs` proves `TypeOK`, `DatabasePasswordIsKept`,
`PublishedIsKept` and `NoLostOwnership` from

    IInv == TypeOK /\ LockOK /\ ProcsOK /\ UsedOK /\ DatabasePasswordIsKept

That the password is on disk is not inductive: a step that removes a name must
know that the database does not want what is behind it. `ProcsOK` says, for the
one process that holds the lock, which stage and flags go with a place
(`PlaceOK`), where the new and the old secret are (`FilesOK`: for instance, what
the candidate stage may drop is not what the database has), and what the database
has been given (`ServiceOK`: the candidate is discarded only when the database
has the current file again). `FilesOK` also holds what `NoLostOwnership` needs:
from the check to the last word the ownership record has the count that the
preview saw. `UsedOK`: nothing outside `used` is in a file, so a fresh secret is
nowhere. `HeldStep` reduces each action of the holder to its own process;
`OverwriteKeeps` and `MoveKeeps` say which secrets survive a write or a rename.

`DisagreementIsRecorded` and `SuccessIsComplete` follow from `IInv /\ TidyInv`. Both
speak of every file that the record says is retained, so the proof must know that no
rotation harms what an earlier one has retained, also after one that failed between
any two calls. `Coherent` is what is left of that in every state without a command: if
the record is that of the current file, then whatever it retains has its file; in no
other state does a rotation get beyond its check. `KeptOK` says why it stays so: the
record is the one that the rotation has read or the one that it publishes, and the old
secret is retained as long as the new one is current. `ReachedOK` says what a rotation
without an error has made agree so far; after an error nothing of it is needed, because
`TidyOK` has an effect on record from the second stage on, and what is wrong then will
be asked about.

`KeyRotationProofs` proves `TypeOK`, `ClientIsServed` and `RecordsAgree`. The first
two follow from

    IInv == TypeOK /\ Distinct /\ AllWork /\ ClientIsServed

`Distinct`: no two bridges present one key. `AllWork` says of each rotation what its
place knows of its two keys: they are two and no other client's (`PairOK`), which
of them the bridge presents (`BridgeOK`), and that both are live and stored as long
as there is a way back (`BothWork`), which is why the rollback cannot cut the client
off. `RecordsAgree` adds `Agreement`: while no journal asks for recovery, nothing is
left of the other rotations, and a rotation at a careful place has live, stored and
written exactly what its place says. Here the places at which a failure is certain
to leave a journal behind need not be described.

`DeliveryProofs` proves all four properties of `Delivery`, for any requests, scopes,
revisions, capacity of the cache and number of changes, from

    IInv == request \in [Requests -> Req] /\ CatalogOK /\ MemoryOK
            /\ \A q \in Requests : RequestOK(q) /\ Accounted(q) /\ Forgotten(q)

The answers of a request are about the past, so `RequestOK` says what the place of a
request remembers of it. `FollowsOK`: a request that runs has witnessed how its
revision stands now, and knows that the chain has grown once it is past the head
that the request has read. `FoundOK`: a request that has found its revision, or has
not, was right at some time while it ran. `ErasureOK`: a request has erased nothing
before its one write. `Accounted` and `Forgotten` add to the last two properties what
holds before a write: a load that is not recorded yet is in no row and no erasure.
A step of a request either writes nothing (`QuietStep`), or is the one write of a
request that is over with it (`WriteCloses`, and `Others` for what the write does to
all other requests); a change of the catalog is witnessed by everyone at once
(`WitnessedStep`).

`UpgradeProofs` proves `TypeOK`, `SchemaIsKnown`, `SuccessIsComplete` and
`MigratesDrainedAndBackedUp` from

    IInv == TypeOK /\ LockOK /\ FloorOK /\ SchemaIsKnown /\ SuccessIsComplete /\ AllWork

`SchemaIsKnown` is not inductive: that the prior release may be started again rests
on what the rollback knows, that no migration was begun. `AllWork` says this of the
process that has the lock: which effect its call belongs to (`PlaceOK`), that from the
second effect on its backup is validated (`BackupOK`), that the schema is the one of
the preview until `migrating` is set and the target's from the readback on
(`SchemaOK`), that nothing runs where a migration may begin (`StoppedOK`), and which
release runs, is selected and is published (`TargetOK`, `PublishedOK`). `FloorOK`, no
schema goes back, makes the backup one of a schema that is not newer. The proof also
shows what the code relies on tacitly: of all the containers that would migrate on
their own, only that of the effect ever finds something to do
(`OnlyMigrationsMigrate`).

It proves `DisagreementIsRecorded` of `Upgrade` on top of that,
from `IInv /\ TidyInv`. `TidyInv` is about a time at which no journal asks for recovery:
without a command everything fits together, and of a command it says what has been
changed so far. As long as none of its effects is on record, that is nothing. From then
on a failure will be on record, and only the places at which no error has occurred
(`Going`) need a description: which backups are finished (`FinishedOK`), whether the
ownership record has the new one (`OwnedOK`), and where the launcher points
(`LinkedOK`). So an effect may leave anything (`BrokenTidy`), but not before its first
line is in the journal (`LeaveTidy`).

`ExternalCatalogProofs` proves all six properties of `ExternalCatalog`. The pure half
comes first. The revisions of a commit name one another, so the model builds them by a
recursive function; that this function has a value at all, for every tree, is
`RevisionsAreBuilt`. It needs no induction theorem of the library: `Healthy` is the
least closed set, so a set of skills for which revisions can be built that is closed has
all of them (`LeastHealthy`), and two ways to build them agree (`RightAgree`). From
the equation follows what the store relies on: what is proposed at a commit is one
revision a path, and closed under dependencies. The store follows from

    IInv == StoreOK /\ JobsOK /\ RestOK

`SnapshotOK` in `StoreOK` says of every snapshot, not only of the head, that it
observes the contents that the validation proposes for its commit and what it could not
read, and with a revision all that it depends on; `HeadIsTheCommit` is that of one
snapshot, and a verification may move the head to any of them. The proof has to show it
where `PublishNew` puts a revision that is already stored in the place of the proposed
one. `JobOK` says what a job knows before it publishes. The two action properties come
from `IInv` step by step: which steps publish (`PublicationOnly`), what each leaves of
the chain (`NewSettles`, `AgainSettles`, `RevokedStays`), and which of them can let
something out of quarantine (`OrdersKeepQuarantine`, `QuarantineEnds`).

`InstallationProofs` proves all three properties of `Installation`. Types are proved
together with `LockOK` (whoever is at work holds the lock, and nobody else is at
work) and `ShapeOK` (which command, client and list of records go with a place): for
instance, a step on the profile of a client needs that there is one in hand. Each action
has a lemma that says what it makes of its process and of the rest (`Becomes`,
`Working`, `Failing`), and the other two proofs use mostly these.

`RemovedIsGone` is about one write of the ownership, long after the removals that it
records, made from what was read before the lock. `DraftsOK` follows the draft from one
to the other. `RecordsOK`: as long as nobody has written the ownership since, what a
command has read of it is what is on disk; a repair that has read something else has
changed nothing in it, so it will not publish. `RemovedOK`: what the draft strikes off
is off the record already, or gone, or still to be removed by this command, and then
the command does not come to its publication before it is gone.

`RecordIsTrue` asks for both directions, and at the end of every command that has not
reported to have come to less. It follows from

    TruthInv == PlansOK /\ (trouble = "none" => the record is true without a command,
                                                and TruthOK of whoever is at work)

`PlansOK` is about the records alone. `Together`: the release and the volume stand and
fall together in every ownership record, and where they stand there is a service, on
record or struck off it; that is why a setup after a default uninstall may put only the
service back on record (`Redeployed`). `TodoOK`: as long as nobody has written the
ownership since the preview, a purge is to remove all that stands, an uninstall the
service if it is there, and a repair only what is on record. `TruthOK` says of the
command at work what has been changed so far. Without an effect in its journal
(`EffectsOK`) that is nothing that the record tells of; with one, a failure ends in
trouble, and only the places where nothing has been lost (`Going`) need a description:
what the draft tells of (`SetupTruth`: of the profiles alone until a fresh setup
concludes; `RemovalTruth`: of all but the service until "compose down"), which entries of
the client in hand are ours after each addition, and each inverse (`ClientOK`), and
whether the ownership on disk is the draft already (`LastTruth`, `Begun`). An inverse
that fails makes the client `broken`, and `broken` makes the result
`recovery-required`: this chain is what lets the proof leave out every state that a
failed inverse leaves behind (`UndoTruth`, `RevokeTruth`). What the user does takes
things out of every claim at once (`MeddleTruth`).

Only model-checked: `EveryRunEnds`, as liveness is out of the prover's reach.

## 14. Where the documents and the code disagree

Two disagreements have a run that shows them.

* `UninstallRemoves`: `specs/004-self-hosted-onboarding/contracts/
  administrative-cli.md:104` has a default uninstall remove the matching owned
  client entries. Setup records the identity of an MCP entry as the hash of its
  command, arguments and scope; the adapters observe it with the environment too.
  The two never agree, so the entry that setup made counts as drifted, and an
  uninstall that nothing disturbs is refused before it has begun.
* `PriorSecretRetained`: `specs/004-self-hosted-onboarding/contracts/
  administrative-cli.md:100` says that a rotation retains the prior secret until
  its commit. When the directory cannot be synchronized after the swap, the catch
  block of the swap renames the new file back to its candidate name and unlinks
  the retained name. Since the candidate had replaced the other name of the
  prior secret, the prior secret is gone, there is no current file, and the
  rollback that follows has nothing to apply. The database has the new secret,
  which survives as the candidate (`DatabasePasswordIsKept`, proved), and the
  command reports `recovery-required`; but the identity in both records is that
  of a secret nobody has.

The others were met while modelling. They follow from the actions, and no run is
spent on them.

*Synchronization.* `recoverAbandonedJobs` (`persistence/postgres/
github-source-store.ts:1057`) queues a run again without comparing its attempts with
the maximum, so a run that kills its process is attempted until the CHECK of the
column, 100, stops it; `docs/source-administration.md:51` speaks of bounded
retries. The catch of the scheduler (`lifecycle/github-sync-scheduler.ts:235`)
records a cancellation with the aborted context, whose transaction refuses, so a
shutdown leaves its runs running, against `specs/002-github-catalog-ingestion/
ingestion-state-machine.md:57`. The bootstrap command (`ingestion/
bootstrap-cli.ts:47`) has no lease, so one that was overtaken moves the head back,
against `specs/002-github-catalog-ingestion/security.md:156`; among leased jobs that
cannot happen (`NoCommitRegression`, proved). A rate limit that resets in more than
a week makes `failSyncRun` throw, which is swallowed.

*Catalog.* A blob that cannot be fetched for a transient reason is a finding, and
the snapshot that lacks its skill becomes the head (`application/services/
source-synchronization-service.ts:784`), where `ingestion-state-machine.md:87` keeps
the old one. A skill that depends on one that has not changed since an earlier commit
makes every later commit with a changed dependent a conflict (`persistence/postgres/
external-catalog-store.ts:1092`), and so does a skill that is renamed in its
directory. The counter of absences is reset only by a publication that succeeds.
Superseded revisions of a root that is removed get no advisory. A verification of a
candidate of an older snapshot moves the head back. The search for cycles of
dependencies visits a skill once, so it misses members of cycles that overlap; they
are taken out as dependents, under another finding.

*Delivery.* The head of the advisory chain and its events are read by two queries at
READ COMMITTED (`persistence/postgres/imported-skill-catalog-provider.ts:76`): an
advisory appended between them, for any revision, makes the chain invalid, and a
revision that was available all the time is refused. A revision quarantined between
the second and the last look is reported as available (`application/use-cases/
load-skill.ts:83`). A load that was under way when a forget was confirmed records
its use after it (`ForgottenStaysForgotten` speaks of loads that had ended). A COMMIT
in flight may be done after the 503. A first-party revision that is unavailable and
has been evicted from the cache is never served again.

*Recovery.* Repair tells `recoverOperation` that every effect is ambiguous
(`onboarding/application/production-lifecycle.ts:1152`), so an operation whose only
effect is absent blocks every repair, against `specs/004-self-hosted-onboarding/
contracts/release-and-recovery.md:223`. `recoverOperation` overlooks a trailing intent
when earlier effects are unresolved (`Overlooked`). When the line that an effect is
unproven cannot be written and the cancellation can, the journal asks for nothing
(`unrecorded`). A torn line makes the scan, and so every repair, throw (`damaged`). A
repair without actions is refused its success for lack of a verification
(`CommitRefused`). A setup cancelled after a finished effect has a terminal journal
that recovery may not append to (`RecoveryRefused`).

*Key rotation.* A revocation of the old key that takes effect and is reported as
failed sends the bridge back to that key, and the replacement is withdrawn too
(`onboarding/application/client-credentials.ts:111`), where `administrative-cli.md:82`
retains the old working key; `ClientIsServed` excepts this by `deadly`. After a
crash between the switch of the bridge and the publication of the ownership, each
further rotation is refused for want of a matching ownership record. Every failure
after the first effect has begun ends as `recovery-required`.

*Upgrade.* An upgrade tried again after a crash behind the activation may roll back a
release that is selected and serving (`onboarding/application/upgrade.ts:193`). The
backup is taken before the writers are drained, as the contracts order it;
`docs/operations.md:44` has writers stopped first for migration 010. A launcher that
exists must have the content of the target, so one of the prior release makes the
upgrade fail. A stopped container counts as a matching one to repair. A backup that
could not be removed after a failure stays, owned by nobody. After a failed drain the
report says that the prior release has been restored, while the application is stopped.

*Installation.* `complete` is to mean that every selected client is verified
(`specs/004-self-hosted-onboarding/data-model.md`); `clients uninstall` of a client
that was never installed turns any status into `complete`. A continued setup
swallows the failure of a revocation and `revokeCredential` never removes the entry
of the bridge, against FR-015. A default uninstall that was interrupted can neither
be retried nor repaired, and an interrupted journal of any kind blocks repair for
good. The inverse of the plugin is not guarded by a post image. After a setup that
follows a default uninstall, the launcher and the release stay "retained", so every
later setup fails. Repair makes entries anew that `clients uninstall` has removed, and
always ends as incomplete, since it has no action for secrets. A setup after an
uninstall that fails leaves the service up under the status `data-retained`; uninstall
then says that there is nothing to do, and purge fails at the volume in use. An entry
left by a failed compensation is adopted as the user's. `clients uninstall` reads
`installation.json` and `bridge-state.json` before it has the lock and writes them back
after. A fresh setup that dies before its publication leaves a deployment that no
record knows. A token that was stored and cannot be read back may stay. A setup that
throws leaves a journal that asks for recovery even without an effect.

## 15. What is not modelled

Every component without a module has its reason in `PROJECT.json`. In short:
ranking, canonical forms and signature checks are pure functions of text and
bytes, and of the parsing only its results matter; wiring, logging, formatting,
HTTP routing and the evaluation scripts keep no state of interest; the rest is
planned below. Within the modelled components: wall-clock times and rates (so
neither a source that is queued again at once after a terminal failure, nor
heartbeats that wait for a row lock), the wording of reports, ids and time stamps,
the death of the lock's child process alone, a power loss that undoes renames, and
PostgreSQL's isolation except where two queries of one transaction see different
states (`Delivery`): elsewhere transactions are atomic and ordered by their row locks.
`onboarding/application/setup.ts` and `profile-transaction.ts` have tests and no
caller in production.

## 16. Plan

In this order, each with its MC module, invariants, mutants and theorems:

1. An atomic switch as abstract specification of `SecretRotation`, `KeyRotation` and
   `Upgrade`, and the refinements.
2. `DiscoveryRuns`: searches with checkpoints, on `SyncLease`.
3. Readiness and the credential bridge.
