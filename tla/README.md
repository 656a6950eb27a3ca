# Verification of the prediction-market monitor

TLA+ models of the monitor: the collection control plane, the collector and its
source adapters, the freshness verifier, the analysis queue, identity, daily
reports with their retention, and the release operations around them. TLC checks
them on small instances; the results under *Proofs* are proved with TLAPS for
every value of the constants.

## 1. The system

The API keeps all state in PostgreSQL. GitHub Actions workflows run the
collector, the verifier and the migrations as clients of the API or of the
database; a web server and its browser tabs, a daily cron invocation, an
analysis worker, operators and an administrator act on the same tables.
Components talk through rows only. A repository method opens a transaction,
locks the rows it decides on and commits or rolls back as a whole, so one
transaction is one action; where a component reads in one transaction (or before
a lock, or from GitHub) and writes in another, the model has two.

| Component | State | Operations | What is hard |
|---|---|---|---|
| Scheduler grid (`slots.py`, `slot_store.py`) | `scheduler_cursors`, `collection_slots` | materialize | clock read before the row lock; first-insert race; catch-up after an outage |
| Commands and leases (`dispatch.py`, `command_store.py`) | `collection_commands` | reserve, confirm, claim, heartbeat | stale collectors, attempt limit, timeouts |
| Claim policy, authorization | `community_sources`, decisions, budgets | checks at claim, page, skip, completion | an authorization that changes between claim and completion |
| Pages and checkpoints (`page_*.py`, `checkpoint.py`) | `page_commits`, `source_checkpoints`, runs | commit page, replay | compare-and-swap between attempts and commands; replays; caps |
| Completion, recovery, skips | runs, receipts, publications | complete, recover, attach proof | all-or-nothing; races the live collector; one refused command fails all |
| Collector client (`collector_*.py`, `control_plane_*.py`) | one process | the call sequence, each call repeated once | lost answers, crashes, subset retries |
| Adapters, normalizer, post store | posts, versions, page items | preflight, fetch, classify, persist | a feed that changes between pages; duplicates, edits, caps |
| Freshness verifier (`verification*.py`) | snapshots, observations, a slot cursor | snapshot, observe, report | overlapping transactions, lost answers, skewed clocks |
| Analysis queue (`analysis/`) | queue rows, analyses, proofs | lease, heartbeat, acknowledge, recover | dead and late workers |
| Identity (`services/identity`, web server) | sessions, principals, nonces, limiter | login, rotate, logout, exchange | two tabs, lost cookies, clocks read early |
| Daily jobs and revisions (`reporting/daily*.py`) | job rows, report versions | claim, reconcile, append, finish | overlapping and dying invocations; stale snapshots |
| Report formula (`reporting/`) | none: a function of facts | assemble, project, reproduce | borders of days, ties, partial damage |
| Retention (`reporting/retention*.py`) | raw rows, manifests, tombstones | clean, tombstone, expire | concurrent passes; rows that cannot be deleted |
| Cadence evidence (`services/release/cadence*.py`) | epoch, slots, attempts | record, invalidate, report | re-runs, retries, duplicate posts |
| Activation and bindings | transition log, GitHub binding, source row | bind, handshake, reserve, commit, repair | GitHub writes without transactions; crashes; three lock namespaces |
| Incident and rollback | the same log, content, GitHub objects | contain, purge, verify, finalize | partial deletion; state read before it is used |
| Release ledger and migrations | roots, reservations, receipt chain | dispatch, claim, complete, upgrade, downgrade | re-upgrades; operations between read and downgrade |

Configuration, dashboard reads, routes and wiring, the offline release gates and
the rendering of the web front end are in `PROJECT.json` with the reason they
are left out.

## 2. Modules

| Module | Models | Checked through |
|---|---|---|
| `SchedulerGrid` | `slots.py` as operators, `slot_store.py` as calls in flight | `MCProgress` |
| `CollectionControl` | commands, runs, pages, checkpoints, sources, publications, receipts | `MCCollectionControl`, `MCProgress` |
| `CollectorClient` | the collector process, composed with `CollectionControl` | `MCCollectorClient`, `MCProgress` |
| `SourceIngest` | four adapters over a changing feed, normalizer, page items, post store | `MCIngest` |
| `Verifier` | snapshots, observations, verifier command | `MCIngest` |
| `AnalysisQueue` | leases, retries, capability gate | `MCAccess`, `MCProgress` |
| `AdminSessions` | tabs, cookie, web routes, session rows, limiter | `MCAccess` |
| `ServiceTokens` | token cache, exchanges, principals, worker nonces | `MCAccess`, `MCProgress` |
| `Cadence`, `CadenceSlots` | recorder, stores, gate; the walk over the window | `MCCadence` |
| `DailyReports`, `ReportRepository` | jobs, leases, revisions; the append contract they implement | `MCDailyReports`, `MCProgress` |
| `ReportFormula` | facts to records, coverage, manifest, report, reproduction | `MCReports` |
| `Retention` | batches, cleanup, tombstones, expiry | `MCReports`, `MCProgress` |
| `SourceActivation`, `IncidentRestore` | transition log and its commands; the second extends the first | `MCRelease` |
| `ReleaseLedger` | ledger tables, dispatches, claims, migrations | `MCRelease` |
| `CollectionProofs` | theorems about leases, the page log, runs, outcomes, publications, receipts and the client composed with them | TLAPS |
| `ReleaseProofs` | theorems about the ledger and about the activation with its restoration | TLAPS |
| `IngestProofs` | theorems about ingestion and about the freshness verifier | TLAPS |
| `CadenceProofs`, `SchedulerGridProofs`, `DailyReportsProofs` | theorems about the component each extends; `CadenceProofs` also about the slots | TLAPS |
| `ReportsProofs` | theorems about retention and about the reproduction of a report | TLAPS |
| `AccessProofs` | theorems about the analysis queue, the sessions and the tokens | TLAPS |

Components that share no state are checked in one MC module: its variable
`part` is chosen initially and never changes, and says which component (or which
instance of one) the behaviour is about; the others stay as they were. An MC
module extends the component whose theorems the runs check, so that the properties
and the assumptions it evaluates are those of the proofs, and takes further
instances of it by INSTANCE. In
`MCDailyReports` all parts have the same constants, and `part` restricts which
steps are taken how often, so that its states are states of `DailyReports`. Where
components do share state they are composed: `CollectorClient` extends
`CollectionControl`, `IncidentRestore` extends `SourceActivation`. A property of
a part is guarded by `part = ...`.

The header of each module says how its state stands for the code's. The
decisions that matter most:

* **SchedulerGrid.** A call is split where it can be overtaken: `ReadClock`
  before the lock, `FindNoCursor` when there is nothing to lock, then the insert
  or the rollback. The same transaction recovers the scope's commands, so a
  recovery that raises (`recoverable`, see disagreement 1) takes the slots back
  with it. The unique index on due slots is left out, so `GridSound` shows that
  the cursor alone prevents duplicates.
* **CollectionControl.** `age` and `wait` are the distances a command's
  timestamps are compared by; `pages[r]` also stands for the run's hash chain;
  reservation *n* of a command has lease *n*. Requests carry any attempt, lease
  and payload, so delayed, duplicated and stale requests are included and a
  crash is a client that stops. Replays and rejections are stuttering steps. The
  budget level a claim meets is a free choice. `AttachSkip` with a policy proof
  is modelled as the handler commits; whether the authorization trigger accepts
  the flush depends on the ORM's order of statements.
* **CollectorClient.** Every call may lose its request or its answer and is
  repeated once with the same payload; a refusal ends the process except a 409
  on a page commit. One process lives at a time (`collect.yml`'s concurrency
  group).
* **SourceIngest.** A text is one of the classes that the normalizer, the size
  limits and the contracts tell apart; a market that stands as its last comment
  is one of them. Parsing is its outcome. A listing is a set of posts read
  downwards from the newest, a page the set of its items, one for each of its
  posts. A process is stale when a later run has been claimed; its pages still
  arrive.
* **Verifier.** Both calls are REPEATABLE READ transactions that read at begin
  and write at end. A completion reads the clock that becomes `finished_at`
  (`BeginCompletion`), and a snapshot may be taken before it commits
  (`CommitCompletion`) or rolls back; the unique index on active runs keeps a
  source to one at a time.
* **AdminSessions, ServiceTokens.** Tokens are row numbers; signatures, password
  hashes and claim parsing are verdicts. One clock stands for the web server's
  and the API's: what the cache's margin is worth between two clocks is not checked.
* **DailyReports.** The attempt number stands for the random lease of a claim. A
  reconciliation reads facts and versions in one step and appends in another.
* **ReportFormula.** Times are hours, names are numbers in the code's text order,
  a digest is an injective pair. Rounding of decimals and JSON text are left out.
* **Retention.** What the database rejects (restrictive keys, the tombstone
  check, immutability triggers) is `Rejected`; a rejected transaction ends the
  pass. A batch is the set of rows a pass has read and not cleaned yet: their
  order never changes, so the next one is the first of the set.
* **Cadence.** A recorder call is one step under the epoch's advisory lock; runs,
  re-runs and posts interleave around it. The recorder takes any run attempt; the
  workflows test that it is 1, so a re-run of theirs posts nothing and the model
  allows more than they do. `CadenceSlots` has the real numbers:
  240 and 2,880 slots from any anchor hour.
* **SourceActivation.** The binding script (`Program` is its steps) commits
  several transactions under a session lock with GitHub writes between them and
  may die at each; an `activate` phase uses the clock of the moment it began to
  wait; a migration takes no lock. `transition_at_db` is the start of a row's
  transaction: a row that is committed at once sorts last, one that waited takes
  one of the places of `Stamps`, before or after other waiting ones. No two
  rows have one time; `Overtaken` says that a row sorts before one committed
  earlier.
* **ReleaseLedger.** A receipt is its identity; each migration 0010 to 0011 is
  an operator on the tables, and what it reads and checks are its guards. An
  operator goes by hand where one correction leads, and in one command two steps
  only from 0011 to 0010g (`ShortPath`); the workflow takes any path. A run is
  admitted only if its checkout's one alembic head is 0011 (`Admitted`). The
  commit at hand has 0013, and `Checkouts` also holds a commit of the time when
  0011 was the head: what the runs of such commits do to the ledger is what the
  properties are about.

## 3. Runs

| Run | Instance | Question |
|---|---|---|
| `control_sources` | 1 command, 2 sources, 2 attempts, 2 pages | leases, settled sources, publications and ended runs over mixed outcomes |
| `control_stream` | 1 source; 2 commands with provider cursors, or 1 command under all budgets and 2 decisions | one log per source, exclusive checkpoints, outcomes that follow pages, repeatable receipts |
| `client` | 1 command, 2 sources, all provider answers, a fault, outside changes | does the process stay in step; does success mean published |
| `access` | 2 tabs; 2 callers and 2 scope sets; 2 jobs and a signed request; 2 workers | sessions, tokens, nonces and leases |
| `cadence` | 1 slot with re-runs and retries; 2 slots; both stores; the real window | earned credit, exact slots, kept evidence |
| `release` | 5 starting points of the log, 5 of the ledger, 3 moves, 2 runs | anchor, binding, chain and tables agree |
| `ingest` | 4 platforms, 3 posts, 2 feed events, 2 or 3 runs; verifier with 2 runs of a source and 1 call, or 1 run and 2 calls, and 2 open transactions | stored rows, version order, coverage of a walk, sound observations |
| `daily` | 2 invocations; 3 contents of a date, 2 dates with 2 faults, 3 dates | leases, gaps, revisions; refinement |
| `reports` | 2 passes, 3 rows, 2 manifests; five small sets of facts | provenance, expiry, formula, reproduction |
| `progress` | seven parts under fairness | everything that must happen in the end |
| `blocked_recovery` | the control plane alone, 1 command, 2 sources | disagreement 1 |
| `ingest_cap` | ingestion alone | disagreement 2 |

The invariants of a run are conjunctions of named parts: `SessionsSound`,
`DailyJobsSound` or `LedgerAgrees` list what they consist of, and each part has its
own comment.

**Refinement.** `ReportRepository` is the in-memory adapter of
`reporting/repository.py`, whose docstring calls it the behavioural reference:
per date a history to which a revision is appended when its identity is new.
`ImplementsRepository` says that `DailyReports`, with snapshots, locks, unique
constraints and concurrent invocations, implements it under the mapping of each
version to its input hash.

**Bounds.** The code relates one row to one other, so two sources, commands,
tabs, invocations, passes or runs are enough for an interaction; a third (posts,
dates, attempts) is used where an order of three matters. Two attempts reach
every retry and the limit. Two pages give a capped and an uncapped one; the soft
limit then leaves one page and the hard stop none. Clocks run as far as the
longest interval plus one unit: a lease, a session, a window expire inside the
bound. The log of `release` may grow by 1 to 3 rows from each of its starts
(`LogBounds`), and its clock far enough to miss a cutoff (`ClockBounds`);
`EitherFirst` lets each of two waiting transactions begin first. The constraint
of `control_stream` explores two commands under the plainest policy and one
command under every policy, and not their product.
Symmetry (commands, sources, tabs, runs, invocations, passes) is used for safety
properties only. `CHECK_DEADLOCK FALSE` stands where a system whose work is done
within the bounds has nothing left to do; `daily` checks deadlock.

**Fairness** (`progress`) is what the schedules promise, restated for each part:

* time passes; the cron of `collect.yml` materializes and that of the platform
  starts daily invocations and retention passes; expired leases are reclaimed;
* a started call, process, invocation or pass takes its next step, or ends at its
  timeout (the transports and the token provider have one);
* strong fairness only for a workflow start that materializes: starts with a
  given command may come in between for ever (`StartWorkflow`).

`EveryDueSlotAppears` further assumes that from some time on a source is enabled and
recovery no longer raises; both are needed. Nothing is promised of a collector in `CollectionControl`, nor of an analysis
worker: they may stop anywhere. Faults are bounded by `MaxFaults`, fewer than
attempts.

### Disagreements with documents, comments and tests

With a run:

1. `AbandonedRunIsTerminalized`: recovery raises 403 while the source of a
   running command is disabled or its approval has expired. A collector dies, the
   approval expires, and `materialize`, called for ever, fails every time: the run
   is never terminalized, and no other command of the scope is materialized or
   reconciled, although a source is enabled.
2. `PageGetsResult`: the Reddit and Manifold adapters count stored posts towards
   the post cap, the server only new ones; a page that ends at the cap over
   stored posts is refused as a whole, in every run. An edit back to an earlier
   text is refused by a unique constraint in the same way.

Stated as properties under "What the documents say and the code does not do" in
the modules (TLC refutes each when it is put into a configuration), without a
run of their own:

| Property | Module | What happens |
|---|---|---|
| `ExhaustedIsTerminal` | CollectionControl | a retryable failure on the last attempt is due for ever |
| `CompletionReplayReturnsReceipt` | CollectionControl | a retryable completion cannot be repeated: its lease is cleared |
| `PageReplayReturnsCommit` | CollectionControl | the page-cap marker changes the hash of a repeated page |
| `ClaimIsExact`, `EveryCommandTaken`, `FailureGetsOutcome`, `SuccessIsOneSlot` | CollectorClient | subset retries, a refused head of the line, a first 429, a backlog of halves |
| `DeniedHoldsNoLease` | AnalysisQueue | a denial leaves the lease in the row |
| `RefusedOnlyIfRevoked` | ServiceTokens | an exchange with the earlier clock is called revoked |
| `OneRetryPermit`, `PostIsRetained` | Cadence | two failed first attempts of a slot, and a third run of it |
| `ChangedInputAppends` | DailyReports | facts that return to an earlier value |
| `VersionsGo`, `PublicationsGo`, `ExpiredReportsGo` | Retention | immutability triggers and restrictive keys reject the deletion |
| `EveryExpectedComplete` | ReportFormula | a reviewed source without a row has no coverage item, so a report is complete without it |
| `MatrixBProceeds` | IncidentRestore | after the downgrade, the restore it calls for is refused |
| `OneAnchor` | IncidentRestore | `persist_reserve` inserts "an idempotent cadence epoch and anchor-reserved transition"; when the handshake's row has a successor that sorts before it, the epoch is inserted and the transition is not, the phase is accepted, and another reservation adds a second epoch. `finalize-github` and `commit` may then be given different anchors. |

`PROJECT.json` quotes each with file and line, and one without a property: the
documents say that the one alembic head is 0011, the dispatch validator requires
it, and 0012 and 0013 exist, so that no run of `migrate.yml` on this commit
reaches its claim.

Seen while modelling, and not a property of any module:

* release: the completion route does not list the command name that `migrate.yml`
  sends for the downgrade to 0010h (`Command`, `AllowedCommands`), which no run
  reaches while the head is not 0011; the failure steps of `migrate.yml` lack `always()` and the workflow
  has no concurrency group; no command writes a receipt that `chain()` accepts
  for a failed commit; after `reprepare`, `ensure_intent` always conflicts, so a
  second generation is never bound; 0013 raises for a source activated by the
  current code; content stored between commit and anchor is never purged and
  keeps an incident in `PRIVACY_HOLD`;
* ingestion: the halved post cap of conserve mode is not enforced by adapters; a
  DCInside post deleted between listing and view fails the run; a heavy comment
  at the head of a Manifold feed blocks what is behind it; authorization is
  checked once per page;
* verifier: a repeated observation is a conflict, so a workflow reports failure
  although the verdict is recorded; concurrent first snapshots may refuse each
  other;
* cadence: no workflow of the repository records the first attempt that a retry
  must name; the release scripts' store does not look at it;
* commands: the aggregate covers the current attempt only, so a command ends
  `succeeded` although another source failed for good before; attaching a policy
  proof depends on the ORM's flush order.

## 4. Proofs

Each theorem holds for every value of the constants that satisfies the named
assumption of its module: `ControlAssumption`, `ClientAssumption`,
`IngestAssumption`, `VerifierAssumption`, `GridAssumption`, `SessionAssumption`,
`CadenceAssumption` with `NoneAssumption`, `LedgerAssumption`,
`ActivationAssumption`, `IncidentAssumption`, `DailyAssumption` and
`RetentionAssumption`. `TokenAssumption`, `QueueAssumption` and `SlotsAssumption`
are hypotheses of the theorems, which `MCAccess` and `MCCadence` assume for TLC.
They give the constants their types: a marker such as `None` is none of the values
it stands beside, posts are numbered, the source order names each source once.
Beyond that they say only what the code's settings say: a reservation goes stale
no later than an execution, a session is rotated before its lifetime ends, a nonce
is kept for longer than a signed request may be old, and the expected slot counts
fill the window.

| Theorem | States | Invariant it rests on |
|---|---|---|
| `TypeCorrect`, `LeasesMatchAttempts` | `TypeOK`, `OneLeasePerAttempt` | `Ledger` |
| `PageLogInvariant` | `CheckpointIsLog` | itself, with `TypeOK` |
| `RunsInvariant` | runs follow their command | `RunsInv` |
| `CheckpointHeld` | `ActiveRunOwnsCheckpoint` | `RunsInv`, `RunningHold` |
| `EndedRunsStay` | `EndedRunsAreFrozen` (action) | `RunsInv` |
| `SettledOnce` | `SettledSourceNotRepeated` | `RunsInv` and itself |
| `OutcomesFollowPages` | `OutcomeFollowsPages` | `RunsInv`, `OutcomeInv` |
| `PublishedOnceEach` | `PublishedExactlyOnce` | `RunsInv`, `RunningHold` and itself |
| `ReceiptsReplay` | `SettledReceiptReplays` | `RunsInv`, `ReceiptInv` |
| `ControlInvariant` | all of the above together | itself |
| `ClientImplementsControl` | collector and transport refine `CollectionControl` | `ControlInvariant`, `ClientInv` |
| `ClientStaysInStep` | `ClientInStep` | `ControlInvariant`, `ClientInv` |
| `SuccessPublished` | `SuccessMeansPublished` (action) | `ControlInvariant`, `ClientInv` |
| `IngestInvariant` | types, leases, pages, dates, versions, walks | `IngestInv` |
| `RowsAreOneRecord`, `RevisionsAreInOrder`, `WalkIsCovered` | `RowsAgree`, `RevisionsInOrder`, `WalkCovers` | `IngestInv` |
| `VerifierInvariant` | snapshots, transactions, answers, verdicts | `VerifierInv` |
| `RecordIsSound`, `ReportedIsRecorded` | `RecordSound`, `SuccessIsRecorded` | `VerifierInv` |
| `GridIsSound` | `GridSound` | `GridInv` |
| `QueueIsSound` | `QueueSound` | `QueueInv` |
| `TokensAreSound`, `ExchangedOnce` | `TokensSound`, `RequestExchangedOnce` | `TokenInv` |
| `SessionsAreSound` | `SessionsSound` | `SessionInv` |
| `FreshCsrfStands` | `FreshCsrfAccepted` (action) | `SessionInv` |
| `CadenceInvariant` | clocks, runs, rows, pointers | `CadenceInv` |
| `CreditIsSound` | `CreditSound`, where only the recorder writes | `CadenceInv` |
| `CreditIsOneAndTimely` | its parts that hold also beside the release store | `CadenceInv` |
| `EvidenceIsKept` | `EvidenceKept` (action) | `CadenceInv` |
| `SlotsAreExact` | the part of `EpochIsExact` about the real window | `WalkInv` |
| `LedgerInvariant`, `LedgerIsOneAccount` | `LedgerAgrees` | `LedgerInv` |
| `OperationsAreKept` | `OperationsKept` (action) | `LedgerInv` |
| `ActivationInvariant` | log, script, waiting transactions, incident, GitHub | `ActInv` |
| `AnchorsAgree`, `RestoredIsBack` | `AnchorAgrees`, `RestoredBindingBack` | `ActInv` |
| `DailyJobsAreSound` | `DailyJobsSound` | `DailyInv` |
| `RepositoryImplemented` | `ImplementsRepository` (refinement) | `DailyInv` |
| `ProvenanceIsKept` | `ProvenanceKept` | `RetentionInv` |
| `RemovalsAreDue` | `NothingEarly` (action) | `RetentionInv` |
| `OnlyWholeIsReproduced` | `OnlyWholeReproduces` | `RetainedInv` |

Each proof has one lemma per action, and lemmas about what the action writes, so
that the step needs few facts. Why an invariant is stronger than the property:

* **Leases and the page log.** The types alone are not inductive: `Reserve`
  increments `issued`, which stays within `MaxAttempts` only because it equals
  the attempt number. `CheckpointIsLog` is inductive with the types: no step but
  `CommitPage` moves a revision or a cursor, and a commit adds exactly one
  position at the revision the compare-and-swap found. Neither leases nor the
  unique index are used: the compare-and-swap alone carries the argument.
* **Runs.** `RunsInv` adds that a run nobody claimed has no pages and that runs
  follow their command. Completion and recovery are one step in the proofs,
  `Finishing`: each finishes runs that may finish and publishes the winners, so
  whatever holds for it holds whoever ends the run. `StepShape` splits the
  next-state relation that way, once for all theorems.
* **Client.** Every step of the composed system is a step of the control plane or
  leaves it alone (`ClientImplementsControl`), so all theorems above hold of it.
  `ClientInv` says what the process may rely on at each of its calls: before the
  claim nothing is kept (`ClaimInv`); while it collects it holds every run of its
  command and its position is its run's (`CollectInv`); at completion either it
  still holds them, or a completion whose answer was lost has published exactly
  its successful runs (`CompleteInv`); and what it was told of is still the last
  publication of each source (`MadeInv`).
* **Ingestion.** Versions are numbered in the order of their times only because
  what a live process fetched is no older than any stored version (`Timely`) and
  one process has the lease at the stored position (`Leased`). That versions
  cannot outnumber the changes of the feed needs that one text of a post is known
  of one time (`Dated`). `WalkCovers` needs more than what is stored: a page under
  way holds the walked posts it will have passed (`PageCovers`), so that a commit
  moves the cursor past no post it does not store (`Covered`).
* **Verifier.** A completion stamps its finish time before it commits, so a
  snapshot in between does not show it. Because runs of a source follow each other
  (`OneActive`), that is the only one it can miss: every other run that had
  finished is shown, and the later ones finish after it (`SnapshotTrue`, kept by
  each of the three completion steps). "Sequence at least" therefore finds the
  snapshots that showed a run or a newer one. A record transaction that passed its
  checks keeps a committed snapshot that saw each run in time, and writes only
  over the cursor it began with; the transaction a command waits for carries its
  own request.
* **Grid.** `GridIsContiguous` fixes the cursor only indirectly. `GridInv` adds
  that the cursor is a grid point, that without a row there is none, and that no
  call holds a clock from the future. The rest is arithmetic of one period with
  quotient and rest. No unique index is needed.
* **Analysis queue.** A lease is counted against the attempt number of its row,
  the token of a row that is leased is the last one granted, and a row that can
  be leased again has no analysis.
* **Tokens.** Credentials only grow (`CredentialsGrow`). An exchange that was
  issued is therefore covered by its credential until the token expires, and so
  is what it brings into the cache, in whatever order exchanges register.
* **Sessions.** A replacement session that no answer has delivered yet is known
  to no other tab, an answer under way explains every cookie that is not live,
  and the attempts under way are all that can still pass the limiter. Sets of
  attempts are compared by cardinality, hence the finite sets.
* **Cadence.** What a run carries from its start to its post (`RunSound`) and
  what a row's verdict rests on (`RowSound`): a row is written once, and an
  attempt that permits a retry never gains credit, so the proof of a retry stays
  valid. With the release scripts' store beside the recorder that last part is
  lost, hence two theorems. `WalkInv` says that the walk of the window is a
  multiple of the interval past its first slot.
* **Ledger.** `LedgerSound` is what roots, proofs, reservations, operations and
  chain owe each other at every revision, also where there is no chain and the
  next upgrade builds it from the tables. A migration that has begun knows the
  database as it was (`Begun`): its root is unused while it is not committed, and
  no other downgrade passes 0010a once one has read its correction there.
* **Activation.** `BindingSound` says what GitHub holds at each state of the log
  and each step of the script, `AnchorsSound` where each anchor in use comes
  from, `Rotated` what a second generation leaves behind, `ChainSound` that the
  receipts of a restoration begin with the binding's. Rows are compared by times
  that waiting transactions bear before they commit, so these times are no
  row's yet (`HeldSound`).
* **Daily jobs.** `NoGap` needs that a walk claims only dates that fit: next to
  a success, or the last date of a walk that saw none, and at most one midnight
  away; and that it goes on only after a success. Exclusive leases need that a
  row's attempt is at least every attempt held for it; `RevisionsAdvance` that a
  snapshot is not older than the versions it has seen.
* **Refinement.** Under the mapping of versions to input hashes the initial
  states agree; `DailyReports` appends only while no version was committed since
  the snapshot and the latest has another identity, which is an append of the
  reference repository; every other step leaves the histories alone.
* **Retention.** `ProvenanceKept` needs that a tombstone ends with the last
  manifest of its slice, so that a last one exists: all times are bounded, and a
  bounded set has a greatest element (`GreatestOfBounded`, by well-foundedness).
  `NothingEarly` needs that what a pass has read is still due when it comes to
  it, also next to other passes and with a later clock.
* **Reproduction.** Every retained report has all its fields and a manifest that
  passes the recount, also after a replacement by another report's fields; then
  the digests and the projection decide.

What stays with TLC, and why:

* `CollectionGoesOn`, `NobodyWaitsForever`, `DailyWorkDone`,
  `EveryDueSlotAppears`: liveness under fairness is outside this prover;
* `ReportSound` and `OutsideIgnored`: they compare what sorts, selections and
  folds over the rows of a snapshot compute with a definition. The prover has no
  definition of `SelectSeq` and `SortSeq`, and what a fold returns for every input
  takes induction over data; the library's induction theorems have an operator
  parameter that no installed prover can instantiate;
* `EpochIsExact` as a whole is a statement about three fixed instances in
  `MCCadence`. Each of its parts is proved for all instances: `SlotsAreExact`,
  `CreditIsSound`, `CreditIsOneAndTimely`.

## 5. Plan

What is left: lock acquisition orders of the repository methods, as a model of
their own (see the first point of the next section).

## 6. Not modelled

* Lock orders: a repository method is one action, so a deadlock between
  `commit_page` (run, then command) and `heartbeat` (command, then run), which
  PostgreSQL resolves by aborting one, is a lost call here.
* Row locks that are granted out of order: `CURRENT_STATE` of an activation takes
  `LIMIT 1 FOR UPDATE` and may go on, after waiting, with a row that is no longer
  the latest; the model reads the latest one.
* Clocks of invocations that differ: a job whose `available_at` is later than the
  clock of the invocation that asks for it is busy in the code.
* Parsing of HTML and JSON, decimal text, canonical JSON, hashing and
  signatures: their outcomes are choices or identities.
* Configuration loading, dashboard reads, routes and wiring: no state of their
  own. Rendering, filters and charts of the web front end.
* Offline release gates and evidence scripts that only compare files: captures
  of provider and deployment state, free-tier measurements, scope and artifact
  checks.
* Migrations that only create tables, and the idempotent log of administrator
  commands.
