# Folio Insights in TLA+

TLA+ models of `folio-insights`, the TLC runs that check them on small
instances, and TLAPS proofs for every value of their constants. The models cover
the parts in which several processes, threads, requests or operators work at the
same time, in which something may fail half-way, or in which a derived answer
must agree with what it is derived from. Paths that begin with `api/` or `viewer/`
are under `src/`, all others under `src/src/folio_insights/`; `PROJECT.json` maps every
definition to the lines it models, and lists the hazards of the code at their lines.

## 1. The system

Folio Insights extracts units of legal knowledge from documents with an LLM,
lets reviewers decide them, and publishes accepted ones as signed, revisable
*shards* in a corpus. A corpus lives in SQLite files and an Oxigraph store on one
host. Several processes use them at once: API servers, each with an embedded job
worker, standalone workers, and the command line.

| Component | State it keeps | Operations | Modelled in |
|---|---|---|---|
| Durable job queue (`jobs/queue.py`) | tables `jobs`, `workers` | enqueue, lease, heartbeat, complete, fail, pause, cancel, re-supply, resume, sweeps | `JobQueue`, `JobLedger`, `JobRequests` (partly) |
| Workers, heartbeat, key store (`jobs/worker.py`, `jobs/secrets.py`) | the run in progress, its heartbeat thread, a process-local map from job to key | poll loop, `run_lease` and its exits | `JobWorker`, `JobRequests` |
| Job API and commands (`api/services/job_manager.py`, `api/routes/processing.py`, `cli.py`) | key fingerprints and idempotency keys | submit, cancel, re-supply, resume, event stream | `JobRequests`, `JobWorker`, `JobView` (partly) |
| Corpus storage (`storage/context.py`, `journal.py`, `projection.py`, `backup.py`) | journal, projection with watermark and chain digest, file locks, what each context confirmed | writes with op replay, catch-up, reads, rebuild, snapshot, restore | `CorpusStorage`, `StoreLog` (partly) |
| SHACL suite and status marker (`storage/shacl_status.py`, `shapes/`) | the marker: up to where the corpus validates, and what fails | incremental and full validation, waiting for predecessors | `CorpusCommit` (partly) |
| Dependency graph and cycle guard (`revision/acyclicity.py`) | none | search over new edges in the write transaction | `Acyclicity`, `CorpusCommit` (partly) |
| Governance log (`governance/`, `storage/governance.py`) | signed events in the journal, preview files | corpus init, role assert and revoke, retract by preview | `GovernanceLog` (partly) |
| Shard revisions and effective state (`revision/`, `storage/shards.py`) | revisions, content edits, derived state | edits, promote, contest, supersede, retract; reverse replay | `EffectiveState`, `ShardLifecycle` (partly) |
| Query and vocabulary (`query/`) | none | as-of queries | `EffectiveState` (windows only) |
| Browsing API (`api/routes/shard.py`, `kernel/traversal.py`) | snapshot cache | neighbourhood graph, kernel derivation | `ShardReads` (partly) |
| Minting (`minting/`) | shards and ExtractEvents | eligibility, the calls that fill the fields, prompt hash, attestation | `Minting` (partly) |
| Exports and dumps (`storage/exports.py`, `dump.py`) | destination directories, a Git work tree, index and commits | export by formats with a manifest, nightly dump, loading a dump | `CorpusExport` (partly) |
| Proposal ledger and signed decisions (`proposals/`, `storage/proposals.py`) | ledger rows, registry (a fold) | collect, judge, dedupe, decide, import | `ProposalLedger` (partly) |
| Review API (`api/routes/review.py`, `discovery.py`, `persistence/review_db.py`) | decisions, nonces, task tree, units the server holds in memory | decide units and tasks, move, merge, create, delete | `UnitReview`, `ReviewDb`, `TaskExport` (partly) |
| Extraction and discovery pipeline (`pipeline/`, `api/services/pipeline_runner.py`) | checkpoints of a job, output files | stages, failure ratios, halts, resumption; tagging | `Extraction`, `Tagging`; discovery in `ReviewDb` (partly) |
| LLM spend cap and usage ledger (`llm/cost.py`, `llm/usage.py`) | a run's meter, usage rows | reserve, settle, halt, resume with another cap | `SpendMeter` |
| LLM port (`llm/port.py`) | none | the calls around the meter | `SpendMeter` (partly) |
| Ontology export of reviewed tasks (`api/routes/export.py`, `services/task_exporter.py`) | IRI map, `.owl`, `.owl.prev`, changelog | exports of server and command line | `TaskExport` (partly) |
| Viewer (`viewer/`) | the page's stores and tokens | upload page: stream, select, cancel, resume | `JobView` (partly) |
| Framework registry; shard envelope and identity; text services and bridge; validation, reasoning and polysemy; measurement, rubric and benchmarks; RFC linter and kernel data | none shared, or files written once | data transformations, cryptography, reports | not modelled (section 9) |

**How they interact.** The API inserts jobs in the queue and puts keys in the
store of its own process; workers of any process lease jobs, but a job that needs
a key is leased by the process that holds it. A lease is a token in the row: every
later call of the run is refused once the token is gone. The run of a job is an
attempt of the pipeline; it writes checkpoints, meters its LLM calls against the
usage ledger, and leaves files that the review API reads. Minting turns units into
shards through a corpus context. Contexts of different processes meet in the
journal (SQLite write transactions) and in the projection (a file lock). Governance
events are journal rows too, so a role change, a shard write and a retraction are
ordered by one log. Exports, dumps and the browsing routes read snapshots of it.

**What is hard.** Leases that expire under a run that goes on; settlements that
come late; keys that exist in one process's memory; retries, pauses and crashes
that each count attempts differently; a catch-up killed between two updates; a
journal that is not the one the projection was built from; decisions made, signed
and appended in steps while roles change and the clock steps back; a call that is
billed and whose row is not written; a refused call that a stage swallows; files
that a reader finds between two writes of one export; answers that arrive when the
page shows something else.

**What makes each component correct.**

- *queue*: one active job per corpus, one valid grant per job, no settlement by a
  client that lost its lease, budgets, final outcomes, cancellations that stick;
- *workers and API*: they respect the queue's protocol, a process drops the key of
  whatever job it ends itself (one ended by another process or a sweep may leave its
  key in memory, section 7), the system recovers from crashes without a user;
- *storage*: readers see a prefix of the journal that covers everything finished
  before them, an operation is applied once;
- *commits*: a marker at the head is exact, no commit closes a cycle;
- *governance*: a corpus is never without an admin, nothing is committed without
  permission or twice, a cascade is applied to the state it was previewed on;
- *shards*: the derived state does not depend on the order of the events and is no
  other than what the preview showed; a cut graph says so;
- *minting, exports*: one event attests what is stored; a manifest or a commit is of one moment;
- *decisions*: a row means what it says where it stands; runs touch no verdict; a
  signature stays on the decision it was made for;
- *pipeline*: nothing a refused call left out is saved, nothing reported is done
  again, every tag was earned, the spend is accounted and within the cap;
- *page*: it shows the corpus it names, and how its job ended.

## 2. Modules

```
JobLedger <--implements-- JobQueue <--INSTANCE-- JobWorker      JobRequests   JobView
StoreLog  <--implements-- CorpusStorage          CorpusCommit (EXTENDS Acyclicity)
GovernanceLog   Minting   CorpusExport           ProposalLedger   ReviewDb
Extraction (EXTENDS Tagging)   SpendMeter        ShardLifecycle (EXTENDS EffectiveState)
ShardReads                                       TaskExport (EXTENDS UnitReview)
```

The `MC...` modules give the constants finite values and compose modules whose
runs share one instance: a variable `setting`, chosen at the start, says which of
them moves. Definitions under a comment `fault:` are the wrong forms of the
definition below them, used to show that each property can fail; no specification
refers to them.

### JobQueue, JobLedger

`job` is the table `jobs`, `silence` the table `workers`, `lent` the leases clients
still hold. Every method is one `BEGIN IMMEDIATE` transaction and so one action.
What a statement does to one row is an operator (`Leased`, `FailedRow`,
`Reclaimed`, ...); the actions say to which row it is applied and when. `lent` is
not in the code: it lets any client call late, which is what fencing is about.
Time is relative: a row keeps the difference of each timestamp to now, which stops
growing past the threshold it is compared with; `Tick` may come at any moment. A
lease token (uuid4) is a number, reused only when neither a row nor a client
remembers it. `JobLedger` is what the queue's users rely on: one pending job per
corpus, one grant per job, only a granted job succeeds, outcomes are final.
Left out: `progress`, `result`, `job_events`, the control tokens, and
`import_snapshot`, which inserts display-only rows.

### JobWorker, JobRequests, JobView

`JobWorker` has one `run[w]` per process: `pc` is the position in `run_once` and
`run_lease`. The heartbeat thread interleaves with it and sets `lost`; `secrets[w]`
is the SecretStore. All changes of the tables are actions of `JobQueue`,
instantiated with `lent` = the leases of the runs. A handler is opaque: it reaches
a stage boundary, returns, or raises one of the exceptions `run_lease` distinguishes.

`JobRequests` opens what `JobWorker` takes as one step: submission, cancellation,
re-supply and resumption of one corpus in one process, each request in its own
steps (look, swap the key, ask the queue, put the key back), beside the embedded worker
with every exit of its runs: `FailRun` requeues, fails for good and then drops the key,
or is told that the lease is gone. Around it are the processes that share the queue and
not the keys: `Reclaim` is the sweep of any worker, `CancelElsewhere` the command line
and a standalone worker's expiry. They may act at any moment, as attempts and lease
times are `JobQueue`'s. `elsewhere` is not in the code: the jobs that came to their end
that way and whose key this process has not discarded since.

`JobView` is the upload page beside the jobs of the corpora it shows: one event
stream, requests whose answers come late, tokens in memory. A modal dialog blocks
the choice of a corpus while it is open; the discovery page has the same code, so
one kind of job stands for both; reloading the page is not modelled.

### CorpusStorage, StoreLog

`journal` is the sequence of committed rows, `graph` and `applied` the projection's
quads and its watermark. The stored chain digest covers all rows applied, so
`applied` is the sequence of those rows: its length is the watermark, its content
the digest. `lock` is the projection lock, `ctx[c]` a context's memory, `task[t]` a
coroutine. A write is `Write` (the transaction with the op_id lookup) and a
catch-up; a catch-up is `AcquireLock`, `Inspect`, `ApplyBatch` or `BulkLoad` and
`BulkMark`, and `Finish`. `Fail` ends a catch-up anywhere, `Crash` the process; both
may leave part of a bulk load behind. `StoreLog` is the promise: a log to which an
operation is added once, and reads that answer with the contents of a prefix at
least as long as the log was when the read was called.

### CorpusCommit, Acyclicity

What a commit checks inside its transaction (the guard's search over committed and
new edges) and what it leaves behind: the marker, moved on by every commit of a
context with a suite, in turn, and by `validate_corpus` and other processes. Which
records break a shape is a set of suites; the supersession rules, which relate two
shards, are translated. `Acyclicity` states what a cycle is without a search.

### GovernanceLog

`journal` holds governance events and shard writes with the server time they were
committed at; `cmd[c]` is a run of the command line: authorized, preview built,
signed. `AppendEvent` is the write transaction with all its gates. `retract` stands
for the content actions, which pass the same gates; promotion, contests and
supersession of shards are in `ShardLifecycle`.

### Minting, CorpusExport

`Minting`: `mint[m]` is a run over the units of an extraction: eligibility,
detection once per source, the calls that fill the fields, the write and the event.
Runs overlap, stop anywhere and are run again. Unit ids are uuid4: `load_run`
refuses duplicates and no id is the path of a source (`ExtractionsAssumption`). Left
out: the visibility marker, the dry run, support by inference.

`CorpusExport`: an export reads a dataset, writes format by format and then the
manifest; the dump fills a work tree file by file, stages and commits. One call
works on a destination and one on the repository, which the code leaves to its
operator. No content is `NoFile` (`NoFileAssumption`).

### ProposalLedger, ReviewDb

`ProposalLedger`: each operation loads the ledger, works, and appends one row in a
transaction that checks the operation id, the head and, when signed, the time. The
registry is the fold of the rows. `ReviewDb`: a request verifies and looks up, then
writes; a discovery run reads the decided tasks once, works from checkpoints, and
writes the tree file and then the database.

### Extraction, Tagging, SpendMeter

`Extraction`: attempts restore the checkpoints of their job, run the other stages,
and write the output file by file; one whose lease ran out goes on until its next
stage boundary. `Tagging` is how a unit gets its tags; a text is what the paths find
in it. `SpendMeter`: the meters of the runs of one run id, the threads that reserve
and book, and the rows of the usage ledger; a cost is a number, a request has a
bound, and the provider bills at most the bound.

### EffectiveState, ShardLifecycle, ShardReads

`EffectiveState` is the state derived from records and events, cascades and validity
windows; `ShardLifecycle` the editors, commands and a stepping clock that produce
them. `ShardReads` has requests that read the head, look in the snapshot cache, and
walk the graph within a depth and a budget, while shards are committed and the
journal file is replaced by an earlier one. `OpenRead` pins the rows of the file it
opened; `Read` asks the path for its inode, which may be that of the next file.

### UnitReview, TaskExport

`UnitReview`: reviewers are shown units, sign and decide, while extractions replace
the units and the server serves what it read at first. `TaskExport` adds the task
tree and the exports of the server (which interleave where they wait) and of the
command line (a process of its own).

## 3. Runs

| Run | Distinct states | Properties | What it shows |
|---|---|---|---|
| `job_queue` | 469,169 | `TypeOK`, `LeaseIntegrity`, `AttemptBudget`, `NoStrandedJob`, `Fenced`, `CancelSticks`, `ImplementsLedger` | The queue alone against clients that may present a lease late or never: two jobs, two workers, two corpora, expiring leases, retries, both pauses, cancellation, sweeps. Every row invariant holds, late clients are fenced off, cancellations stick, and the queue implements the ledger its users rely on. |
| `job_worker` | 494,138 | `UsesQueue`, `CrashedRunEnds`, `FollowsTheCorpusShown`, `EndIsShown` | The program's own workers over the queue, under fairness of the poll loops and of time alone: poll loop, heartbeat thread, key store, API, command line and crashes; or one browser tab over two corpora whose streams break and whose answers come late. Workers are clients the queue's guarantees hold for, crashed runs move on, and the page shows the corpus it names and how its job ended. |
| `job_requests` | 2,122,034 | `NoStrayKey` | Three requests of the job API in one process, of which two may submit, each in its own steps beside the embedded worker, the sweeps and the command line of other processes, and a restart: whatever this process ends, it drops the key of; a job ended elsewhere may leave its key. |
| `corpus` | 1,254,857 | `NeverPastJournal`, `MarkerExact`, `ImplementsLog`, `GuardHolds` | Three tasks in two processes write, retry, read and crash around one journal and one projection, or one process while operators rebuild, snapshot and restore; or four batches of three contexts commit, validate, fail and crash. Reads answer with this journal's prefix, markers at the head are exact, and no new edge closes a cycle. |
| `publication` | 2,005,056 | `SignedOnce`, `NeverLockedOut`, `CommittedByPermitted`, `CascadeCurrent`, `EventAttestsShard`, `PromptsAreWhole`, `ManifestIsTrue`, `CommittedIsWhole` | Role changes with a stepping clock and retractions by preview, re-submitted; overlapping mints of signers who gain and lose their role; or an export and a dump beside writers. No event twice, a corpus keeps an admin, nobody commits without the permission, cascades are current, events attest the shard that is stored, prompts are whole, and manifests and commits are of one moment. |
| `decisions` | 2,279,638 | `EveryRowDecides`, `VerdictsSurvive` | Commands that collect, judge, decide and import, loaded on one ledger and appended on a later one with aging signatures; or two reviewers with one nonce beside a discovery run that resumes and persists. Rows say what they mean just where they stand, runs touch no verdict, and signatures stay on their decision. |
| `pipeline` | 1,562,524 | `SavedIsSound`, `NothingRedone`, `TagsEarned`, `ChargedAtMost`, `WithinCap` | Two attempts of one job that crash, halt, lose their lease and find another mode; files uploaded between and during jobs; or two metered runs that stop anywhere while the ledger's writes may fail. Nothing a refused call left out is saved, nothing is paid for twice, every tag was earned, and the spend is within the cap. |
| `shards` | 974,357 | `OrderIndependent`, `CommitKeepsPreview`, `AnswersOneMoment`, `GraphIsHonest`, `DerivationIsHonest` | Retractions, supersessions, contests and edits of three shards in any order with a stepping clock, two editors and lost puts; or two readers of two corpora with a small snapshot cache, the journal file replaced at any moment of a read. The derived state does not depend on the order, keeps what its preview said, and a truncated graph says so. |
| `review` | 3,016,890 | `VerdictAsSeen`, `StableIri`, `TreeIsWhole`, `NeverRestored` | Reviewers sign and decide units that extractions replace, beside a server that keeps what it read; task trees that reviewers and discovery runs change; or exports of the server and the command line that overlap and die. Signed verdicts stand on what their signer saw, once; the tree shows every task that is not below itself; a unit keeps its IRI. |
| `changelog` | violation | `ChangelogIsHonest` | Three exports in a row: the changelog of the second says it is the first, and the third is compared with the first. |
| `rejected` | violation | `OnlyApproved` | A reviewer rejects a unit and approves its task: the next export publishes the unit. |
| `edits_replaced` | violation | `EditsAppendOnly` | Two editors read one shard, each appends an edit of its own and puts its revision: the second put replaces the first editor's edit by its own, in a list of the same length. |

A run in the list may be of several settings of its `MC` module; every setting is
explored from its own initial states. Deadlock is checked except where the cfg says
`CHECK_DEADLOCK FALSE`: there every setting is a bounded amount of work (jobs,
requests, mints, exports, edits) that really ends.

### Bounds and why they are enough

- *Queue*: `LeaseSeconds`, `WorkerTtl`, `PausedTtl` = 0 with thresholds at 1: a
  value is before, at or past its limit, and the SQL distinguishes no more.
  `RetryBackoff` 2 over `BackoffCap` 1 makes the cap bite; `MaxAttempts` 2 gives a
  first, a last and a forbidden attempt; two tokens a late client and the current
  one; two jobs contend for one corpus or use two.
- *Workers*: one job, two processes; contention between jobs is the queue's run,
  and `UsesQueue` shows that workers are its clients. *Page*: two corpora, two jobs,
  one stage, one lost connection or answer.
- *Requests*: three, so that two race after a third has submitted, and a restart. At most
  two of them submit (`MaxSubmissions`), as one job is active at a time: the second finds
  the first active, repeated, or over. Two keys tell a repetition from another request;
  one payload and one Idempotency-Key.
- *Storage*: `ReplayBatch` 1, `BulkBatch` 2, `BulkMin` 2: a lag of one row takes the
  single-row path and a lag of two the bulk path, within `MaxRows` = 3.
- *Commits*: three rows over three shards, four batches of three contexts, one with
  another suite and one with none; `MaxFailing` 1 makes the list be cut, `FocusLimit`
  2 makes an incremental validation give up.
- *Publication*: four rows hold genesis, a second admin and two crossing revocations,
  which is what a lockout takes. Mints of three units of two sources, of which one has
  the content of another. Exports of one corpus in every profile; dumps of two.
- *Decisions*: five rows let a collect, a judgment and two decisions cross an append.
- *Pipeline*: two attempts of one job, or two jobs over two files; every text over two
  concepts and three labels for the tags; caps 2 and 3 against bounds 1 and 2.
  `MaxAttempts` 3 passes too (3,960,000 states).
- *Shards*: a chain and a cycle of three; three events, two clock values apart, two
  edits (three edits pass too, 3,920,000 states); every graph over three shards and a
  kernel entry, every depth and budget; a cache of one snapshot. Of the two corpora of
  the readers one has a single record (`OneRecordOfY`): it is there to be evicted for.
- *Review*: two units, three tasks, four tree edits, three IRIs.
- *Symmetry*: interchangeable workers, corpora, requests, tasks, commits, commands,
  readers and calls. No run with a liveness property uses it.

### Fairness

Only `job_worker` has liveness properties. For the workers: weak fairness of the poll
loop of each process (`run` is an endless loop that survives exceptions, and a handler
ends or reaches a stage boundary) and of time. For the page: weak fairness of the
server's poll, of the delivery of what is on its way, and of the browser's
reconnection. Nothing is assumed of users, of the heartbeat thread, or of how long a
stage takes; a process may crash at any moment.

## 4. Proofs

Every theorem holds for any values of the constants that satisfy the assumptions of
their modules; no finiteness is assumed but of the shards and IRIs of a corpus, the
requests of its callers, the calls of a run, the tasks and their labels
(`CommitAssumption`, `ShardAssumption`, `SnapshotAssumption`, `CallerAssumption`,
`SpendAssumption`, `ExportAssumption`, `TaskAssumption`). `Counting` derives induction
over the naturals, over sequences, over finite sets, over sums and over the iterates of
a function from the fact that the naturals are well-founded, since the provers cannot
instantiate the library's induction theorems. What a recursive function computes is
then shown by its values: that they exist for every length, what they start with, and
what one step makes of what was known of the last.

| Theorem | States |
|---|---|
| `JobQueue_proofs.Inductive` | The inductive invariant of the queue: what every row is, that a token names one grant, and that a corpus has one active job. |
| `JobQueue_proofs.TypeCorrect` (`TypeOK`) | Columns and leases keep their types, for any jobs, workers, tokens and limits. |
| `JobQueue_proofs.Leases` (`LeaseIntegrity`) | A row carries a lease exactly while it runs, and a token names one grant. |
| `JobQueue_proofs.Attempts` (`AttemptBudget`) | The attempt budget survives every sequence of retries, pauses and crashes. |
| `JobQueue_proofs.NotStranded` (`NoStrandedJob`) | A queued job that needs a key names its holder, and the worker running it is that holder. |
| `JobQueue_proofs.OneActive` | At most one active job per (kind, corpus). |
| `JobQueue_proofs.Finality` | A finished row is never written again. |
| `JobQueue_proofs.Cancellation` (`CancelSticks`) | A cancellation request is never lost. |
| `JobQueue_proofs.Fencing` (`Fenced`) | A running job leaves its grant only by the client it is granted to, which uses the grant up, or after the lease expired. |
| `JobQueue_proofs.Implements` (`ImplementsLedger`) | Every behaviour of the queue is one of the abstract ledger. |
| `Publication_proofs.GovInductive` | The inductive invariant of the log: what rows, previews and commands hold, that the newest event is the latest, and that a preview whose head is still the journal's tells the truth. |
| `Publication_proofs.LastAdminStays` (`NeverLockedOut`) | An initialised corpus has an admin, whichever revocations race. |
| `Publication_proofs.Authorized` (`CommittedByPermitted`) | Every event but the first was signed by someone whom the rows before it permit. |
| `Publication_proofs.Genesis` | One event initialises a corpus, and nobody appoints itself afterwards. |
| `Publication_proofs.NoReplay` (`SignedOnce`) | No signed event and no operation is committed twice. |
| `Publication_proofs.Cascades` (`CascadeCurrent`) | A retraction commits the cascade of the state it is committed on. |
| `Publication_proofs.SettledPast` | Who held a role before the newest event never changes. |
| `Corpus_proofs.StoreInductive` | The inductive invariant of the storage: what contexts remember of the journal is still so, and a projection is the replay of its watermark's rows or lags only on subjects that later rows write. |
| `Corpus_proofs.NeverPast` (`NeverPastJournal`) | When a catch-up is about to finish, the graph is the replay of its watermark's rows and they are this journal's, whatever was restored, rebuilt or crashed. |
| `Corpus_proofs.StoreTypes` | Journal, contexts and calls keep their types, for any contexts, tasks, requests and batch sizes. |
| `Corpus_proofs.StoreImplements` (`ImplementsLog`) | Every behaviour of the storage is one of the abstract log: a read is a state of the log between the call and its answer, and an operation is applied once. |
| `Corpus_proofs.CorpusInductive` | The inductive invariant of the commits: the marker's verdict is right of every shard no later row touches, and so is what commits and validations in progress have read. |
| `Corpus_proofs.MarkersExact` (`MarkerExact`) | A marker at the head of the journal lists exactly the violations of the corpus or says that it was cut, for any suites, writers and shards. |
| `Corpus_proofs.PassesAreTrue` | A marker that says a corpus passes is right. |
| `Corpus_proofs.GuardAlwaysHolds` (`GuardHolds`) | A commit of a guarded context adds no edge that lies on a cycle, for any finite set of shards: the guard's search finds every cycle. |
| `Pipeline_proofs.SpendInductive` | The inductive invariant of the spend meter: a run's reservation covers what its open calls may still cost, and every call's row agrees with the call's place in its life. |
| `Pipeline_proofs.ChargedInFull` (`ChargedAtMost`) | What the provider bills for a call is in the ledger row of the call, whatever failed and whenever its process stopped, but for an overtaken reservation. |
| `Pipeline_proofs.RowsSettleOnce` | A settled usage row is final: no later step charges the call again. |
| `Pipeline_proofs.CapHolds` (`WithinCap`) | Runs of one run id that follow one another are billed at most the highest cap one of them was given. |
| `Pipeline_proofs.ExtractionInductive` | The inductive invariant of the attempts of a job: checkpoints and output files hold sound results made in one mode, and what was reported complete is saved. |
| `Pipeline_proofs.SoundWhenSaved` (`SavedIsSound`) | No unit whose LLM call was refused reaches a checkpoint or an output file. |
| `Pipeline_proofs.PaidForOnce` (`NothingRedone`) | A stage the job reported complete is not run again until an attempt removes the checkpoints. |
| `Pipeline_proofs.KeptTagsAreEarned` (`TagsEarned`) | Every tag that is checkpointed or written was earned by its unit's text in the mode the result was made in, and says whether it was judged. |
| `Pipeline_proofs.NeverMixed` | The units of one checkpoint or output file were all made in one extraction mode. |
| `Publication_proofs.MintInductive` | The inductive invariant of the mints: a run's records about a source are its detection, those about the unit at hand are the ones since it was taken up, and every shard and event is what it says. |
| `Publication_proofs.EventAttests` (`EventAttestsShard`) | A shard has at most one ExtractEvent, by the extractor it names and of the run that wrote it, whatever mints overlap, stop or are run again. |
| `Publication_proofs.PromptsWhole` (`PromptsAreWhole`) | The prompt hash of a shard covers its lineage, its own calls and the detection of its source, and no other call. |
| `Publication_proofs.PublishedInductive` | The inductive invariant of exports and dumps: every dataset is of one moment of its corpus, and a corpus of which a dump has written every file is whole in the work tree. |
| `Publication_proofs.ManifestsAreTrue` (`ManifestIsTrue`) | A manifest tells the truth about the files beside it, for any corpora, formats, queries and destinations, whatever is written meanwhile and wherever an export fails. |
| `Publication_proofs.CommitsAreWhole` (`CommittedIsWhole`) | Every commit of the dump repository holds each corpus whole, as of the head its manifest names. |
| `Review_proofs.ReviewInductive` | Signed rows, requests and signatures agree: the inductive invariant the two theorems on unit reviews rest on. |
| `Review_proofs.VerdictsAsSeen` (`VerdictAsSeen`) | A signed verdict stands on a unit only if its signer decided that unit and was shown it, and its nonce is used up, for any units, reviewers and extractions. |
| `Review_proofs.SignedOnceOnly` (`NeverRestored`) | A signature is written once, whatever requests, restarts and changes of the signers come between. |
| `Review_proofs.IrisInductive` | The registry gives an entity one IRI and an IRI one entity while any exporters look up, insert, write and die: the inductive invariant of the exports. |
| `Review_proofs.IrisAreStable` (`StableIri`) | No two written files ever gave a unit different IRIs and no two units one, for any exporters of the server and the command line. |
| `JobRequests_proofs.StrayInductive` | Rows, requests, keys and the embedded worker agree at every step of the requests, of every exit of a run (a last failure and a lost lease included), of the sweeps and of the command line: the inductive invariant that follows the handles which crossing re-supplies displace and put back. |
| `JobRequests_proofs.KeysDoNotStray` (`NoStrayKey`) | Whatever crosses, a key in memory whose job is over is on its way out, a handle the queue refused, or that of a job a sweep, the command line or another process ended and this one has discarded nothing for since. |
| `JobWorker_proofs.WorkerInductive` | A run whose heartbeat thread still beats has its lease, or names a job that its last report made failed; with the queue's own invariant this is inductive for the poll loops, the heartbeat threads, the API, the command line and crashes. |
| `JobWorker_proofs.ClientsOfQueue` (`UsesQueue`) | Every step of any number of workers, API processes and command lines, crashes included, is one the queue's theorems allow its clients, the leases held being those of the runs. |
| `Review_proofs.DecisionsInductive` | What a discovery run or its checkpoint holds names only tasks whose ids were made, and rows are made only of such: the inductive invariant of the tasks in review.db. |
| `Review_proofs.VerdictsOutliveRuns` (`VerdictsSurvive`) | No discovery run, resumed or repeated from an old checkpoint, changes the verdict of a task or removes it, for any tasks, labels, requests and signatures. |
| `JobWorker_proofs.OneStream` (`FollowsTheCorpusShown`) | The upload page follows one event stream, that of the corpus it shows, and says processing exactly while it is open, whichever clicks, answers, events and losses interleave: for any corpora and any bounds. |
| `Review_proofs.OneMoment` (`AnswersOneMoment`) | Every answer of the graph routes is the corpus as it stood at one moment of its request, whatever is committed, backed up and restored while any readers share the snapshot cache. |
| `Pipeline_proofs.LedgerInductive` | The inductive invariant of the proposal ledger: every committed decision decides where it stands, and one about to be appended was validated at the head it is appended at or is a committed operation already. |
| `Pipeline_proofs.AcceptedRowsDecide` (`EveryRowDecides`) | Every decision the ledger accepts decides its proposals where it stands, and a signature decides once, for any clients, proposals, batches and committed rows. |
| `Review_proofs.TreesAreWhole` (`TreeIsWhole`) | The export shows every task except those on or below a cycle of parents, and below any task it shows all of it, for any finite set of tasks and any sequence of hierarchy edits. |
| `Review_proofs.RetractionOrder` (`OrderIndependent`) | Two retractions commute: whatever else the log holds and however shards rest on one another, every shard's effective state is the same with the two exchanged. |
| `Review_proofs.PreviewsHold` (`CommitKeepsPreview`) | A committed retraction leaves each direct dependent with at least the caution of the preview its operator confirmed, for any finite set of shards, any records and any log. |
| `Review_proofs.DerivationsHonest` (`DerivationIsHonest`) | A derivation not marked truncated names every kernel maxim behind its root, and each chain it gives is a shortest one, for any corpus, history of commits and restores, depth and cap; cycles included. |
| `Review_proofs.GraphsHonest` (`GraphIsHonest`) | A graph not marked truncated holds exactly what is within reach of its root both ways, each node at its least distance, and a cap leaves out only nodes at least as far as those it keeps, for any acyclic corpus, depth and cap. |

### The arguments

**Queue** (`JobQueue_proofs`). The properties are not inductive one by one: a failed
attempt goes back to the queue with the holder the running row had, so
`NoStrandedJob` needs that a running row has an owner and that a keyed job runs at its
holder; `AttemptBudget` needs the type of `attempts`. `IndInv` says of every row
`RowInv`, and that a token names one grant and a corpus has one active job. Each
update of a row is shown once to keep `RowInv` and to be a `RowStep`; all actions but
`Enqueue` and `LeaseJob` update rows by such steps and only shrink `lent` (`Narrows`).
For the refinement, `Narrows` steps map to `Succeed`, `GiveUp` or a stutter, the other
two to `Grant` and `Accept`.

**Workers** (`JobWorker_proofs`). `WorkerInv` carries the queue's `IndInv` along
(`P == INSTANCE JobQueue_proofs`, with `lent` the leases of the runs) and adds that a
run whose handler ended with something to report has yet to report it, or names a job
that the report made failed for good. So no step of a worker, the API, the command
line or a crash is one that the queue does not allow its clients, and what is proved of
`JobQueue` holds of the program's processes.

**Page** (`JobWorker_proofs`). `ViewInv`: an open stream is that of the corpus shown,
which has a job, and only that corpus's events are on its wire; the request of the open
dialog is about the corpus shown, and an answer that says yes is about one with a job.

**Requests** (`JobRequests_proofs`). What is left in the key store after a job is over is
not simply the job's own or a refused handle: crossing re-supplies put back what they
displaced, which may be what another of them swapped in. `StrayInv` follows the chain:
there is a set of crossing requests such that what the store holds, and what each of
them will put back, is nothing, a refused handle, or the handle of one of the set. The
set shrinks as they answer, and is empty when none is left. It is claimed of jobs that
this process ended. A sweep or the command line ends a job with any handle in the store,
and puts it in `elsewhere`; what the process discards for that job later takes it out.

**Storage** (`Corpus_proofs`). The projection may be wrong after a bulk load
that was cut. `StoreInv` says how wrong (`Derived`): a subject's quads are those of the
watermark's rows, unless a later row of the journal writes the subject, so that the
catch-up will still come to it. `Finish` needs the watermark at the head, where no row
is later. The refinement to `StoreLog` maps a read to the moment of its answer and
shows that what it remembers is at least the head it was called at.

**Commits** (`Corpus_proofs`). A marker may lag, and the query that moves it on may
have seen rows beyond the position it is given. `CorpusInv` says what a marker still
means: it is right of every shard that no row beyond its position wrote, nor the shard
it supersedes; and the same of what commits and validations in progress have read. For
the guard, a search that visits every shard once finds every cycle: a walk longer than
the number of shards repeats one (pigeonhole), and the positions of the search rank the
shards it has left.

**Governance** (`Publication_proofs`). `GovInv` says what rows, previews and commands
hold, that the newest event is the latest, and that a preview whose head is still the
journal's tells the truth of it. Times are needed in the order of rows because who
holds a role is decided at a server time that may step back.

**Spending** (`Pipeline_proofs`). `MeteredInv` ties a call's row to its place in its
life and says that a run's reservation covers what its open calls may still cost;
`CapInv` sums it over the calls of a run and the rows of the ledger (`Counting`).
`CapHolds` has the hypothesis that one run of a run id is up at a time
(`~Overlapping`), as in the `pipeline` run: a run reads what was spent once, at its
start, so that the cap is per run when runs overlap. `ChargedInFull` needs no such
hypothesis; it excepts the calls a cancelled task's thread reserved after they had
settled, as the property says.

**Extraction** (`Pipeline_proofs`). `ExtractInv`: checkpoints and output files are
sound and made in one mode, an attempt holds only sound results or is halted, and what
was reported complete is saved. Tags are followed through the tagger's steps by what
their entries are (`GoodEntry`).

**Minting** (`Publication_proofs`). `MintInv`: a run's records about a source are its
detection, those about the unit at hand are the ones since it was taken up, and there
is none of the units to come; so the records a prompt hash is made of, found by a
search through all of them, are the shard's own. Events and shards are tied by the
operation ids of the two writes.

**Exports and dumps** (`Publication_proofs`). Journals only grow, so the prefix at a
known position stays what it is, and a dataset is of one moment. `PublishedInv`: a
destination being written has no manifest and only files of the run's data; a dump has
every corpus it finished whole in the work tree, and the index and every commit whole.

**Proposal ledger** (`Pipeline_proofs`). The registry is a fold of the rows, a recursive
function. That it exists and is unique for every ledger is shown by the least position
where it would not be (`Counting`), hence rows that are appended do not change what the
rows below them fold to. `LedgerInv`: every committed decision decides on the fold of
the rows below it, and a decision about to be appended is a committed operation already
or was validated on the fold at the head it must be appended at.

**Unit reviews** (`Review_proofs`). `ReviewInv`: a signed row's nonce is claimed, and
what was signed with it names the unit and the verdict of the row; a request that is
about to write carries the decision its signature covers.

**Exports of tasks** (`Review_proofs`). `IriInv`: the registry is one to one; an
exporter either holds only IRIs of the registry or is about to insert one, whose IRI is
nobody else's; what files name is registered.

**Task tree** (`Review_proofs`). What the tree builder shows is the least set that holds
the roots and the children of what it holds, and the tasks above a task are the least
set that holds its parent and the parents of what it holds; both are iterates that stop
growing within the number of tasks (`Counting`). So nothing below itself is shown, and
of the tasks that are neither shown nor below themselves, one with the fewest tasks
above it would have a parent with fewer.

**Retractions and previews** (`Review_proofs`). Supersessions and contests do not see
retractions, so a log with two retractions exchanged leaves the same states before the
cascade. Then a retraction only marks its own shard, and what it asks of a dependent
looks at no state but whether that reads contested: a retracted shard reads retracted
whatever it is asked, and for any other the set of outcomes is the same in any order.
For the preview, the bucket of a direct dependent is one of the outcomes at depth 1,
and the derivation takes the most cautious of those; that a contest, or an effect of
the log that the records do not show, came between can only add caution.

**Tasks and discovery** (`Review_proofs`). `DecisionInv`: the rows of tasks, and what a
discovery run or its checkpoint names, are of ids that were given out. An upsert then
changes a label and no part of a verdict.

**Graph answers** (`Review_proofs`). `SnapshotInv`: a snapshot under a head, cached or
held by a request, is what any journal file that ends with that head holds, be it the
file in place or the backup; the two agree on every head both contain, as op IDs are
given out once (`Journals`: of the file, the backup, and the rows a request has pinned).
The inode may be that of another file than the rows: the operation id in the head is what
tells the two apart. An answer is thus of the head its request read.

**Graph walks** (`Review_proofs`). Seen from a root, a direction of the dependencies is
a web (`IsWeb`): what is within reach, how far, and that one step goes at most one
farther while every node but the root is one step from a nearer one. A level of the
derivation visits what is at one distance; `LevelInv` says that what has a parent is in
the web and one step from it, that the next level holds just what is one farther, and
that nothing was left out unless the walk says so. So a walk that was not cut is closed
under steps and holds all of the web (`LevelsFilled`), and the parents of a node lead
to the root in as many steps as it is far. The graph walks two webs in turn; where
the dependencies close no cycle they meet in the root only (`SidesApart`). `GraphInv`
says that up to the hop made on either side the placed nodes are just those within it
and the frontiers those at it, unless the cap was met: then what is placed is at most as
far as what is not. A depth that cuts nothing off leaves frontiers whose neighbours are
all placed, so that what is placed is closed under steps (`ReachLeast`).

### Assumptions

| Module | Assumptions on its constants |
|---|---|
| `JobQueue` | `JobsAssumption`, `TokensAssumption` (rows and tokens are numbered), `NoneAssumption` (NULL is no value), `LimitsAssumption` |
| `JobWorker` | `QueueAssumption` (those of the queue), `ApiAssumption` (an API process has a worker) |
| `JobRequests`, `JobView` | `RequestAssumption` (NULL is no value), `FeedAssumption` (no stream is no stream's state) |
| `CorpusStorage`, `CorpusCommit` | `HomeAssumption`, `BatchAssumption`, `CallerAssumption`; `CommitAssumption` |
| `GovernanceLog`, `Minting`, `CorpusExport` | `GovernanceAssumption`; `MintAssumption`, `ExtractionsAssumption`; `ExportAssumption`, `NoFileAssumption` |
| `Tagging`, `Extraction`, `SpendMeter` | `TaggingAssumption`; `ExtractionAssumption`; `SpendAssumption` |
| `ProposalLedger`, `ReviewDb` | `LedgerAssumption`, `BatchAssumption` (a signature has a nonce); `TaskAssumption` (NULL is no row) |
| `UnitReview`, `TaskExport` | `ReviewAssumption`; `ExportAssumption` (finitely many tasks) |
| `ShardLifecycle`, `ShardReads` | `ShardAssumption` (finitely many shards); `SnapshotAssumption` (finitely many IRIs) |

Each stands in the module that declares the constants, and TLC evaluates it on the runs
that extend the module.

### Only model-checked

Liveness, which is beyond the prover: `CrashedRunEnds` and `EndIsShown`. Every other
property of a passing run is a theorem of the table. `GraphIsHonest` says nothing of a
corpus whose dependencies close a cycle, as the commits refuse to close one
(`GuardHolds`).

## 5. Properties that are stated and not among the runs

Each is stated in words above its definition. Proved: `OneActivePerCorpus`,
`FinishedIsFinal`, `OneGenesis`, `PastSettled`, `SettledOnce`, `PassIsTrue`,
`CommitTypeOK`, `SpendTypeOK`, `OneMode` and the types of the storage and of the
governance log. They hold on the instances of their runs too, as do
`JobRequests.OneJobPerKey`, `SpentKeyUnused` and `RepeatAnswered`;
`JobWorker.RunKeepsKey`, `QueuedMoves`, `PausedEnds` and `KeyLossExplained`;
`ProposalLedger.WrittenAtItsHead`; `ReviewDb.SignedAsClaimed`;
`ShardLifecycle.NeverRevived`, `OneHoldsAsOf` and `ReplayedWasStored`;
`ShardReads.EdgesReachEveryNode`.

Violated on those instances:

- `JobRequests.KeyEndsWithJob`: a key stays in memory after its job was ended by a sweep
  or by another process (section 7).
- `JobView.CancelledAsShown`: a cancellation answered after another corpus was selected
  shows that one as cancelled (`viewer/src/routes/upload/+page.svelte:290`).
- `JobView.TokenKept`: a late answer drops the token of the next job
  (`viewer/src/routes/upload/+page.svelte:286`).
- `JobView.StageIsSent`: a status event carries the stage, and is sent only when the
  status changes, so the stages within `processing` are not sent
  (`api/routes/processing.py:251`).
- `Extraction.KeepsExtracted`: a job's output replaces that of the corpus's earlier
  jobs (`pipeline/orchestrator.py:358`).
- `ReviewDb.NotRediscovered`: a run adds a task with the label of an approved one
  (`pipeline/discovery/stages/hierarchy_construction.py:130`).
- `ShardLifecycle.ContestReads`: a contest after an aporetic resolution changes
  nothing, as `aporetic` outranks `contested` (`revision/effective_state.py:70`).
- `UnitReview.EditIsSigned`: a bulk approval leaves an edited text under the new verdict.
- `CorpusExport.FailedLeavesNothing`, `RestoredAtItsHead`: a failed export may leave
  files, and a loaded dump is at a head of its own.

## 6. Where code and words disagree

Three runs show a disagreement, `PROJECT.json` quotes the words.

1. **A put replaces another editor's edit** (`edits_replaced`). Edit lists are called
   append-only; the check compares their lengths, and two editors who read one
   revision are both accepted.
2. **The changelog skips an export** (`changelog`). `.owl.prev` is loaded before the
   current file is archived there: the second export's changelog says it is the first,
   later ones compare with the export before the last.
3. **A rejected unit is published** (`rejected`). The ontology export takes every unit
   of an approved task from `extraction.json` and reads no verdict about units.

## 7. What the modelling showed besides

- A run that lost its lease discards the key by job id (`jobs/worker.py:321`), which
  may by then be one the user re-supplied: the job is parked once more.
- A key may outlive its job. `fail` answers `None` to a run whose lease is gone, and the
  key is kept even where a sweep has failed the job for good (`jobs/worker.py:339`);
  `jobs cancel`, `jobs expire` and a standalone worker's expiry (`jobs/worker.py:245`)
  reach no key store but their own. The key then stays until the process restarts, or
  discards it for a request to cancel the job once more.
- The key store is swapped before the queue decides (`api/services/job_manager.py:463`):
  a run may be paid for by a request that was answered with 409.
- A journal replaced under an empty watermark (`storage/context.py:692`) after a cut
  bulk load leaves quads of the old one.
- `seen` marks units that a mint refuses later; the mint operation id does not name
  the namespace. A torn manifest is repaired by hand.
- The retry of a merge whose target was defaulted is refused.
- Task tree: merging a task into itself deletes its links, merging into a task that is
  gone orphans them, moves that close a cycle hide tasks from tree and exports, and an
  approved child of an unapproved parent is missing from all exports but the ontology.
  Discovery overwrites a reviewer's move with the parent it read.
- A torn `.owl` is archived and makes every later ontology export fail. JSON-LD gives
  proposed classes no `@id` and leaves the units of child tasks out.
- The server serves the units it read first after an extraction replaced them; the
  number of unreviewed units can fall below zero.
- `identity/binding.py`: two binds of one subject that overlap may both be recorded;
  only the deferred web phase would run them side by side.

## 8. Plan

Done: the components of section 1 that keep shared state, and the theorems above; every
safety property of a passing run is among them. Left, in this order:

1. `WrittenAtItsHead`, on top of `LedgerInv`, once judgments and imports are in it.
2. `EdgesReachEveryNode`: the edges of the walk come first in the order of what is kept.
3. `ReplayedWasStored`, by induction over the edits that are undone.

## 9. Not modelled

*Framework registry*: records of the proposal ledger, authorized in its transaction.
*Shard envelope and identity*: record types, hashing, signatures, DID resolution; the
models take a verified signature as given. *Text services and bridge, validation,
reasoning and polysemy, measurement, rubric and benchmarks, compiled shapes, RFC
linter, kernel data, scripts*: functions of their inputs, without shared state.
*api/auth.py* and the browsing pages of the viewer only read. Inside modelled
components, `PROJECT.json` says of each what is left out.

## 10. Running

In this directory: `tlc -config <cfg> <module>` for a run of `PROJECT.json`, each in
less than five minutes on two cores, and `tlapm <module>` for `Counting` and the
`_proofs` modules.
