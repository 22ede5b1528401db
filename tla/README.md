# JMFTS: a verification of its queue, its tree and its facts

JMFTS is a retrieval appliance on PostgreSQL. Documents form a tree; an upload
creates a node with one task, and a fleet of workers runs that task and the
tasks it leads to until the tree is extracted, structured, embedded, summarized
and *settled*, which is when search may see it. Summaries may be bought in
batches from a provider, and SHACL rules derive facts from asserted ones. These
modules model the machinery that many processes share: the `task_queue` table
with its two kinds of workers, their crashes and recovery, the walk that settles
nodes, the log of what happened to each, the tree of documents while sessions
move and delete in it, and the table of triples.

Paths below are relative to the repository. "Load" and "flush" are SQLAlchemy's:
a session keeps a copy of a row and writes back the columns it changed, by
primary key, when the transaction commits.

## 1. Inventory

| Component | State | Operations | Modelled in |
|---|---|---|---|
| Task rows (`models/task_queue.py`, `repositories/task_queue.py`) | status, owner, retry count, retryable, retry time, lease clock, batch; scope, write mode and dependencies, which never change | enqueue, claim_next, mark_running, complete, fail, mark_batched, touch_heartbeat, requeue_stale_claims, requeue_expired_claims | QueueRows, TaskLifecycle, and through the workers |
| Ingest worker (`ingest_worker.py`) | thread of control, heartbeat thread, the open session | run_once, _record_failure, recover_own_claims, reap_expired, drain_document, the loop | IngestQueue |
| Settle walk and rollup planner (`settling.py`, `rollup_tasks.py`) | `documents.settled`, row locks | settle_node, settle_walk, enqueue_batch, the planner | IngestQueue |
| Ingest requests (`services/ingest_service.py`, `document_service.py`) | documents | upload, inline drain, delete and its walk; corrections, deduplication | IngestQueue (upload, drain, delete) |
| Attempt log (`repositories/document.py`, `evidence.py`) | one list per document | append, upsert_attempt | AttemptLog |
| Batch worker (`jmfts_batch/`) | a pass's locals, batches at a provider, parked rows | poll, deliver, walk, gather, prepare, submit, mark_batched | BatchQueue |
| Document tree (`repositories/document.py`, the path trigger in `sql/schema.sql`) | parent_id, path, position | create, reparent, delete | DocumentTree, Forest (position is left out); the queue modules hold the tree constant |
| Triples and derivation (`repositories/triple.py`, `shacl_rules.py`, `derive_tasks.py`) | rows unique by their fact; invalidation, successor, the rule that wrote it | upsert, invalidate, supersede, delete; run_derive_rule | FactStore |
| Evidence other than the log, blobs, renditions | rows written whole | write, read | no |
| Task plan (`ingest_tasks.py`, `atoms.py`) | none | which tasks a format gets | its results are the models' constants |
| Task handlers (`structure_tasks.py` and a dozen more) | documents | read bytes, write nodes, enqueue successors | only as what the queue sees: commit or raise, nodes made, tasks enqueued |
| Readers, embedding, summarization, search, ontologies, access rules, REST service, clients, tooling | various | various | no; reasons in section 9 |

How they interact. Nothing but the database is shared. A worker calls
`claim_next` in one transaction, `mark_running` in a second, the handler and
`complete()` in a third, or, when the handler raised, `fail()` in a fourth; then
it walks up the tree with one transaction per level, which may enqueue the next
rung of a rollup. A thread beside it renews the row's lease all the while. Any
idle worker may become the reaper, under a try-lock, and fail the rows whose
lease has run out; a worker with a stable id first fails the rows its earlier
incarnation held. A batch worker claims several rows the same way, sends their
texts to the provider, trades the claims for `batched` and walks away; any batch
worker delivers the batch later. A request handler may upload, move, delete and
walk, or claim tasks itself for one document (the inline drain). Every read is
at READ COMMITTED, so between any two statements of one transaction others may
commit.

What is hard about it, and what correctness means for each part:

* **Queue.** A row is written by its worker, the reaper, a recovering worker and
  a cascade, each from a copy loaded earlier and with no version test. Correct
  means: one executor per claim, no two conflicting reservations, work committed
  once and together with the row, completed for good, retries bounded also when
  the task kills its worker, dependencies first, and every claim given up again.
* **Settle walk.** Several workers walk into one node at once; tasks and
  children appear and vanish meanwhile. Correct means: a rollup is enqueued once
  and over finished inputs, nothing is published over unfinished work, and
  nobody is forgotten.
* **Attempt log.** Half of its writes are read-modify-write. Correct means: it
  says of each task how its last try ended, and loses nothing.
* **Batch worker.** The provider and the database cannot commit together, a
  batch outlives the worker that sent it, and a batch's answers arrive all at
  once or with some missing. Correct means: a parked row names a batch that
  holds its request, an answer is bought once per try and stored once, each
  completed task is walked from, and nothing stays parked for good.
* **Document tree.** The cycle guard and the paths are computed from unlocked
  reads, while a trigger computes the path once more. Correct means: no parent
  is missing, there is no cycle, `path` is the chain of ancestors, a childless
  move moves a childless node.
* **Facts.** A retracted fact keeps its row; a supersession links two rows; a
  derivation replaces what its rule wrote before, beside other runs and callers.
  Correct means: what was retracted stays retracted, the chain of versions
  neither forks nor forgets, a rule's rows are what it concludes.

The full list of hazards, each at its line, is in `PROJECT.json`.

## 2. Modules

| Module | What it is |
|---|---|
| QueueRows | The row and the tree as data: statuses, the claim predicate, retry arithmetic, flushes. Constants and their assumptions |
| TaskLifecycle | Abstract specification: what the queue promises of each row. Two variables, `row` and `effects` |
| IngestQueue | The queue with ingest workers, sessions, leases, recovery, the settle walk and requests |
| BatchQueue | The queue with batch workers, the provider, the reaper and deletions |
| AttemptLog | One document's attempt list, beside rows that take TaskLifecycle's steps |
| Forest | Abstract specification: a forest whose nodes are added, moved and removed |
| DocumentTree | parent_id and path under sessions that create, move and delete at once |
| FactStore | Triples under callers' requests and derivation runs |
| MCIngestQueue, MCAttemptLog, MCBatchQueue, MCDocumentTree, MCFactStore | Small instances for TLC |
| TaskLifecycleProofs, IngestQueueSafety, IngestQueueSettling, AttemptLogProofs, BatchQueueProofs, ForestProofs, DocumentTreeProofs, FactStoreProofs | Theorems (section 7) |

Composition: IngestQueue and BatchQueue extend TaskLifecycle, which extends
QueueRows. They share `row` and `effects` with it, so that they implement it
under the identity: `LifecycleSpec` and `BatchLifecycle` say so of each. AttemptLog
stands on the other side: it takes TaskLifecycle's actions for granted, which
the refinement justifies for the deployments named in section 6, and conjoins to
each what it does to the log. DocumentTree implements Forest under a mapping
(`F == INSTANCE Forest WITH above <- ...`): a node's ancestors are the ids in its
`path`. FactStore stands alone. QueueRows takes the tree as constant; what
justifies its assumption on `Path` is DocumentTree's PathIsChain, which is
proved.

## 3. How the models read the code

**Transactions.** A transaction that reads and later writes is two actions. The
first ("Load") copies what it read; the second flushes: columns whose new value
differs from the copy overwrite what is in the table, the others keep it
(`Flush` in QueueRows, `Invalidated` in FactStore). An UPDATE of a row that was
deleted raises, as the ORM does, and rolls back (`StaleWrite`). `claim_next` is
one SQL statement under an advisory lock and one action.

**Rows.** A task is a constant with a scope, mode and dependencies; `absent` and
`gone` stand for a row that does not exist yet or any more. `retry_after` is the
Boolean `backoff`, and the lease clock the Boolean `lapsed`: time is whatever
order TLC chooses. `LeaseExpires` may happen whenever no live worker beats for
the row, or at any time if `Pauses` says that a live worker may miss its beats.

**Ingest workers.** `pc[p]` is where `run_once`, the reaper, the recovery or the
walk of process `p` stands. Workers in `Loopers` run `_loop`; the others are
inline drains, which never reap. Clients upload and delete. `StableIds` says
whether a restarted worker has its old id (the appliance and the Kubernetes
manifests) or a fresh one (inline drains); with fresh ids, recovery by id finds
nothing.

**Settling.** `SettleLock` is SELECT FOR UPDATE, the three tests and the
planner; `SettleCommit` enqueues what was offered or settles and moves up;
`SettleStop` ends the walk. `lock` says who holds a document's row between the
two; an UPDATE of that row, or an INSERT of a child under it, waits. The planner
is a ladder: `Rungs[n]` for each number of children (the code fingerprints the
child set) lists the tasks in the order in which they are offered, and the
planner offers the first that the attempt log lacks.

**Handlers.** What a handler computes is left out; `HandleCommit` makes the
nodes whose `Maker` the task is, enqueues the tasks whose `Spawner` it is, and
completes the row in one step. A node is born in flight when the handler has
enqueued anything on it or below it, and settled otherwise (`BornAs`; this is
`_TreeWriter.write`'s rule for sections, and the sheet reader's for tables), so
that a section above a chunk cannot be taken for finished. A rung may hand its
work on in this way too, as a summary is handed to a worker with a model.

**Log.** In AttemptLog an append is one step on the stored list. A replacement
is a read (`HandleRead`, `RecordRead`, `ReapRead`) and a later write of the
whole list that was read. A handler that has already appended its successors'
entries holds the row's lock from then on (`writer`), so that its read is
current. The reaper fails all abandoned rows in one transaction, each reading
what the one before wrote.

**Batches.** A pass is `run_once`: `polls` are the batches found outstanding,
each is skipped or loaded under the batch lock and delivered in a later step;
`held`, `todo`, `sheaf` and `botched` are the gather's claims, those still to be
prepared, those with a request, and those to be failed one by one; `debts` are
the settle walks that come after the commit, each one step here (IngestQueue has
the walk itself). An exception that nothing catches loses all of these. The
provider is external: it takes requests under a fresh id, and ends or gives up a
batch; for each request it returns a text, a refusal, a transient error or
nothing. An answer whose application raises counts as a refusal or a transient
error. The lease of a gathered claim lapses freely once its worker is gone and
at the price of a fault while it lives (`overrun` remembers that it did).

**Tree.** A session holds at most one transaction. CreateInsert is the INSERT's
trigger, which reads the parent's row, CreateCommit the foreign key's share lock
and the commit; MoveLoad is everything `reparent` reads, MoveWrite the UPDATE
whose trigger reads the new parent's path, MoveCommit the descendants' UPDATEs
and the commit; DeleteLoad is the ORM's cascade reading children, DeleteCommit
the DELETEs with ON DELETE SET NULL. A write that must wait for a row lock is
not enabled; a deadlock or an error is Abort. Since no caller in the repository
passes `childless_only`, both kinds of move are present side by side.

**Facts.** A row is named by its fact and its generation. A request that loads a
triple keeps the copy in its session; Supersede and Invalidate write later. A
lock that is held to the commit is one action with it. A derivation is three
actions: reading the graph and mapping, the DELETE's snapshot, and the rest of
the transaction. What a rule concludes is the constant `Entails`.

**Faults.** A crash, a database error, a provider's error or a request's timeout
uses one of `MaxFaults`, and in BatchQueue so does a deletion. A handler of an
ingest worker may raise at any time, which is no fault: the retry cap bounds it.

## 4. Runs

All runs have two workers, sessions or callers; bounds are in the .cfg files.
Deadlock is not checked because the systems are meant to run dry and stop, or
their request counters are used up.

| Run | Question | Result |
|---|---|---|
| Fleet | Four tasks on a file and its chunk, an advisory one and a dependent one among them; failures, one crash or database error, the reaper, the file's deletion under way | Types; no conflicting reservations; one executor; work committed once, and with its row; a failed node has a cause; completed rows stay; the queue implements LifecycleSpec |
| Paused | A workbook whose links are proposed after its sheet was profiled; the sheet may be deleted; workers that outlast their lease, one fault | Even when OneExecutor fails or a dependency vanishes, dependencies come first and starts stay bounded |
| Appliance | One looper with a stable id beside an inline drain; a chunk, its rollup and its deletion; one fault, fairness | LifecycleSpec again, with recovery by id; every claim is released; the queue runs dry; without a fault every node in flight settles, unless something failed or it was deleted |
| Rollup | A file in a library, a section with a chunk in it; a rung for the section and two for the file, the first of which hands its work on; two pools of workers; a second upload, deletions of either file as a whole | A rollup is enqueued once, in its turn and over inputs that are finished all the way down; nothing settles over unfinished work or with a rung missing |
| History | Four tasks that all write the document itself, one crash | The log matches the rows, has an entry per try, and loses nothing |
| Batch | Two sections to summarize, one of which may shrink below the window; two batches, one fault or deletion, fairness | A parked row is in its batch; bought once per try, stored once; a fault wastes at most one batch of a task; walks kept; each step is a lifecycle step; parked rows are released |
| Tree | Two shelves, a book, a page to be written; two moves of either kind beside creates and deletes | No dangling parent; childless moves stay childless; until a misleading overlap, path is the chain of ancestors and each step is a step of Forest |
| Facts | A chain of two rules over three facts, three requests, two runs at once | Retractions stand; successors are named; a rule's rows are what it concluded; an undisturbed run converges |
| Pods, LostEntry, TreeCycle, Fork | The findings of section 5 | A counterexample each |

Why these bounds. Every property of a pair needs two tasks that may conflict, a
dependent and an advisory one, and two workers so that a claim can be lost and
taken over; the reaper, the recovery and the holder are then the same two
workers in turn. One retry is enough for the cap to be reached and for a retry
to be told from a first try, one fault for work to be abandoned at each phase.
Paused needs a dependency on another document, so that it may vanish alone.
Rollup needs a container without work of its own between the work and the rolled
up file, two rungs to be out of order, two workers to meet in one walk (in pools,
which keeps them apart elsewhere), and a grandparent for the walk to go on to,
where a deletion's walk may meet it. Batch needs two ids for a task to be
bought twice, and two workers for adoption and for the race for the batch lock.
Tree needs two sessions with a transaction each; a cycle takes two nodes, a
stale descendant three. Facts needs a second generation for a name to be reused
by another row, and three requests for a load, a write in between and a stale
write. Symmetry permutes workers, sessions and callers and is used only in runs
without liveness. Section 7 says what holds at every size.

Beside these stand six configurations that are kept for the record, LateUpload,
DeleteSkipsRollup, Reopened, Drain, AdvisoryStall and LostWalk: each ends in a
counterexample, described in the next section.

## 5. Findings

* **A reaper's copy overwrites a completed row (Pods).** `requeue_expired_claims`
  loads the expired rows and writes them back by primary key. With several
  workers whose ids survive a restart, as `deploy/k8s` runs them, the owner may
  come back, recover, re-claim and complete the row in between; the flush turns
  it into a retryable failure, and the work is done again. With fresh ids, or
  one such worker, it cannot happen (proved).
* **A lost outcome in the attempt log (LostEntry).** Tasks with non-conflicting
  modes on one document, such as `render:pdf` and `structure:declared`, both
  replace their entry in the list they read; the later write takes the earlier
  outcome back to `pending`. Spec 5.6 says that no entry can be lost.
* **Two moves close a cycle (TreeCycle).** The cycle guard of `reparent` reads a
  path without a lock. Two sessions that move A below B and B below A both pass
  it, and their UPDATEs touch different rows. `settling.py:344` takes the guard's
  word that a walk cannot come back to a node. With childless moves alone there
  is no such interleaving (proved).
* **A version chain forks (Fork).** `TripleService.supersede_triple` loads the
  triple before the repository locks it, and the locking SELECT does not refresh
  the loaded object. The second of two callers waits and then tests what it had
  read before; both successors live, and one back-pointer is lost. The
  docstrings of both functions promise the opposite. `settling.py:187` shows the
  remedy, `populate_existing`.

Counterexamples on file that contradict no line of the repository as plainly:

* The walk after a delete carries NO_ROLLUP, and no later walk comes by: an
  ingest tree settles without its rollup (DeleteSkipsRollup).
* Between another worker's `complete()` and its settle walk no row is unfinished,
  although a rollup is about to be enqueued: a drain returns early (Drain).
* An advisory task whose last try ends by lease strands its node: neither
  recovery walks, and an advisory failure fails no node (AdvisoryStall).
* With such a deletion two walks may meet at a settled child: one offers it a
  rollup for the children it has left and reopens it, the other has counted it as
  settled and settles the parent over it, for the count locks no child's row
  (Reopened: SettlesOverFinished under DeleteSkipsRollup's constants). Where
  uploads and deletions stay outside of what is rolled up, whole trees that come
  or go included, it cannot happen (the run Rollup; proved).
* A settled parent stands above a child added later; the code leaves it alone
  deliberately (LateUpload).
* A document deleted between a delivery and its walk makes the walk raise, and
  the walks of the other tasks of that pass are lost (LostWalk). This is why
  WalksKept speaks of passes that nothing disturbed.

Seen while modelling, and stated as the limits of properties:

* A create below a node that moves at the same time ends up with the path of the
  old place: the trigger has read the parent's row before the foreign key waits
  for it. `_refuse_if_populated`'s docstring says the path is computed from the
  new parent; a test (`tests/test_ingest_scheduling_races.py`) admits that it is
  not. PathIsChain holds until such an overlap (`Misleading` lists them).
* `BatchWorker._fail` writes whatever the row's status is by then, which matters
  only after a lease lapsed on a live worker; StoredOnce and BoughtOncePerTry are
  stated for the rest. One batch is then still all that such a lapse wastes. A batch worker that claims tasks without a badge fails
  them, and so uses up their retries. One batch whose poll raises ends the pass
  before later batches and the gather.
* Requests to derive are not deduplicated, and two runs of one rule may overlap:
  the second DELETE does not see what the first inserted, so that rows the last
  run did not conclude may stay. OutputIsConcluded says how much: only what was
  concluded by runs committed since the last run's DELETE had looked (`beside`).
* A retraction without a successor, of a row that was loaded after its
  supersession, clears the back-pointer: `invalidate_triple` writes what it is
  told. HeirIsNamed counts that as the caller's decision.
* Asserting a fact that a rule holds returns the derived row, and the assertion
  is lost when the rule withdraws it. A derived row that was retracted or
  superseded comes back with the next run, as `access.py` documents;
  RetractionStands is about asserted rows.

## 6. Fairness and deployments

`Fairness` in IngestQueue is weak fairness of each worker's own steps, of its
recovery, its restart and its walks, of each client's walk, and of the two
clocks (a lease that nobody renews runs out, a backoff passes). Threads keep
running, the supervisor restarts crashed pods, `_loop` and `reap_expired` run on
timers, and a walk's row lock is held for one short transaction. Nothing is
assumed of faults, beats, raising handlers or clients' calls. TreeSettles
excuses behaviours with a fault, because a crash between the commit and the walk
strands the node, by design of `run_once`, and nothing in the repository
promises otherwise.

`Fairness` in BatchQueue is weaker: a batch worker that is up keeps running
passes (`run_forever` outlives a bad one), and the provider ends each batch (both
providers expire one at twenty-four hours). Nobody owes a crashed worker's
return; ParkedIsReleased excuses only states in which all are down, and requests
that the provider's results leave out, which `stalled_batches` reports.

`SafeDeployment` is the condition under which recovery touches only claims that
nobody acts on any more: no live worker outlasts its lease, and if ids are
stable there is at most one worker that recovers. Fleet and Appliance satisfy
it, Paused and Pods violate one half each. Its counterpart in
BatchQueue is that no lease lapsed on a live worker (`overrun`).

## 7. Theorems

All are checked by TLAPS for any number of tasks, nodes, workers, sessions,
facts, rules and faults, from the assumptions on the constants: they are of
their types, the tree of the start is one, with each document's parent in it, and
in the queue's modules the path is the finite chain of ancestors (which
PathsAreChains proves of the tree's own module); the attempt log's tasks are
finitely many, so that entries can be counted. Two
assumptions of IngestQueue say what handlers are. `HandlerAssumption`: a handler
makes nodes below its own document and enqueues there or on its document, as
every `enqueue` and `enqueue_batch` of a `run_` function does (`doc.id`,
`child.id`, `container.id`). `RungAssumption`: the planner offers tasks on the
node it was asked about, whatever its number of children, and nothing else
enqueues these.

Queue:

* `TypeCorrect` (IngestQueueSafety): `Spec => []TypeOK`. Alone, TypeOK is not
  inductive: it needs that a phase determines what the process holds and has
  loaded (`HasTask`, `HasNode`, `HasCopy`).
* `OneExecutorHolds` (IngestQueueSafety): in a safe deployment no two workers
  act on one claim. The inductive invariant `Ownership` is the argument: the
  worker between a claim and its terminal write is the row's owner, and the row
  is in the status its phase implies, unless the row went with its document
  (`HolderOwns`); a copy that will be flushed still equals its row
  (`FreshCopy`, `FreshRecovery`); a lapsed lease belongs to a claim nobody acts
  on (`LapsedIsAbandoned`); there is one reaper, and it and a recovery hold what
  nobody else holds (`OneReaper`, `Recovering`); and only failed rows wait
  for a backoff (`BackoffIsFailed`). Without FreshCopy a flush could write
  anything; without LapsedIsAbandoned the reaper could take a live claim.
* `QueueImplementsLifecycle` (IngestQueueSafety): `Spec => LifecycleSpec` in
  a safe deployment. Ownership makes every flush a write of the current row, so
  each step is a lifecycle step or leaves `row` and `effects` alone.
* `LifecycleSafety`, `LifecycleIsMonotone` (TaskLifecycleProofs): the abstract
  specification, the move into a batch and out of it included, has no
  conflicting reservations, commits work once, respects dependencies and never
  takes back a completed row.
* `QueueSafety`, `ReservationsAreExclusive`, `QueueIsMonotone`
  (IngestQueueSafety): hence so does the queue.
* `DependenciesComeFirst` (IngestQueueSafety): in every deployment, also those of
  Paused and Pods, where two workers may run one task. Only a handler's commit
  completes a row (`RowMoves`), so what is completed was done, also when a stale
  copy takes the row back later, and whoever works on a task claimed it when its
  dependencies were completed (`DoneBefore`).
* `CrashLoopsEnd` (IngestQueueSafety): in every deployment a task starts at most
  once more than it may be retried. Several workers may be about to start it,
  each with a claim that a reaper has freed meanwhile, so the invariant
  (`StartsCounted`) adds their number to the starts: together they are no more
  than the claims that the row has counted. No copy that is written back carries
  another retry_count or makes a row `pending` again (`MovesOn`), and no claim
  takes retry_count past the cap.
* `FailuresAreExplained` (IngestQueueSafety): a failed node has a task that
  failed for good, because a final failure is final: no copy written back late
  revives the row (Ownership again), and the two writes are one transaction.

Settling (IngestQueueSettling):

* `OneRollup`: in every deployment a rollup task is enqueued at most once. What a
  settling process plans is a rung of the node it has locked, and the log does
  not have it (`HoldsNode`); only settlers enqueue rungs and the lock lets one in.
* `NothingOwed`: in a safe deployment a settled node has no unfinished task.
  `QueueInv` adds to Ownership what the documents say (`Documents`): a document
  that is not there, yet or any more, has no live rows (`NoRowsYet`,
  `NoRowsLeft`), one that a handler makes is there only once that handler is done
  (`MakersDone`), and a settling process may still rely on its copy of `settled`
  and on the tasks it found done (`ReadsHold`).
* `RollupsComplete`, `WalksPublishFinished`: a settled node lacks no rung, and a
  node becomes settled in a state in which its tasks are done and its children
  settled, although the walk has looked one transaction step earlier and locks no
  row but the node's. `RollupInv` adds that what a settling process has read
  of the log and of the children stays true until it commits (`PlansHold`).
  That rests on `SteadyRollups`: uploads and deletions happen directly below
  documents that are never rolled up (a library, and what is above it), and no
  node that comes without work on it or below it has a rollup. Rollup, Fleet and
  LateUpload are such deployments; Appliance and DeleteSkipsRollup are not, and
  section 5 says what goes wrong there.
* `RollupsAfterInputs`, `FinishedAllTheWayDown`: in such deployments a rung is
  enqueued in its turn, while nothing at or below its node owes work any more;
  and everything below a settled node is settled. The code never looks that
  deep: a walk reads one node's tasks and its children's `settled`. `TreeInv`
  makes up for it. A document's parent is there as long as it is
  (`ParentsThere`), and a settled document's children are settled
  (`ChildrenSettled`): no handler makes a child of a settled document, because a
  handler at work keeps its own document unsettled and makes its nodes in one
  commit, and one that is born settled has nothing but settled documents below
  it (`BornAs`). From the children it is an induction down the tree
  (`AllTheWayDown`), by the lowest of what a path, being finite, can reach
  (`LowestFirst`). The order of the rungs is the planner's (`OfferInTurn`), and
  the ladder does not change under it, for the children of a finished node stay
  (`ChildrenStay`).

Attempt log (AttemptLogProofs):

* `TypeCorrect`: types, for any write modes. A copy of the list may be written
  back late, so the invariant also says what a copy may name: tasks that have a
  row, or that the handler holding the copy is about to enqueue (`Seen`).
* `LogIsTheRow`, `EntriesAreTries`, `RecordIsDurable`: where no two tasks of the
  document may run at once (`OneAtATime`: every two of them conflict), the log
  says of each task what its row says, has one entry per try, and no step takes
  an outcome back. The condition is needed: LostEntry is what happens without it.
  The invariant `LogInv` is the argument. One task at a time is held, and by one
  worker (`OneBusy`), so a list that was read is still the stored one, up to the
  successors' entries that the same transaction has appended (`ReadIsFresh`); a
  task that has never been tried has no retries on its count
  (`FirstTryPending`); and the number of a task's entries and the status of the
  last are a function of its row (`Recorded`), which each write maintains: the
  end of a first try replaces the pending entry, the end of a retry finds a
  terminal one and appends.

Batch path (BatchQueueProofs): what the run Batch checks, but for liveness and
OneWastePerFault.

* `TypeCorrect`: types; the invariant adds which lists are empty in which phase
  (`PassFits`).
* `ParkedCanBePolled`: a parked row's batch holds its request. A batch's requests
  are fixed when the provider takes it (`BatchesStand`), and a worker that is about to
  park has a batch that holds all of its sheaf (`Addressed`), so it does not
  matter whose claims the rows are by then.
* `BatchImplementsLifecycle`: while leases lapse on the dead only, each step is a
  lifecycle step. The invariant is `Hands`: what a worker has gathered is its own
  claim, in the status of the list it is on, and what it is delivering is as it
  was loaded, unless the row was deleted. `LocksHeld`, that two workers never
  deliver one batch, is what keeps the loaded copies fresh.
* `StoredAtMostOnce` follows from it and from the lifecycle's own invariant.
* `OneAnswerPerTry`: by induction on the purchases of a task. A try in which
  nothing was bought yet has bought no more than the tries before it
  (`Tried`); a failed submission ends the try whether or not the provider took
  it, and the next claim counts it.
* `NothingWasted`, `NoWalkForgotten`: as long as nothing has failed, every
  request of a batch in work is that of a row parked there, or of the worker
  about to park it (`AllAwaited`), and every completed task is on the list of a
  worker that has its pass (`Undisturbed`). The first is OneWastePerFault without
  a fault; the run checks it with one. How many batches several faults may waste
  is a sum over the claims that are in two hands, and not proved.

Tree:

* `ForestStaysOne` (ForestProofs): growing, moving and pruning as the guards have
  it keep any forest a forest: nobody is his own ancestor, ancestors of
  ancestors are ancestors, and they lie on one line.
* `TypeCorrect`, `ParentsAreThere`, `PopulatedStay` (DocumentTreeProofs): types; a
  row's parent exists however creates, moves and deletes overlap; a childless
  move commits only for a node without children. They are parts of one inductive
  invariant (`IInv`): an id being inserted is in no other session's hands
  (`Unborn`), a move has loaded its two nodes, which differ (`Loaded`), and while a
  session holds its node FOR UPDATE no child is committed below it, which is the
  docstring's argument.
* `ChildlessMovesCloseNoCycle` (DocumentTreeProofs): where all moves are
  childless there is never a cycle, even where paths are stale, because the
  moved node has nothing below it that its target could be.

* `PathsAreChains`, `ActsAsForest` (DocumentTreeProofs): until two sessions
  overlap in one of the ways `Misleading` lists, every row's `path` is the chain
  of its ancestors and there is no cycle, and every step of the sessions is a
  step of Forest or none. `ChainInv` states the chain without recursion: what
  stands at place i of a path is there, and its own path is the first i - 1
  places (`Chained`), and the last place is the parent (`ParentIsLast`). It adds
  what of a session's reads may still be trusted, by the kinds of write that
  were committed since (`Trusted`): the path below a target as long as nothing
  was moved, a move's copies of its branch as long as nothing was created, a
  delete's as long as rows were only deleted. Each kind of overlap that is not
  misleading leaves what the session is about to use among the trusted.

Facts (FactStoreProofs):

* `TypeCorrect`: types, and only an invalidated row names a successor.
* `RetractionsStand`: neither an assertion nor a derivation makes a retracted
  asserted row live again. It needs that the rows a run's DELETE saw carry its own
  rule as long as they stand (`DoomedIsDerived`), so that no asserted row goes in
  the very step that inserts.
* `HeirsAreNamed`: a superseded row names the successor last minted for it as long
  as that exists. The invariant adds that a named successor is no later than the
  generation that its fact has reached (`HeirIsPast`): a name that stands after a
  step stood before it, and a row written anew never takes the place of an heir.
* `OutputsAreConcluded`: what carries a rule's identity was concluded by its last
  run or by one committed beside it, however runs overlap (`SnapshotHolds`: each
  row the rule has was seen by the DELETE of a run in flight, or concluded by a
  run committed since).
* `RunsConverge`: an undisturbed run leaves exactly what its rule concludes from
  the asserted facts (`UpToDate`: until somebody's step disturbs it, what
  a run has computed and what its DELETE saw are still so).

Only model-checked: the liveness properties (ClaimsAreReleased, QueueRunsDry,
TreeSettles, ParkedIsReleased) and OneWastePerFault. Every other invariant and
every action property of a passing run is stated by a theorem. Out of the prover's reach and left to TLC:
liveness under fairness and ENABLED, induction over data by the library's rules
(an induction over the tree is done by well-foundedness, as above), and
recursive operators (the modules use none).

## 8. Plan

1. Done: QueueRows, TaskLifecycle, IngestQueue, AttemptLog, BatchQueue, Forest,
   DocumentTree and FactStore, each with proofs of all the safety its runs check.
2. Proofs that would add most: the attempt log for modes of which only some
   conflict, per pair of tasks that do; a composition in which AttemptLog's rows
   are IngestQueue's.
3. Further modules: BM25 corpus statistics (re-index against refresh and
   deletion), `rederive_links`, sibling positions.

## 9. Not modelled, and why

* Readers, chunking, segmentation, embedding, ranking, SHACL evaluation: large
  sequential computations over data, which a small instance says little about.
* Search indexes, derived roots, blobs: state, but each operation is one
  transaction under one row lock or unique index; hazards are listed.
* Ontologies and shape bindings: written whole by one request.
* Access rules: pure functions of the tree, read at query time.
* REST plumbing, clients, web interface, tooling, evaluation: no state of the
  system; the deployment manifests are read for the workers' ids. They make up
  most of the repository's lines.
* Within the modelled parts: priorities and claim order (any claimable task may
  be claimed), attempt numbers and timings, the texts of errors, badges beyond
  "may this worker take that task", sibling positions, validity intervals of
  facts, and two handlers' commits of one task under Pauses as they affect the
  tree rather than the row.
* Direct ingest workers beside batch workers are not composed into one model:
  each set of workers implements the same lifecycle of the rows.
