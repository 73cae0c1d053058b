# A TLA+ development for 0-coding-llm

The repository builds a pre-training corpus, packs it, trains a model on it and
releases the result.  Most of its code that is hard to get right is not
arithmetic on tensors: it is publication by rename, resumption from a journal,
leases, stop requests, evidence that must belong together, and checks that
refuse to go on.  This directory models those parts in TLA+, checks them with
TLC on small instances, and proves central safety properties with TLAPS.

Paths below are relative to the repository root; `data.py`, `train.py` and
`materialize.py` are in `src/pretrain/`.

## 1. The system

Data flows in one direction, each stage publishing a directory that the next
one authenticates by digest and never changes:

    collectors -> preprocess -> near-duplicate map -> curation -> selection
      -> raw token cache -> materialization (nine packed writers)
      -> training order -> qualification and run authority -> launcher
      -> trainer -> export and release;  post-training data and launch

| component | state it keeps | what is hard | what makes it correct | modelled |
|---|---|---|---|---|
| Collectors and quota tracker | JSONL shards, cursors, quota ledger, completion markers | parallel workers over one quota; a kill between checkpoint, renames and ledger; takeover of the serial frontier | no bucket exceeds its quota by more than an interval a worker; no row twice or lost | yes |
| Raw stream preprocessing | reports, error records, coverage, dedup index | a report published before its index row; a gate read while collectors run | reports, errors and index agree; the gate means every archive was audited | yes |
| English near-duplicate clustering | SQLite database, refinement cache, published map | unions in memory against rows; several files published one after another | the map is the connected components, however interrupted | partly |
| Corpus curation (database, local store, leases, fast launcher, publisher) | SQLite database on a pod, snapshots and lease on the volume, decision shards or keep bitmaps, two receipts | stale lease and snapshot; several passes; publisher bound to an old snapshot; hand runs beside the launcher | the choice is a function of the reports; the volume always holds what a run relies on; what is accepted is what was reported | partly |
| Raw token cache | token and offset files per archive, inventory | pools, stale stages, replaced archives and tokenizers | tokens and inventory of one tokenizer and of the reported archives | yes |
| Materializer, packed shard writer | nine writers' directories, bridge journal, orders, provenance, lock | nine commits without a transaction; crashes in a replay | output equals that of an uninterrupted run | yes |
| Portable finalizer, postcuration orchestrator | staged orders; nothing | two programs in one directory; a third that reads it at any moment | one complete publication; no false "damaged" or "complete" | yes |
| Packed reader, training order | order files with the smaller of two sets of rows | domain boundaries, complements, resume offsets, replaced directories | every selected row once, same for every world size | yes |
| Training loop, stop protocol, supervisor | per rank: state, metadata, save cache, loader position; per launch: stop file, exit codes | ranks seeing a stop at different times; postponed validation; same-step save cache | ranks never part; the rows learned are the order's | yes |
| Checkpoint lineage and lease | `last`, `last.previous`, part files, links, `flock` | power failure around renames; two launches; recovery from `previous` | a good generation remains; a save that returned survives | yes |
| Qualification, authority gates, launcher preflight | write-once evidence | inputs replaced between looks, reboots, torn pairs, renewed evidence | what is launched is what was qualified, and its saves have room | partly |
| Model release; post-training data and launch; dataset cloning | directories, a remote repository | partial upload or download | a whole release or dataset | no |
| Model, kernels, tokenizer identity, environments, monitors, benchmarks | tensors or nothing | numerical or read-only | - | no |

`PROJECT.json` lists every component with its sources and status, and every
hazard of the code with the line where it bites.

### How the modelled parts interact

* The collectors grow a directory that preprocessing audits at the same time.
* Curation reads the published near-duplicate map.  The fast launcher runs
  curation as its child; the orchestrator reads what the launcher left, binds
  the publisher to it, then cache, inventory and materialization; curation and
  the publisher may be run by hand beside them.
* A packed writer's caller owns the source cursor; it hands one to
  `checkpoint`, reads it back after a resume and feeds from there.  The
  materializer is the caller of nine of them.
* The materializer and the portable finalizer share the output directory, the
  lock file and the bridge journal; phase `packed` is the hand-over.
* The order's rows reach the trainer through a loader that starts at the
  checkpoint's `completed_microbatches`; the checkpoint is the only thing one
  launch leaves to the next.
* The launcher inspects mount, checkpoints, orders and authority before any
  lease is taken and then supervises torchrun; it reaches the ranks by a
  stop-request file and they answer by exit codes.

## 2. Plan

| modules | question |
|---|---|
| `Collection`, `Collectors`, `Preprocess`, `Intake` | may parallel workers overrun a quota, lose or repeat a row; do reports, index and gate agree? |
| `EnglishNearClusters` | is the map the reference clustering after any interruption? |
| `CurationRules`, `CurationDatabase`, `Curation` | is the selection a function of the reports, over leases, snapshots and kills? |
| `AllEligiblePublisher`, `SelectedCorpus`, `CurationHandoff`, `Selection` | is what the orchestrator accepts what the launcher's child reported, and can it be packed? |
| `RawTokenCache`, `Corpus` | do the tokens that are packed come from the archives and the tokenizer the inventory names? |
| `PackedStream`, `PackedShardWriter` | does a packed build survive any interruption and publish the reference? |
| `Materializer`, `PortableFinalizer`, `Orchestrator` | do nine commits and one journal add up to the uninterrupted build, with two programs in one directory and a third reading it? |
| `PackedReader`, `TrainingOrder`, `TrainingRun`, `Trainer` | is the learned sequence the order's, over stops, kills, relaunches and replaced directories? |
| `CheckpointLineage` | does a good generation always remain? |
| `SealedEvidence`, `Qualification`, `LaunchAuthority` | is what is launched what was qualified, and do its saves have room? |

Still to be written, were the development to go on: `SftDownload`, `HfRelease`,
`DatasetClone` (partial downloads, uploads, renames and clones).  Every module
keeps its parameters in named assumptions, has one action per operation or file
operation, and uses no `RECURSIVE` operator.  Section 5 says which of them have
proofs and what is planned there.

## 3. What models what

### Collection, Collectors, Preprocess, Intake

`Collection` is the ledger of a collection: archives, quota records, completion
markers, as the collectors promise it.  `Collectors` has the serial Stack
collector, the parallel one with its plan and supervisor, and the English ones
(two programs that are line for line the same, hence one action set): rows are
written, checkpoints and renames made one by one, targets tested against totals
read at the last commit; a stop, a failing worker or the loss of the machine with
all its processes may come anywhere, and a relaunch comes when they are gone.
`Preprocess` has discovery, analysis, publication of reports, error records, the
dedup index in its modes, and the gate; it runs beside a collection that grows
as `Collection` promises.  `Intake` composes them in two scenes.

### EnglishNearClusters

A document is its archive, its text, its shingles and its band keys.  An action
is one transaction or one replacement of a file: inventory, blocks, candidates,
the refinement cache, unions, flattening, the files of the map.  The parent
array is memory and lost in an interruption.  A controlled stop, the resource
gate and a kill are one action; `CHECKPOINT.json` and the operational log are
left out; how alike two documents are is computed from their shingles; the
calibration evidence is data.

### Curation

`CurationRules` has the order of preference, clusters and quotas, and the
reference selection computed from all documents at once.  `CurationDatabase`
has the phases as transactions over keyset cursors, with the emission of
decisions and the checks at each phase's end.  `Curation` has the pods:

| state | code |
|---|---|
| `local[p]` | the SQLite database on the pod's disk (or on the volume, mode `durable`) |
| `snaps`, `canonical` | generations of `curation_local_store.py` with database, manifest, checksum and retirement receipt; the promoted database |
| `lease`, `claims`, `tokens` | the cross-client lease, recovery claims, leases ever taken |
| `procs[p]` | where a process is, its token, the stale token an operator named |
| `decisions`, `manifest` | output of `finalize` |

The lease is a file that is linked, read, archived; the advisory `flock` beside
it is not assumed to be shared between clients.  An operator names the token of
a dead owner; a kill between claim and archive stops for manual review
(`Blocked`).  Periodic snapshots are taken at the stages in `job.due`.
Promotion is one step: the backup link that a kill inside `promote_latest` leaves
beside the new database (`curation_local_store.py:1009`), a full copy of the old
one, is not counted by `VolumeSound`.  Leases are bounded by the
interruptions.  Storage admission, mounts and WAL upkeep are left out, and a raw
payload does not change.
A run starts from an inventory that ingestion accepts (`SoundJob`); one with a row
it refuses never gets past the stage of that archive.

### AllEligiblePublisher, SelectedCorpus, CurationHandoff, Selection

The publisher binds the newest complete snapshot of a chain it authenticates,
writes one keep bitmap per archive under a checkpoint, and publishes manifest
and checksum; a change of what it bound poisons its publication.
`SelectedCorpus` is what `materialize.py` makes of a selection before it packs:
the acceptance of manifest, bitmaps or decisions, the split each document gets,
and the totals compared at the end.  `CurationHandoff` has the launcher (child,
result, receipt), runs by hand, and the orchestrator's inspection, an operator
evaluated in every state.  `_atomic_new` creates a file and then fills it, so a
launcher that dies leaves a torn file (0), which blocks.  A dead launcher leaves
its child running.  Split thresholds and digests are `SplitOf`; comparisons of
frozen identities are data.  `Selection` composes the near stage and curation,
which never run at once.

### RawTokenCache and Corpus

Archive contents are stamps (the even ones are the bytes the report names); a
token is tokenizer, document and position.  Builders are serial or pools whose
workers inherit the lock or not (chosen initially); stages are swept, committed
and resumed; the inventory certifies a complete set; the join reads documents
back.  Archives and the tokenizer may be replaced, workers and parents killed.
Documents keep their counts under another tokenizer, and the inventory's stage
directory is left out.  `Corpus` composes the cache and packing, which takes
what the cache promises as given.

### PackedStream and PackedShardWriter

`PackedStream` is what a construction promises: longer and longer committed
prefixes of one token stream, then one publication of the rows cut from all of
it.  `PackedShardWriter` is `data.py:215-1063` with the caller that feeds it.

| state | code |
|---|---|
| `buf`, `documents`, `content`, `rows`, `masked`, `shards`, `digest`, `opened`, `dirty`, `cursor` | the attributes of the writer |
| `dir` | `.shard-*.part` and final shard files: contents and how much of them is fsynced |
| `journal`, `manifest`, `temps` | `.packing-journal.json`, `manifest.json`, and temporaries of `_atomic_json` |
| `pc`, `at`, `finishing`, `fed` | the place between two system calls; the caller's position |

There is an action for each system call after which the process may die.
`JournalRaises` is a failing call whose exception reaches a caller that may go
on.  A fail-closed check that fails leads to `refused`, where only an operator
can help: that state is what `ResumeNeverRefuses` excludes.  A token is its
stream position, so "the same bytes" is "the same positions".  Directory
operations survive a crash in the order they were made; file contents survive
only up to their last fsync.

### Materializer, PortableFinalizer, Orchestrator

| state | code |
|---|---|
| `writer[d]` | durable state of a packed writer, as `PackedStream` promises it |
| `stream`, `shard`, `cursor`, `fed` | what a run holds in memory |
| `left`, `todo` | the destinations a loop has still to visit, in sorted order, and the splits or provenance files |
| `indexParts`, `indexFiles`, `indexManifest` | `provenance/documents/<split>/<domain>` |
| `journal` | `.materialization-journal.json` |
| `orders`, `staging`, `provenance`, `manifest`, `sidecar` | the published rest; `.<split>.part` and `.<split>.portable-part` |
| `temps`, `pending` | a temporary in the output root, the `atomic_json` in progress |

A run may die at every step; `ControlledStop` is `max_archives`, a job with
`stop` is `--stop-after-packing` or mode `heldout`.  `outcome = "unrecoverable"`
is any fail-closed check that no configuration could satisfy; `"refused"` is the
rejection of a configuration that does not fit what is published.
`WritersPromised` maps every writer to `PackedStream`, which `PackedShardWriter`
implements (`Promised`).  `PortableFinalizer` adds the jobs and the steps of the
finalizer; the lock keeps one run at a time, which is why there is one `pc`.
`Orchestrator` is the orchestrator's inspection of that directory, evaluated in
every state; the run it starts is a packing run of the materializer.  Its own
configuration freezes no geometry (`Unfrozen`), so a corpus whose orders a final
run published is refused, not complete.

### PackedReader, TrainingOrder, TrainingRun, Trainer

`PackedReader` is a window of a packed row with what it supervises;
`TrainingOrder` counts domains, selects rows, stores the smaller of the selected
and the left-out rows, permutes and slices, and validates.  Both are operators,
compared with references over the instance's corpora.  `Trainer` has one process
per rank with its own program counter, meeting only in collectives; weights are
the sequence of row sets learned.  `TrainingRun` is the launch around it: order
and corpus are built, replaced, looked at four times and opened.  What is inside
an update, a validation or a save is left out (a save is whole or absent here,
which is what `CheckpointLineage` establishes); so are W&B, RNG and signature
checks.  A rank that is given a microbatch without supervised tokens raises and
the launch dies (`Learns`, `RefuseUpdate`), at every launch if it is in the
order: one of the corpora has such a row, and `RunCompletes` promises the end of
a run only for orders without one.  A builder that dies leaves a directory that is refused and
removed by hand.  `DistributedBatchSampler.state_dict` and `load_state_dict` are
used by no production code and are not modelled.

### CheckpointLineage

`train.py` from the lease to the load, for any number of competing launches.
Generations are inodes; a name has a value in memory (`last`, `prev`) and the
set of values a power failure may leave (`lastOnDisk`, `prevOnDisk`), which
collapses only at a directory fsync.  `Acquire`, `Reconcile` (the sweep),
`Load`, `Update`, then a save step by step, `Exit`, `Die` and `PowerFailure` at
any point, and `Corrupt` for storage that goes bad.

### SealedEvidence, Qualification, LaunchAuthority

Evidence is written once, as a file and then its checksum.  `Qualification` has
the supervisor of one candidate after the other (plan, two phases with a resume
between them, journal, result, failure, summary), the trainer under it, kills,
reboots, inputs that are replaced and put back; `Init` picks one kind of fault.
Rates and whether a measurement passes are nondeterministic; a checkpoint's boot
is a ghost.  `LaunchAuthority` has an operator who certifies, qualifies, accepts
a geometry, has a run authority collected and launches; the launcher's looks at
mount, checkpoints, room, orders and authority in their order; and the run with
its saves.  A commit stands for a clean tree with its hardware contract, and may
or may not change the sources of the two validators, which is all that
certificates and the corpus qualification name of it (`run_authority.py:879` and
`1663`); argv,
recipe, economics and pod are compared as identities; data is edited only while
writable, remounted only while nothing relies on it; what happens between the
launcher's last look and exec is not seen by it.  `Capacity > Peak` is assumed:
with room for exactly the peak, what a killed save leaves, swept only after
admission, makes every relaunch refuse.  A hard-linked pair of generations
(`launch_pretraining.py:935-949`) is made by no code path and left out.

## 4. Runs

| run | instance | what it shows |
|---|---|---|
| `Intake_acquisition` | 3 Stack shards with 2 workers, 1 English source, checkpoints every 2 rows, 2 faults, 1 trouble | `ScanWithinQuota`, `CollectorsRecoverable`, `AuditHolds`, the ledger refines `Collection`, and both ends are reached |
| `Intake_gate` | same, no faults | finding 4 |
| `Curation_runs` | 288 initial states: every relation of three documents by text, cluster, group, flag and profile; batches of one row interrupted anywhere; pods with local databases; handoffs with a kill, runs by hand that retire the reported snapshot, and a document without a source; four near-duplicate inventories with 3 interruptions | `TablesExact`, `PublishedExact`, `VolumeSound`, `HandoffConsistent`, `NearMappingExact`, `SelectionCompletes` |
| `Curation_kill` | a pod with a local database, 1 kill | finding 5 |
| `Corpus_recipes` | 3 writers, 3 archives, 2 geometries, 3 interruptions, one program alone or the handoff or a mix; cache: 2 archives, 2 pool slots, batches of 2 documents or 3 tokens, 2 faults | `AlwaysResumable`, `PublishedIsReference`, `PublicationExact`, `CacheExact`, `PublishedIsFinal`, `RecipeCompletes` |
| `Materializer_hardkill` | 1 interruption, temporaries survive | finding 3 |
| `Trainer_run` | 2 ranks, 2 microbatches an update, 3 updates, 5 launches, 2 stops, 1 kill, 1 swap, 3 corpora (one whose order has a row that supervises nothing), 4 order policies | `RanksAgree`, `LearnsTheOrder`, `NothingLeftUnsaved`, `OrderExact`, `ProgressInOrder`, `RunCompletes` |
| `CheckpointLineage_rotation` | one launch at a time with 4 generations, 2 steps, 2 faults, 1 bad file; or 2 competing ones with 3 generations | four generations are the fewest for a rotation, a rollback, a save after it and a rotation of that one |
| `CheckpointLineage_fresh` | 2 launches, 3 generations, 1 fault | finding 2 |
| `Delivery_runs` | three scenes: a packed writer (3 documents, 12 tokens, rows of 2, shards of 2 rows, 3 faults); a grid of 2 geometries, 1 kill, 1 edit; a launch with room for 4 generations, 3 saves, 2 tenants, 3 troubles | `ResumeNeverRefuses`, `CommitsHold`, `Promised`, `BuildConcludes`; `QualifiedIsMeasured`, `AcceptedIsFastest`, `GridConcludes`; `LaunchedIsQualified`, `SavesHaveRoom`, `LaunchConcludes` |
| `Delivery_finalorder` | the qualification scene without faults | finding 6 |
| `PackedShardWriter_hardkill` | the writer, 1 fault, temporaries survive | finding 1 |

The bounds stop counters (faults, interruptions, launches, leases, generations)
and sizes.  The protocols compare cursors, names and phases with each other and
never with a constant, so what differs between two and nine writers, or three
and a thousand archives, is only how often the same comparison is made.  Each
instance is large enough for a fault in the recovery from an earlier one, except
in `Curation_runs`, where a job has one kill (leases, snapshots and hand runs
multiply the states) and several jobs share the kinds of trouble.  Deadlock is
checked where the system cannot stop; a bounded instance of the others really
stops, when its generations, faults or documents are used up, or at a refusal.

### Fairness

* Writer: weak fairness of its and the caller's steps: the caller is a loop over
  a finite source, and an interrupted build is run again by its operator.
* Packing and cache: weak fairness of a run; strong fairness of asking for each
  stage of a recipe, since another run holding the lock makes it impossible for
  a while.  Nobody is assumed to know when a stage has finished.
* Intake: weak fairness of each process; strong fairness of launching what is
  not running and of a preprocessing pass with `--retry-errors` and its gate.
* Curation: weak fairness of each pod's process and of its relaunch, of the
  launcher, orchestrator and publisher; none for runs by hand.
* Training: weak fairness of building, preparing, ranks and supervisor; strong
  fairness of an operator putting back a replaced directory.
* Qualification and launch: weak fairness of supervisor, trainer, the operator
  and the run; strong fairness of launching the grid again.

Faults are never fair: every liveness property says what happens once there are
no more of them.  Completeness is stated modulo what stops for an operator
(`Blocked` of curation, `Mixed` of the cache, `OrderTeaches` of a run).

## 5. Proofs

Every proof module extends the component's module and has the same plan: an
inductive invariant `IInv` made of named parts, one lemma per action (or group
of actions) that keeps it, `IInv` as a theorem of the specification, and then the
properties, each from `IInv` or from one more step.  TLC checked every `IInv` on
the instances of section 4 before it was proved.  The theorems hold for every
value of the constants that their module's assumptions admit.

### CheckpointLineage_proofs

For any set of launches and any bounds (`BoundsAssumption`: natural numbers;
`NoneAssumption`: `None` is not a generation or a launch): `TypeOK`,
`PublishedWhole`, `TwoGenerations`, `CommitSurvives`, `KnownGoodKept`,
`LivePartKept`.  None of them is inductive.

* `Exclusive`, `Idle`, `Newest`, `InPart`, `Flushed`, `Replaced`: who holds the
  lease, and what is known of the generation being saved at each place of a
  save.  Exclusion makes "the newest generation is mine" stable.
* `OnDisk`, `Known`, `Below`, `LinksKnown`, `Ordered`, `Committed`: what any
  pair of names that a power failure may leave looks like.  The key is
  `Ordered`: ids only grow from the rollback name to the latest name, under
  every such pair; with `Below` the next publication keeps it so.

The two halves of `SoleRotation` (the rotation is bounded, and a rejected
generation is never retained) need that launches do not overlap, `Sole`: finding
2 is what a second launch does that read the directory before it held the lease.
`RotationStaysBounded` and `RejectedIsNeverRetained` state them of every
behaviour with `[]Sole`, the first for `PeakGenerations >= 3`; `SoleLaunches`
states the property for the schedules of `MCSpec` and finitely many launches.
`SInv` adds to `IInv` that a rejected file is a bad one (`Rejects`), that *steps*
grow with ids from rollback to latest except over a rejected latest
(`StepOrder`), and what the one launch at work knows at each place: its
temporaries are its own, and it keeps what it loaded (`Own`).

### Trainer_proofs

For any number of ranks, schedule and bounds (`GeometryAssumption`,
`ScheduleAssumption`, `TrainerBoundsAssumption`, `NoneAssumption`; of the run
also `OrdersAssumption`: the orders are those `BuiltOrder` builds, the held-out
one among them): `RanksAgree`, `NothingLeftUnsaved`, `ProgressInOrder`, and that
update *k* learns the *k*-th window of the one order the run is bound to, on
every rank and in the checkpoint (`LearnsInOrder`: `WindowsLearned`).

* `Alike`, `Together`: ranks hold equal states and stand at places that can
  meet in the same collective; `Located` says which validations and saves a
  place has behind it.
* `Voted`, `WindsDown`: a vote to stop is never taken back, and after the ranks
  agreed on one there is no way to another update.
* `Sane`, `Cached`, `Kept`, `Saved`, `Reported`: loader, save cache, checkpoint
  and exit codes against the state.
* For the run `RInv`: who is past the preparation (`Staged`), that the verified
  authority is the order the checkpoint is bound to (`Authorised`), and that what
  is kept and learned are the windows of that order (`KeptInOrder`,
  `LearnedInOrder`).

`LearnsTheOrder` has a second half, `WithinAuthority`, which compares sums of
tokens; it stays with TLC.

### Curation_proofs

`VolumeSound`, with a launcher beside curation and without: one process owns the
output, and promotion or retirement never leave more databases than the
retention (`CurationAssumption`: at least 2).  `Holders`: the token in the lease
names at most one process past taking it.  `Recoveries`: a claim is won once, by
a process that read the stale token.  `OnePartial`: only the newest generation
may lack its manifest; `Retained` bounds the payloads.

`TablesExact` and `PublishedExact`, for any inventory, policy and number of pods
(`PolicyAssumption`: every quota is positive, every group has a split of the
order, no split twice, as the policy is checked for at
`curate_corpus.py:880-905`; `SoundJob` of `CurationInit`: no two rows of the
reports share a document id or a rank, the primary key of `documents` and a
digest of it, and each has tokens, as ingestion refuses others).

* `BooksSound`: every database, on the volume, on a pod, in a snapshot or under
  a process, is `Curated`: for each table, what the stages before `db.at` must
  have left in it and how far the stage at `db.at` has come.  `EveryStage` says
  which stage stands at which place, so that a stage's lemma (`InventoryBatch`,
  `KeysBatch`, `QuotaBatch` and the like) needs no other stage.  Kills, restarts, promotion and retirement
  only move databases, and only the one process that owns the volume
  (`VolumeInvariant`) changes one.
* A batch stage marks an initial segment of its keys, in their order: the keys
  not behind the cursor are the larger ones, and `BatchStep` gives the next
  `BatchRows` of them, the last batch the rest.  A stage completes only with no
  key left, hence with the table of the reference (`CompleteStep`).
* The quota: the document at which a quota fills is cut to what is left.  After
  each batch what is left is the quota less the tokens of the rows selected, and
  of the documents ahead those fit that would have fitted at the start
  (`QueueResumes`): the selection does not depend on where batches end.
* `OutputsSound`: every decision shard on disk is the reference's, and a
  manifest stands for a complete set.  A restart may file a shard again; it
  files the same one, since its database is `Curated`.

`HandoffConsistent`, with the launcher, the orchestrator, curation and publisher
by hand, and the materializer's acceptance of what they leave
(`PublisherAssumption`: `None` is neither a bitmap nor a checkpoint).

* `HandoffSound`: a process that ends with a result snapshots the finished
  database it works on (`ClosingSound`) into the newest generation
  (`BegunSound`); what the launcher saw reported, or wrote, is a complete
  generation of a finished database (`LauncherSound`).  A complete generation is
  never taken back or rewritten (`StoreStep`): retirement removes its payload,
  and a cleanup or a new generation touches only the one without a manifest.
* `PublisherSound`: a publisher binds only a database with complete groups, and
  there `BooksSound` makes what is not rejected the reference's choice
  (`OffersChosen`).  Hence every bitmap is the reference's, from whichever
  generation it was bound to and whoever resumes it; a checkpoint counts what its
  committed bitmaps keep; a manifest has the totals of the lines of the quotas.
* A signed selection packs (`SignedPacks`): the rows that keep a document are, in
  both forms of a selection, those of one set of documents with the tokens taken
  of each (`PackedIs`), so that what is observed is a count over that set
  (`ObservedIs`), as the totals of the manifest are (`SupplyCounted`,
  `TotalsCounted`).  Two chosen documents never share a text or a cluster
  (`PackedApart`), and a split is a function of the source.

### EnglishNearClusters_proofs

`NearMappingExact`, for any inventory whose documents have finitely many shingles
and whose band keys are their places in the order of the blocks, any threshold
and batch (`NearAssumption`).  The invariant (`NearStaysSound`) says of every
table what the transactions before it left, and of the array in memory that it
is the one a restart would load.

* Blocks, candidates, edges: pairs are read in one order, so a cursor stands for
  the set behind it; a cache file holds the pairs of its batch whether or not its
  row was committed.
* Unions.  A set of documents is `Uncut` by an array of parents when it holds a
  document and its parent both or neither.  `find` changes no uncut set, `union`
  of an edge takes away those the edge leaves; after the last edge the uncut sets
  are those that split no cluster, and a flat array with parents at or before
  their children maps a document to the least of its cluster.  The least
  counterexample of a set of numbers takes the place of an induction along a path
  (`RootsExist`) or over the edges of a batch.
* What a transaction writes (`RowsTouched`: the ends of its edges, which `find`
  compressed, and their roots) covers every entry in which the array differs
  from the table.

### Delivery_proofs

`QualifiedIsMeasured` and `AcceptedIsFastest` for any geometries, lengths and
number of faults (`QualificationAssumption`).  `Coherent` and `Measuring` carry
the first: the files of a candidate agree with each other, and a directory in
which a torchrun may have outlived its supervisor (a log without a journal, or
the second phase's log) is never measured in again.  `Chained` and `Commanded`
tie the plans to the inputs of their command, `Summarised` ties the summary to
the results.  That a fastest candidate exists is the well-foundedness of strict
inclusion of finite sets (a minimal set of faster ones), not an induction.

`LaunchedIsQualified` and `SavesHaveRoom` (`LaunchAssumption`: there is more
room than a rotation's peak).  `Truthful`: content that changes gets another
identity, so what evidence vouches for is true while the files it names are in
place.  `Relying`: once the mount was looked at, nothing under it changes.
`Roomy`: the room a launch admitted is a whole rotation's, whatever its saves and
those of killed runs have used.  `InTurn`: which looks a place has behind it.

### PackedShardWriter_proofs

For any stream of documents, row length and shard size (`NumDocsAssumption`,
`DocEndAssumption`, `DimensionAssumption`, `NoneAssumption`, `FaultAssumption`):
`CommitsHold`, `ResumeNeverRefuses` unless the temporary of a manifest survives
a kill (finding 1), and the refinement `Promised`.

* Every file holds the reference rows of its place (`Ref`, `Placed`), so that
  only lengths have to be compared; that the rows cut from a stream are the
  reference ones is a lemma on division.
* Memory and journal are the stream cut at a position (`Stream`, `Rested`), and
  the boundaries counted so far are those of the documents before it, by a
  bijection.
* A journal is backed: each of its shards is there once, under one name, on
  stable storage; what the journal does not name is exactly what a resume
  removes.

A step maps to a commit of `PackedStream` exactly when it replaces the journal,
to its publication when it replaces the manifest, and to a stutter otherwise.

### Packing_proofs

About `CorpusSpec`, the materializer, the finalizer and the orchestrator on one
directory, for any archives, destinations, geometries, targets and number of
interruptions (`DestinationsAssumption`, `TargetAssumption`, `NoneAssumption`,
`MaterializerBoundsAssumption`): `PublishedIsReference`, `PublicationExact`,
`OrchestratorExact`, `PublishedIsFinal` with the refinement of `PackedStream` by
every writer, `AlwaysResumable` for `~TempSurvives` (finding 3 is what
happens otherwise), and `CacheExact` for any archives, token counts, pool slots,
batch limits and faults (`RawAssumption`).

* Positions are counted, not listed: `Place` is the number of kept documents
  before a place in the archives, a cardinality, so that what a recursion over
  the archives would compute needs no induction.  `PlaceStep`, `PlaceTurn` and
  `PlaceEnds` are its only facts, `PlaceOf` says that the reference lists the
  documents by place, and `RowsCounted` does the same for index rows.
* `CursorExact` is the heart of `Durable`: a cursor counts the documents up to
  its archive, its index lists exactly the archives that have some, and each
  shard starts where the one before it ends (`CursorAdvances`).  Writers are at
  most one archive apart, which makes the replay of one archive safe.
* `Filed`: an index shard on disk is the one of its archive, wherever it came
  from, so a replay never disagrees with it.  A shard may be there for an
  archive nobody has committed.
* `Held`: what a run knows at each place; the feed loop invariant is that a
  lagging writer's stream and shard stop at the place of the next document.
* `Journalled` and `Ordered`: the journal claims no more than the writers have,
  and what vouches for a publication is a journal of phase "packed".  A
  portable run finds it still in that phase, because nobody else holds the lock.
* `Manifested`: once a checksum is there the manifest describes the directory,
  and no step but the end of the journal is left.
* `Staging` is about the two documented recipes only: one program makes the
  orders, so a leftover of the other never lies beside a published order.  In a
  mixture of both it may, and `AlwaysResumable` does not claim otherwise.
* `RawSound` is the invariant of the cache.  `RawWorkers`: what a process at work
  has written, an orphan of a killed pool included, is the tokenization of the
  documents it is through with, whichever documents a flush took (`RawFlush`:
  always at least one).  Token positions are counted like the places above
  (`RawSizes`, `RawPlaces`), so that neither concatenation (`RawEncoded`) nor the
  running offsets (`RawOffsets`) need induction, and a finished cache gives back
  its documents (`RawSpans`).  `RawCachesStep`: a cache that is there is never
  replaced, hence once the set is complete nothing changes it (`Full`), which is
  what lets the publisher and the join go archive by archive without a lock on
  the caches: each has met only its own tokenizer so far (`RawSession`,
  `RawJoin`).  `RawAlone`: a process that fails without a builder is an orphan, so
  it does not touch the publisher's session.

### Intake_proofs

About `IntakeSpec`, for any shards, workers, targets, faults and troubles:
`AuditHolds`, `CollectorsRecoverable`, `ScanWithinQuota` and the refinement
`CollectionPromised`.  `RowsAssumption` says that a row is a document where it
stands (rows at different places of a source differ, even with the same text)
and has one bucket of its source; `CollectorsAssumption` that workers and targets
are what the configuration admits, at least one worker among them;
`GrownAssumption` that the collection beside the preprocessor consists of
archives.

* The preprocessor (`AuditInvariantHolds`): what a pass has in memory is
  recorded and not yet reported, and a snapshot taken by the gate is a lower
  view of everything read after it.  Clusters of texts are added archive by
  archive (`ClusterAdds`), by counting, without a fold.
* Recovery (`CollectInvariantHolds`): names.  A worker's numbers stay in its
  residue class above the plan's base, the legacy frontier's below it, so no two
  processes ever use one name; an archive is sealed before it is checkpointed,
  checkpointed before it is renamed, renamed before it is recorded.
* The scan (`ScanInvariantHolds`).  `ScanDone` and `Missed`: what a process has
  checkpointed stands behind its cursor in its own assignment, and what stands
  there and is not checkpointed was in a full bucket; `ScanOpen`: the same
  between the cursor and the place where it reads.  That two assignments have no
  row in common is arithmetic on residues (`MineApart`).
* The overshoot.  Totals are read at different times, so `Views` says that there
  is a chain of earlier states of the ledger such that each process goes by one
  of them, and that each bucket was below its target in one that contains
  everything but the last checkpoint of each process.  The chain is what makes
  it inductive: of two readings one contains the other.
* The refinement.  `Settled`: nobody goes on before his own archives are in
  place, and the parallel collector has taken over all others'; `MarkedOver`: a
  source with a marker is at rest.  Hence a rename is `Finalize` in an open
  source, a quota record is `Record`, a marker is `Close` over a complete ledger,
  what a kill leaves is `LeavePending`, and every other step a stutter.

### Only model-checked

* Liveness (`SelectionCompletes`, `RecipeCompletes`, `IntakeCompletes`,
  `BuildConcludes`, `GridConcludes`, `LaunchConcludes`, `RunCompletes`): neither
  fairness nor ENABLED is within the prover's reach.
* What a fold or recursive function computes for every input: `OrderExact`,
  `LearnsTheOrder` (of an order, `WindowsLearned` is proved) and `WithinAuthority`.

## 6. Findings

1. `PackedShardWriter_hardkill`: a hard kill between the manifest's temporary
   and its rename leaves `.manifest.json.*`, an unknown file for the next
   resume (`data.py:574`), although the journal is intact; only journal
   temporaries are reclaimed (`data.py:382-390`).
2. `CheckpointLineage_fresh`: a launch without `--resume` checks for existing
   generations before it takes the lease (`train.py:3679`) and not under it; one
   that waited while another launch trained overwrites its `last`, against
   `docs/training/training.md:208`.
3. `Materializer_hardkill`: the same window in the output root of the
   materializer (`materialize.py:268-283` and `3977`): the temporary of the
   journal, the manifest or the checksum makes every later run refuse.
4. `Intake_gate`: the gate reads the report coverage first and the collection's
   closure afterwards (`scripts/preprocess_raw_stream.py:2022` and `2100`); a
   collection that ends in between passes `--require-closed-collection` with
   archives no report covers, against `docs/data/streaming-preprocess.md:112`.
5. `Curation_kill`: a retirement publishes its receipt and the receipt's
   checksum as two files (`scripts/curation_local_store.py:778`); a kill in
   between makes every snapshot invalid, although the databases are intact.
6. `Delivery_finalorder`: the command that publishes the selected order requires
   a field `dropped_tail_rows` (`geometry_qualification.py:2832`) that its record
   calls `dropped_rows` (`data.py:3047`), and refuses every order.

The other runs assume that a killed process leaves no such temporary or torn
pair (`ManifestTempSurvives`, `TempSurvives` are FALSE) or leave the case out
(`Blocked` in `Curation_runs`, a ledger that changed under the gate in
`Intake_acquisition`), so that they say what holds apart from it.  Narrower cases are listed as
hazards: an order staged by a materializer that died and then published by the
portable finalizer, a manifest without its checksum that the publisher would
complete but the orchestrator refuses first, and the schema of the near-cluster
database committed before its identity rows.

## 7. What is not modelled

* Identity and format checks of resumes, and digests of immutable inputs: they
  hold by configuration.  Digests of files the programs themselves write are
  modelled, as equality of contents.
* Temporaries in subdirectories (index manifests, provenance), which no check
  looks at.
* `until_step`, telemetry and the arithmetic of an update; a save's inside in
  Trainer, a packed writer's inside in Materializer.
* Of curation and its neighbours: the supply audit, the inventory stage, storage
  admission, mounts and WAL upkeep, the calibration of the near-duplicate
  thresholds.  Of the gates: the qualification of a pod, the overfit probe.
* A parallel supervisor killed alone: its workers are no daemons and live on
  (`collect_stack_v3_parallel.py:532`), no lock keeps a relaunch from starting a
  second set over the same sequences and archive names, and the properties of
  the collectors are then not claimed.  The model has the machine go as a whole.
* Model release, post-training data and launch, dataset cloning: directories
  published or copied whole, still to be written.
* Numerical code (model, kernels), the tokenizer's identity, read-only observers
  (monitors, reporters, benchmarks): see the notes in `PROJECT.json`.
