------------------------------- MODULE TrainingRun -------------------------------
(***************************************************************************)
(* A training run and the data it learns (main, _run_initialized_training  *)
(* and Trainer of pretrain/train.py over pretrain/data.py).                *)
(*                                                                         *)
(* The order is built once.  Every launch reads its geometry, verifies it, *)
(* compares the checkpoint with it and opens it again on each rank: four   *)
(* looks at a directory an operator may replace in between.                *)
(***************************************************************************)
EXTENDS Trainer, TrainingOrder

CONSTANTS Corpora,     \* packed corpora
          HeldOut,     \* the one validation reads
          Policies,    \* order policies
          Orders,      \* the orders that can be built of them, see Built
          Seed,        \* the shuffle the run's order is built with
          EvalBatches, \* eval_batches
          MaxSwaps     \* bound: times the operator replaces the order

(* A hash of an order is its key.                                          *)
Keys == {key \in {[corpus |-> c, policy |-> p, shuffle |-> s] :
                     c \in Corpora, p \in Policies, s \in Shuffles} :
            Buildable(key.corpus, key.policy)}
Built == [key \in Keys |-> BuiltOrder(key.corpus, key.policy, key.shuffle)]
HeldOutKey == [corpus |-> HeldOut, policy |-> [target |-> Unset, frozen |-> Unset],
               shuffle |-> Seed]

ASSUME RunAssumption == EvalBatches \in Nat \ {0} /\ MaxSwaps \in Nat
ASSUME OrdersAssumption ==
    /\ HeldOut \in Corpora /\ HeldOutKey \in Keys /\ Unset \notin Keys
    /\ Orders = Built /\ Seed \in Shuffles

Readable == {key \in Keys : LoadedOrder(Orders[key], FALSE)}
Lesson == [c \in Corpora |-> [e \in {e \in AllReferences : Decoded(e)[2] < RowCount(c[Decoded(e)[1]])} |->
    LET ends == c[Decoded(e)[1]]
    IN  LossTokens(ReadRow(ends, PackedManifest(ends), Decoded(e)[2]))]]

VARIABLES
    corpus,    \* the packed corpus
    directory, \* the order directory: Unset, or an order and whether it is whole
    setup,     \* setup[r]: what rank r has done of a launch's setup
    geometry,  \* geometry[r]: the order whose manifest main read
    authority, \* the order rank zero verified and broadcast
    opened,    \* opened[r]: the order the loader of rank r maps
    learned,   \* references each update of the trainer's trajectory learned
    bound,     \* the order whose identity and geometry the checkpoint carries
    kept,      \* learned, in the checkpoint
    swaps

files == <<corpus, directory, swaps>>
launching == <<setup, geometry, authority, opened>>
trajectory == <<learned, bound, kept>>
runVars == <<vars, files, launching, trajectory>>

RunInit ==
    /\ Init
    /\ corpus \in Corpora \ {HeldOut} /\ directory = Unset /\ swaps = 0
    /\ setup = [r \in Ranks |-> "idle"] /\ geometry = [r \in Ranks |-> Unset]
    /\ authority = Unset /\ opened = [r \in Ranks |-> Unset]
    /\ learned = <<>> /\ bound = Unset /\ kept = <<>>

Whole == directory # Unset /\ directory.whole

-----------------------------------------------------------------------------
(* Building: the payload, then the manifest.                               *)

Frozen(key) == <<Orders[key].manifest.policy.frozen, Orders[key].manifest.consumption>>

(* frozen_training_geometry; train.py takes its configuration from it, or  *)
(* refuses the one it was given.                                           *)
Configured(key) ==
    /\ key \in Readable
    /\ key.policy.frozen = [rows |-> GlobalRows, accumulation |-> Accumulation]
    /\ Orders[key].manifest.consumption.updates = MaxSteps

(* The orders of a run of MaxSteps updates over its corpus.                *)
Mine == {key \in Keys : key.corpus = corpus /\ Configured(key)}

WritePayload(key) ==
    /\ directory = Unset /\ key.shuffle = Seed
    /\ directory' = [order |-> key, whole |-> FALSE]
    /\ UNCHANGED <<vars, corpus, swaps, launching, trajectory>>

PublishOrder ==
    /\ directory # Unset /\ ~directory.whole
    /\ directory' = [directory EXCEPT !.whole = TRUE]
    /\ UNCHANGED <<vars, corpus, swaps, launching, trajectory>>

CanLaunch == Down /\ outcome # "done" /\ (outcome = None => launches = 0) /\ launches < MaxLaunches

(* The operator puts another whole order in its place; the one the run is  *)
(* bound to is put back before a launch.  Training reads no directory: an  *)
(* order replaced meanwhile is one replaced before the next launch.        *)
Swap(key) ==
    /\ Whole /\ CanLaunch /\ swaps < MaxSwaps /\ swaps' = swaps + 1
    /\ key # directory.order /\ directory' = [directory EXCEPT !.order = key]
    /\ UNCHANGED <<vars, corpus, launching, trajectory>>

Restore ==
    /\ Whole /\ Down /\ (\A r \in Ranks : setup[r] = "idle")
    /\ bound \notin {Unset, directory.order}
    /\ directory' = [directory EXCEPT !.order = bound]
    /\ UNCHANGED <<vars, corpus, swaps, launching, trajectory>>

-----------------------------------------------------------------------------
(* A launch, rank by rank; a failure on one rank ends it on all.           *)

AllSet(stage) == \A r \in Ranks : setup[r] = stage

Abandoned ==
    /\ setup' = [r \in Ranks |-> "idle"] /\ geometry' = [r \in Ranks |-> Unset]
    /\ authority' = Unset /\ opened' = [r \in Ranks |-> Unset]

ReadGeometry(r) ==
    /\ CanLaunch /\ setup[r] = "idle" /\ Whole
    /\ Configured(directory.order)
    /\ setup' = [setup EXCEPT ![r] = "read"]
    /\ geometry' = [geometry EXCEPT ![r] = directory.order]
    /\ UNCHANGED <<vars, files, authority, opened, trajectory>>

SameRunByGeometry(verified, read) == bound # Unset => Frozen(bound) = Frozen(read)
SameRunBeforeBroadcast(verified, read) ==
    bound # Unset => bound = authority /\ Frozen(bound) = Frozen(read)
(* load_checkpoint: the data identity and the frozen geometry.             *)
SameRun(verified, read) ==
    bound # Unset => bound = verified /\ Frozen(bound) = Frozen(read)

(* _distributed_verify_order, the trainers and the resume.                 *)
Verify ==
    /\ AllSet("read") /\ Whole
    /\ IF \A r \in Ranks : SameRun(directory.order, geometry[r])
       THEN setup' = [r \in Ranks |-> "verified"]
       ELSE setup' = [r \in Ranks |-> "refused"]
    /\ authority' = directory.order
    /\ UNCHANGED <<vars, files, geometry, opened, trajectory>>

(* create_training_dataloader: the manifest again, and its sources.        *)
OpenLoader(r) ==
    /\ setup[r] = "verified" /\ Whole
    /\ IF Configured(directory.order) /\ ResolvedOrder(Orders[directory.order], corpus)
       THEN setup' = [setup EXCEPT ![r] = "opened"]
            /\ opened' = [opened EXCEPT ![r] = directory.order]
       ELSE setup' = [setup EXCEPT ![r] = "refused"] /\ UNCHANGED opened
    /\ UNCHANGED <<vars, files, geometry, authority, trajectory>>

(* _raise_if_distributed_stage_failed: every rank gives up.                *)
GiveUp ==
    /\ \E r \in Ranks : setup[r] = "refused"
    /\ \A r \in Ranks : setup[r] \in {"opened", "refused"}
    /\ Abandoned
    /\ UNCHANGED <<vars, files, trajectory>>

StartTraining ==
    /\ AllSet("opened")
    /\ \E track \in BOOLEAN : Launch(track)
    /\ setup' = [r \in Ranks |-> "training"]
    /\ learned' = kept
    /\ UNCHANGED <<files, geometry, authority, opened, bound, kept>>

-----------------------------------------------------------------------------
(* Training.                                                               *)

(* _validate_batch_source, before the first update.                        *)
SourceValid(r) == opened[r] = authority /\ Frozen(opened[r]) = Frozen(geometry[r])

(* A microbatch of a rank has to hold a token to learn, or the rank raises. *)
Supervises(c, rows) == \E e \in rows : Lesson[c][e] > 0

Window(r, a) == {Orders[opened[r]].payload[p + 1] : p \in Slice(r, loader[r] + a)}
Batch == UNION {Window(r, a) : r \in Ranks, a \in 0..Accumulation - 1}

(* The tokens a trajectory learned: what the collator left to learn in the *)
(* rows of its windows.                                                    *)
Learned(windows) ==
    SumOf([k \in DOMAIN windows |-> SumOf([e \in windows[k] |-> Lesson[corpus][e]])])

(* The order's authority over an update: no token beyond the frozen total, *)
(* and exactly the total when the last is done.                            *)
WithinAuthority ==
    LET after == Learned(Append(learned, Batch))
        frozen == Total(Orders[geometry[0]].manifest.consumption.supervised)
    IN  IF state[0].steps + 1 = MaxSteps THEN after = frozen ELSE after <= frozen

WindowsSupervised(r) == \A a \in 0..Accumulation - 1 : Supervises(corpus, Window(r, a))
Learns == (\A r \in Ranks : SourceValid(r) /\ WindowsSupervised(r)) /\ WithinAuthority

Learn ==
    /\ AllAt("update") /\ Learns
    /\ learned' = Append(learned, Batch)
    /\ Update
    /\ UNCHANGED <<files, launching, bound, kept>>

Crash ==
    /\ AllDown /\ exit' = [r \in Ranks |-> None]
    /\ Abandoned
    /\ UNCHANGED <<state, cached, loader, requested, vote, checkpoint, supervisor, counters,
                   files, trajectory>>

(* A rank raises instead of updating; the others die with it.              *)
RefuseUpdate ==
    /\ AllAt("update") /\ ~Learns
    /\ Crash

(* ValidationRunner: the first batches of the held-out order, every time.  *)
HeldOutOrder == Orders[HeldOutKey]
ExaminedIn(r, b) == {HeldOutOrder.payload[p + 1] : p \in Slice(r, b)}
Examined == [r \in Ranks |-> UNION {ExaminedIn(r, b) : b \in 0..EvalBatches - 1}]
HeldOutUsable ==
    /\ HeldOutKey \in Readable /\ HeldOutOrder.manifest.policy.frozen = Unset
    /\ EvalBatches <= HeldOutOrder.manifest.rows \div GlobalRows
    /\ \A r \in Ranks, b \in 0..EvalBatches - 1 : Supervises(HeldOut, ExaminedIn(r, b))
    /\ SumOf([r \in Ranks |-> Cardinality(Examined[r])]) = EvalBatches * GlobalRows

Validate == HeldOutUsable /\ Evaluate /\ UNCHANGED <<files, launching, trajectory>>

(* The checkpoint carries the data identity of the trainer that wrote it.  *)
Commit ==
    /\ Save
    /\ IF Skipping = {}
       THEN bound' = authority /\ kept' = learned
       ELSE UNCHANGED <<bound, kept>>
    /\ UNCHANGED <<files, launching, learned>>

Ends == (Kill \/ ForceStop) /\ Abandoned /\ UNCHANGED <<files, trajectory>>

Leave(r) ==
    /\ Exit(r)
    /\ setup' = [setup EXCEPT ![r] = "idle"] /\ geometry' = [geometry EXCEPT ![r] = Unset]
    /\ opened' = [opened EXCEPT ![r] = Unset] /\ UNCHANGED authority
    /\ UNCHANGED <<files, trajectory>>


Building == (\E key \in Mine : WritePayload(key)) \/ PublishOrder
Preparing == (\E r \in Ranks : ReadGeometry(r) \/ OpenLoader(r)) \/ Verify \/ GiveUp
Working ==
    \/ Learn \/ RefuseUpdate \/ Validate \/ Commit
    \/ (\E r \in Ranks : Leave(r))
    \/ ((Reduce \/ \E r \in Ranks : Poll(r)) /\ UNCHANGED <<files, launching, trajectory>>)
Supervising == (SupervisorReturns \/ PublishStop) /\ UNCHANGED <<files, launching, trajectory>>
Aside == (Stop \/ Finished) /\ UNCHANGED <<files, launching, trajectory>>

RunNext ==
    \/ Building \/ Restore
    \/ (\E key \in Mine : Swap(key))
    \/ Preparing \/ StartTraining \/ Working \/ Supervising \/ Ends \/ Aside

RunSpec == RunInit /\ [][RunNext]_runVars

(* Builder, ranks and supervisor keep running, an interrupted run is       *)
(* launched again, and the operator puts back the order it is bound to.    *)
FairRunSpec ==
    /\ RunSpec
    /\ WF_runVars(Building) /\ WF_runVars(Preparing) /\ WF_runVars(StartTraining)
    /\ WF_runVars(Working) /\ WF_runVars(Supervising) /\ SF_runVars(Restore)

-----------------------------------------------------------------------------
(* Properties.                                                             *)

\* What a reader, a builder and a validation make of the packed corpora is what
\* those corpora hold: see ReaderExact and OrderExactOf (DomainMixtureDataset,
\* build_training_order, ValidationRunner).
ExactCorpora == {c \in Corpora : \A d \in DomainIds : ReaderExact(c[d])}
ExactOrders == {key \in Keys : OrderExactOf(Orders[key], key.corpus)}
OrderExact ==
    /\ {corpus, HeldOut} \subseteq ExactCorpora
    /\ {key \in Keys : key.corpus \in {corpus, HeldOut}} \subseteq ExactOrders
    /\ HeldOutUsable

WindowsOf(order, n) ==
    [k \in 1..n |-> {Orders[order].payload[p + 1] :
                        p \in (k - 1) * Accumulation * GlobalRows
                                  ..k * Accumulation * GlobalRows - 1}]

\* Update k learns the k-th window of rows of ONE order, the one the run is bound
\* to, on every rank and in the checkpoint, however often the run was interrupted
\* and whichever look at the order directory found another order there: no row is
\* skipped, learned twice or taken from elsewhere (load_checkpoint,
\* _validate_batch_source).
WindowsLearned ==
    /\ \A r \in Ranks : Exact(state[r])
    /\ checkpoint # None => kept = WindowsOf(bound, checkpoint.steps)
    /\ AllAt("update") => learned = WindowsOf(authority, state[0].steps)

\* And the order's own accounting never refuses an update of such a run
\* (Trainer.train: "would exceed the frozen order authority").
LearnsTheOrder ==
    /\ WindowsLearned
    /\ AllAt("update") /\ (\A r \in Ranks : SourceValid(r)) => WithinAuthority

(* The order in place gives no rank a microbatch it cannot learn from.     *)
OrderTeaches ==
    directory # Unset =>
        \A r \in Ranks, b \in 0..MaxSteps * Accumulation - 1 :
            Supervises(corpus, {Orders[directory.order].payload[p + 1] : p \in Slice(r, b)})

\* With finitely many stops, kills and replacements of the order, and a launch
\* after each, the run is completed and reported so, when no order put in place
\* gives a rank a microbatch without supervised tokens: there the run dies in
\* every launch (train, supervise_torchrun, "Microbatch contains no supervised
\* tokens").
RunCompletes == <>(outcome = "done" \/ ~OrderTeaches)
=============================================================================
