-------------------------------- MODULE Trainer --------------------------------
(***************************************************************************)
(* A data-parallel training run: the ranks of one torchrun launch, their   *)
(* supervisor, and the checkpoint that carries the run from launch to      *)
(* launch (pretrain/train.py, DistributedBatchSampler of pretrain/data.py  *)
(* and supervise_torchrun of scripts/launch_pretraining.py).               *)
(*                                                                         *)
(* Every rank runs Trainer.train on its own; they meet only in collectives *)
(* and each decides from its own state which one comes next.  pc[r] is the *)
(* operation rank r is about to do and the place in train() it stands at.  *)
(* The weights are the history of the rows each update learned from.  How  *)
(* a save replaces the checkpoint file is the subject of CheckpointLineage:*)
(* here a save is whole or absent.                                         *)
(***************************************************************************)
EXTENDS Integers, Sequences, FiniteSets

CONSTANTS WorldSize,        \* ranks
          LocalRows,        \* local_batch_size: rows of a rank in a microbatch
          Accumulation,     \* gradient_accumulation_steps
          MaxSteps,         \* max_steps
          EvalEvery,        \* eval_every (0: only at the end)
          EvalAtStart,      \* eval_at_start
          CheckpointEvery,  \* checkpoint_every (0: never periodically)
          MaxLaunches,      \* bound: launches of the run
          MaxKills,         \* bound: launches killed or failed
          MaxStops,         \* bound: stop signals
          None

ASSUME GeometryAssumption ==
    /\ WorldSize \in Nat \ {0} /\ LocalRows \in Nat \ {0} /\ Accumulation \in Nat \ {0}
    /\ MaxSteps \in Nat \ {0}
ASSUME ScheduleAssumption ==
    EvalEvery \in Nat /\ CheckpointEvery \in Nat /\ EvalAtStart \in BOOLEAN
ASSUME TrainerBoundsAssumption == MaxLaunches \in Nat /\ MaxKills \in Nat /\ MaxStops \in Nat

TrainState ==
    [steps : Nat, microbatches : Nat, validated : Nat, startValidated : BOOLEAN,
     tracked : BOOLEAN, weights : Seq(SUBSET Nat)]
ASSUME NoneAssumption == None \notin TrainState \cup Nat \cup {"done", "stopped", "refused"}

Ranks == 0..WorldSize - 1
GlobalRows == WorldSize * LocalRows

VARIABLES
    pc,         \* <<operation, place>> of each rank; <<"down", "down">>: no process
    state,      \* state[r]: TrainState, metadata and weights of rank r
    cached,     \* cached[r]: the step of _last_checkpoint, None if it has none
    loader,     \* loader[r]: next global microbatch of the loader's iterator
    requested,  \* requested[r]: has rank r's stop controller a request?
    vote,       \* vote[r]: the value rank r brought to the stop reduction
    exit,       \* exit[r]: exit code of rank r ("done", "stopped"), None before
    checkpoint, \* the checkpoint file, None before the first save
    signalled,  \* supervisor: a stop signal has arrived
    stopFile,   \* the request file exists
    outcome,    \* what the supervisor returned for the latest launch
    launches, kills, stops

memory == <<state, cached, loader, requested, vote, exit>>
supervisor == <<signalled, stopFile, outcome>>
counters == <<launches, kills, stops>>
vars == <<pc, memory, checkpoint, supervisor, counters>>

Fresh == [steps |-> 0, microbatches |-> 0, validated |-> 0, startValidated |-> FALSE,
          tracked |-> FALSE, weights |-> <<>>]

Down == pc = [r \in Ranks |-> <<"down", "down">>]
AllDown == pc' = [r \in Ranks |-> <<"down", "down">>]

Init == /\ Down
        /\ state = [r \in Ranks |-> Fresh]
        /\ cached = [r \in Ranks |-> None]
        /\ loader = [r \in Ranks |-> 0]
        /\ requested = [r \in Ranks |-> FALSE]
        /\ vote = [r \in Ranks |-> FALSE]
        /\ exit = [r \in Ranks |-> None]
        /\ checkpoint = None
        /\ signalled = FALSE /\ stopFile = FALSE /\ outcome = None
        /\ launches = 0 /\ kills = 0 /\ stops = 0

-----------------------------------------------------------------------------
(* Validation schedule.                                                    *)

StartDue(s) == EvalAtStart /\ s.steps = 0 /\ ~s.startValidated
Due(s) == /\ s.steps > s.validated
          /\ \/ s.steps = MaxSteps
             \/ EvalEvery > 0 /\ s.steps % EvalEvery = 0
Validated(s) == IF s.steps = 0 /\ EvalAtStart THEN [s EXCEPT !.startValidated = TRUE]
                ELSE IF s.steps > s.validated THEN [s EXCEPT !.validated = s.steps]
                ELSE s

-----------------------------------------------------------------------------
(* Where a rank goes next, from its own state.                             *)

Periodic(s) == IF CheckpointEvery > 0 /\ s.steps % CheckpointEvery = 0
               THEN <<"save", "periodic">> ELSE <<"poll", "periodic">>
Advance(s) == IF s.steps = MaxSteps THEN <<"save", "final">> ELSE <<"update", "loop">>
CatchUpSkipped(s) == Advance(s)
CatchUp(s) == IF Due(s) THEN <<"eval", "catch_up">> ELSE Advance(s)

AfterContinue(s, place) ==
    CASE place = "start" -> IF StartDue(s) THEN <<"eval", "start">> ELSE CatchUp(s)
      [] place = "start_eval" -> CatchUp(s)
      [] place = "catch_up" -> Advance(s)
      [] place = "update" -> IF Due(s) THEN <<"eval", "loop">> ELSE Periodic(s)
      [] place = "periodic" -> Advance(s)
      [] place = "final" -> <<"exit", "done">>

(* _honor_stop_request: checkpoint, unless finalisation already has.       *)
AfterStop(place) == IF place = "final" THEN <<"exit", "stopped">> ELSE <<"save", "stop">>

AfterEval(s, place) ==
    CASE place = "start" -> <<"poll", "start_eval">>
      [] place = "catch_up" -> <<"save", "catch_up">>
      [] place = "loop" -> Periodic(s)

AfterSave(place) == IF place = "stop" THEN <<"save", "final">> ELSE <<"poll", place>>

-----------------------------------------------------------------------------
(* Launch: load_checkpoint and its consistency checks, the tracker id, the *)
(* loader.  A new tracker id is checkpoint authority: it clears the cache. *)

Loadable(s) ==
    /\ s.steps <= MaxSteps
    /\ s.microbatches = s.steps * Accumulation
    /\ s.validated <= s.steps
    /\ \/ s.validated \in {0, MaxSteps}
       \/ EvalEvery > 0 /\ s.validated % EvalEvery = 0
    /\ s.startValidated => EvalAtStart

Restored == IF checkpoint = None THEN Fresh ELSE checkpoint
CacheAfterLoadIgnoresTracker(s, bound) == IF checkpoint = None THEN None ELSE s.steps
CacheAfterLoad(s, bound) == IF checkpoint = None \/ bound THEN None ELSE s.steps
LoaderStart(s) == s.microbatches

(* Each launch has its own stop-request file and signal controllers.       *)
NoRequest ==
    /\ requested' = [r \in Ranks |-> FALSE] /\ vote' = [r \in Ranks |-> FALSE]
    /\ signalled' = FALSE /\ stopFile' = FALSE

Launch(track) ==
    /\ Down /\ outcome # "done" /\ (outcome = None => launches = 0)
    /\ launches < MaxLaunches /\ launches' = launches + 1
    /\ LET loaded == Restored
           bound == track /\ ~loaded.tracked
       IN  IF Loadable(loaded)
           THEN /\ pc' = [r \in Ranks |-> <<"poll", "start">>]
                /\ state' = [r \in Ranks |-> [loaded EXCEPT !.tracked = @ \/ bound]]
                /\ cached' = [r \in Ranks |-> CacheAfterLoad(loaded, bound)]
                /\ loader' = [r \in Ranks |-> LoaderStart(loaded)]
                /\ outcome' = None
           ELSE outcome' = "refused" /\ UNCHANGED <<pc, state, cached, loader>>
    /\ NoRequest
    /\ exit' = [r \in Ranks |-> None]
    /\ UNCHANGED <<checkpoint, kills, stops>>

-----------------------------------------------------------------------------
(* _distributed_stop_signal: read the request, then reduce.                *)

Poll(r) ==
    /\ pc[r][1] = "poll"
    /\ requested' = [requested EXCEPT ![r] = @ \/ stopFile]
    /\ vote' = [vote EXCEPT ![r] = requested'[r]]
    /\ pc' = [pc EXCEPT ![r] = <<"reduce", pc[r][2]>>]
    /\ UNCHANGED <<state, cached, loader, exit, checkpoint, supervisor, counters>>

AllAt(operation) == \A r \in Ranks : pc[r][1] = operation

AgreedLocally(r) == vote[r]
AgreedByRankZero(r) == vote[0]

(* all_reduce(MAX): every rank gets the same answer.                       *)
Agreed(r) == \E q \in Ranks : vote[q]

Reduce ==
    /\ AllAt("reduce")
    /\ pc' = [r \in Ranks |-> IF Agreed(r) THEN AfterStop(pc[r][2])
                              ELSE AfterContinue(state[r], pc[r][2])]
    /\ UNCHANGED <<memory, checkpoint, supervisor, counters>>

(* evaluate_validation: progress it records must reach the next save.      *)
Evaluate ==
    /\ AllAt("eval")
    /\ state' = [r \in Ranks |-> Validated(state[r])]
    /\ cached' = [r \in Ranks |-> IF state'[r] # state[r] THEN None ELSE cached[r]]
    /\ pc' = [r \in Ranks |-> AfterEval(state'[r], pc[r][2])]
    /\ UNCHANGED <<loader, requested, vote, exit, checkpoint, supervisor, counters>>

(* One accumulation window and its optimizer step: rank r learns from its  *)
(* slice of each microbatch, the gradient reduction from all of them.      *)
Slice(r, microbatch) ==
    {microbatch * GlobalRows + r * LocalRows + k : k \in 0..LocalRows - 1}
WindowRows ==
    UNION {Slice(r, loader[r] + a) : r \in Ranks, a \in 0..Accumulation - 1}

Update ==
    /\ AllAt("update")
    /\ state' = [r \in Ranks |->
          [state[r] EXCEPT !.steps = @ + 1,
                           !.microbatches = @ + Accumulation,
                           !.weights = Append(@, WindowRows)]]
    /\ loader' = [r \in Ranks |-> loader[r] + Accumulation]
    /\ pc' = [r \in Ranks |-> <<"poll", "update">>]
    /\ UNCHANGED <<cached, requested, vote, exit, checkpoint, supervisor, counters>>

(* save_checkpoint: skip when this step is already saved, on every rank or *)
(* on none.                                                                *)
Skipping == {r \in Ranks : cached[r] = state[r].steps}

Save ==
    /\ AllAt("save") /\ Skipping \in {{}, Ranks}
    /\ IF Skipping = {}
       THEN /\ checkpoint' = state[0]
            /\ cached' = [r \in Ranks |-> state[r].steps]
       ELSE UNCHANGED <<checkpoint, cached>>
    /\ pc' = [r \in Ranks |-> AfterSave(pc[r][2])]
    /\ UNCHANGED <<state, loader, requested, vote, exit, supervisor, counters>>

-----------------------------------------------------------------------------
(* Ends of a launch.                                                       *)

Exit(r) ==
    /\ pc[r][1] = "exit"
    /\ exit' = [exit EXCEPT ![r] = pc[r][2]]
    /\ pc' = [pc EXCEPT ![r] = <<"down", "down">>]
    /\ UNCHANGED <<state, cached, loader, requested, vote, checkpoint, supervisor, counters>>

(* The supervisor returns once torchrun has: a requested stop wins over    *)
(* the exit code of the workers.                                           *)
SupervisorReturns ==
    /\ Down /\ outcome = None /\ launches > 0
    /\ outcome' = IF signalled THEN "stopped"
                  ELSE IF \A r \in Ranks : exit[r] = "done" THEN "done"
                  ELSE "stopped"
    /\ UNCHANGED <<pc, memory, checkpoint, signalled, stopFile, counters>>

(* A rank dies, or rank zero's commit fails: torchrun ends every rank.     *)
Kill ==
    /\ ~Down /\ kills < MaxKills /\ kills' = kills + 1
    /\ AllDown
    /\ exit' = [r \in Ranks |-> None]
    /\ UNCHANGED <<state, cached, loader, requested, vote, checkpoint, supervisor, launches,
                   stops>>

-----------------------------------------------------------------------------
(* Stop requests.                                                          *)

(* A signal to one worker: the handler only sets the controller's request. *)
Signal(r) ==
    /\ pc[r][1] # "down" /\ ~requested[r]
    /\ stops < MaxStops /\ stops' = stops + 1
    /\ requested' = [requested EXCEPT ![r] = TRUE]
    /\ UNCHANGED <<pc, state, cached, loader, vote, exit, checkpoint, supervisor, launches, kills>>

SignalSupervisor ==
    /\ launches > 0 /\ outcome = None /\ ~signalled
    /\ stops < MaxStops /\ stops' = stops + 1
    /\ signalled' = TRUE
    /\ UNCHANGED <<pc, memory, checkpoint, stopFile, outcome, launches, kills>>

PublishStop ==
    /\ ~Down /\ signalled /\ ~stopFile
    /\ stopFile' = TRUE
    /\ UNCHANGED <<pc, memory, checkpoint, signalled, outcome, counters>>

(* The grace period ends first: the workers are terminated.                *)
ForceStop ==
    /\ ~Down /\ stopFile
    /\ kills < MaxKills /\ kills' = kills + 1
    /\ AllDown
    /\ exit' = [r \in Ranks |-> None]
    /\ outcome' = "stopped"
    /\ UNCHANGED <<state, cached, loader, requested, vote, checkpoint, signalled, stopFile,
                   launches, stops>>

Collective == Reduce \/ Evaluate \/ Update \/ Save
Rank(r) == Poll(r) \/ Exit(r)
Worker == Collective \/ \E r \in Ranks : Rank(r)
Stop == SignalSupervisor \/ \E r \in Ranks : Signal(r)
Finished == Down /\ (outcome = "done" \/ launches = MaxLaunches) /\ outcome # None
              /\ UNCHANGED vars

Next == \/ \E track \in BOOLEAN : Launch(track)
        \/ Worker \/ SupervisorReturns \/ PublishStop
        \/ Stop \/ Kill \/ ForceStop \/ Finished

Spec == Init /\ [][Next]_vars

(* Ranks and supervisor keep running; an interrupted run is launched again.*)
FairSpec == /\ Spec
            /\ WF_vars(Worker)
            /\ WF_vars(SupervisorReturns) /\ WF_vars(PublishStop)
            /\ WF_vars(\E track \in BOOLEAN : Launch(track))

-----------------------------------------------------------------------------
(* Properties.                                                             *)

\* Ranks that wait in collectives wait in the same one, and no save finds the
\* ranks divided over whether this step is already saved: a stop request that
\* reaches one rank early or late never strands the others (train,
\* _distributed_stop_signal, save_checkpoint).
CollectivesAgree ==
    /\ \A r, q \in Ranks :
          {pc[r][1], pc[q][1]} \subseteq {"reduce", "eval", "update", "save"} => pc[r] = pc[q]
    /\ AllAt("save") => Skipping \in {{}, Ranks}

(* The k-th update learned the k-th window of row positions.               *)
Exact(s) ==
    /\ Len(s.weights) = s.steps
    /\ \A k \in 1..s.steps :
          s.weights[k] = ((k - 1) * Accumulation * GlobalRows)..(k * Accumulation * GlobalRows - 1)

\* Every checkpoint a launch leaves is one the next launch accepts, and a launch
\* that ended of itself left its whole state in it: steps, validation progress
\* and tracker identity (load_checkpoint; _bind_wandb_run_id, "publishes that
\* identity"; evaluate_validation, "force the next save at this same step").
NothingLeftUnsaved ==
    /\ outcome # "refused"
    /\ \A r \in Ranks : exit[r] # None => checkpoint = state[r]

\* Success is reported only for a run whose updates and validations are all done
\* and saved, and a stop any rank brought to a reduction ends the launch on every
\* rank: nobody validates, updates or reports success after it
\* (supervise_torchrun, _finalize_training_run, _honor_stop_request).
OutcomesHonest ==
    /\ outcome = "done" =>
          /\ checkpoint # None /\ checkpoint.steps = MaxSteps /\ checkpoint.validated = MaxSteps
          /\ EvalAtStart => checkpoint.startValidated
    /\ (\E q \in Ranks : vote[q]) /\ ~AllAt("reduce") =>
          \A r \in Ranks : pc[r][1] \notin {"eval", "update"} /\ exit[r] # "done"

\* The ranks agree on what happens, and say what happened.
RanksAgree == CollectivesAgree /\ OutcomesHonest

\* No optimizer update is taken past a validation that is due, also when a stop
\* put it off and the run resumed ("catch up that evaluation on resume before
\* another optimizer update", train), and the checkpoint never loses progress:
\* steps, learned rows, validations and the tracker identity only grow, whatever
\* launch writes it (save_checkpoint).
ProgressInOrder ==
    /\ [][Update => \A r \in Ranks : ~Due(state[r]) /\ ~StartDue(state[r])]_vars
    /\ [][checkpoint # None =>
            /\ checkpoint' # None
            /\ SubSeq(checkpoint'.weights, 1, checkpoint.steps) = checkpoint.weights
            /\ checkpoint.validated <= checkpoint'.validated
            /\ checkpoint.startValidated => checkpoint'.startValidated
            /\ checkpoint.tracked => checkpoint'.tracked]_vars
=============================================================================
