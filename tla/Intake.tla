--------------------------------- MODULE Intake ---------------------------------
(***************************************************************************)
(* Acquisition: the collectors in detail with the preprocessor at rest, or *)
(* the preprocessor beside a collection that grows as the collectors       *)
(* promise (CollectionPromised connects the two).                          *)
(***************************************************************************)
EXTENDS Collectors, Preprocess

CONSTANTS Grown,     \* archives the growing collection consists of
          Littered   \* buckets in which it may leave pending files
ASSUME GrownAssumption ==
    /\ Littered \subseteq Buckets
    /\ \A a \in Grown : a.bucket \in Buckets /\ a.rows \subseteq Rows /\ IsFiniteSet(a.rows)

VARIABLE scene
intakeVars == <<collectorVars, preprocess, scene>>

IntakeInit == CollectorsInit /\ PreprocessInit /\ scene \in {"collect", "preprocess"}

Collect == scene = "collect" /\ CollectorsNext /\ UNCHANGED <<preprocess, scene>>
Audit == scene = "preprocess" /\ PreprocessNext /\ UNCHANGED <<collectorVars, scene>>
Grow == /\ scene = "preprocess" /\ CollectionStep(Grown, Littered)
        /\ UNCHANGED <<checkpoints, sealed, plan, pc, local, supervisor, outcome, faults,
                       preprocess, scene>>
IntakeNext == Collect \/ Audit \/ Grow

(* Processes run; an operator launches again and again what is not         *)
(* running, and the preprocessor, at some time with --retry-errors and to  *)
(* its gate.                                                               *)
Collecting == scene = "collect" /\ UNCHANGED <<preprocess, scene>>
Auditing == scene = "preprocess" /\ UNCHANGED <<collectorVars, scene>>
IntakeSpec ==
    /\ IntakeInit /\ [][IntakeNext]_intakeVars
    /\ WF_intakeVars(Collecting /\ (Supervision \/ \E p \in {"stack"} \cup Texts : Work(p)))
    /\ \A w \in WorkerSet : WF_intakeVars(Collecting /\ Work(w))
    /\ SF_intakeVars(Collecting /\ LaunchParallel)
    /\ \A t \in Texts : SF_intakeVars(Collecting /\ Launch(t))
    /\ WF_intakeVars(Auditing /\ PreprocessWork)
    /\ SF_intakeVars(Auditing /\ StartPreprocess /\ pre'.retry /\ pre'.mode # "only")
    /\ SF_intakeVars(Auditing /\ EndPass /\ pre'.place = "snapshot")

-----------------------------------------------------------------------------
(* Properties of the whole.                                                *)

\* Nothing the detailed collectors leave behind is beyond a restart.
CollectorsRecoverable == scene = "collect" => LedgerRecoverable

\* With finitely many faults every source is collected to its target or to its
\* end, and a closed collection passes the gate once the preprocessor is run
\* with --retry-errors (recovery in parallel_main and main, discover_archives).
IntakeCompletes ==
    /\ scene = "collect" ~> \A s \in Sources :
          Reached(quota_status, s) \/ RowsOf(s) \subseteq UNION {Scanned(p) : p \in Collectors}
    /\ scene = "preprocess" /\ orphans = {} /\ (\A s \in Sources : markers[s] # None)
          ~> passed # None
=============================================================================
