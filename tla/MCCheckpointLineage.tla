-------------------------- MODULE MCCheckpointLineage --------------------------
(* Small instances of CheckpointLineage: one launch after another, or two  *)
(* that compete, with shorter lineages and no bad file.  The launches of   *)
(* one lineage are interchangeable.                                        *)
EXTENDS CheckpointLineage, TLC

VARIABLE crew   \* the launches of this scene

Launches == Permutations(Trainers)
Alone == Cardinality(crew) = 1
MCInit == Init /\ crew \in SUBSET Trainers \ {{}}
MCNext ==
    /\ Next /\ UNCHANGED crew
    /\ \A t \in Trainers \ crew : pc'[t] = "down"
    /\ ~Alone => corrupt' = {} /\ created' <= 3 /\ \A t \in crew : step'[t] <= 1
MCSpec == MCInit /\ [][MCNext]_<<vars, crew>>

\* RotationBounded and RejectedNeverRetained of launches that do not compete:
\* one that was checked before another's first save may overwrite it, see
\* FreshNeverOverwrites.
SoleRotation ==
    /\ [](Alone => RotationBounded)
    /\ [][Alone => RetainsReadable]_<<vars, crew>>
=============================================================================
