------------------------------- MODULE MCDelivery -------------------------------
(* Three scenes that never meet: one packed shard writer, the              *)
(* qualification of two geometries, and certification to launch.           *)
EXTENDS MCPackedShardWriter, Qualification, LaunchAuthority

CONSTANT Scenes
VARIABLE scene

MCGeometries == <<"g1", "g2">>
MCInit ==
    /\ scene \in Scenes
    /\ Init /\ QualificationInit /\ LaunchInit
    /\ scene # "qualification" => edits = 0
MCNext ==
    /\ UNCHANGED scene
    /\ \/ scene = "writer" /\ Next /\ UNCHANGED <<qualificationVars, launchVars>>
       \/ scene = "qualification" /\ QualificationNext /\ UNCHANGED <<vars, launchVars>>
       \/ scene = "launch" /\ LaunchNext /\ UNCHANGED <<vars, qualificationVars>>
MCSpec == MCInit /\ [][MCNext]_<<scene, vars, qualificationVars, launchVars>>
DeliverySpec ==
    /\ MCSpec
    /\ WF_vars(scene = "writer" /\ Progress)
    /\ WF_qualificationVars(scene = "qualification" /\ Supervise)
    /\ WF_qualificationVars(scene = "qualification" /\ Training)
    /\ WF_qualificationVars(scene = "qualification" /\ Restore)
    /\ SF_qualificationVars(scene = "qualification" /\ Launch("grid"))
    /\ WF_launchVars(scene = "launch" /\ Operate)
    /\ WF_launchVars(scene = "launch" /\ JobStep)
    /\ WF_launchVars(scene = "launch" /\ RunStep)

\* The three liveness properties, each of its scene: an interrupted build is
\* published, a relaunched grid concludes, a run is launched and saves its last.
BuildConcludes == scene = "writer" => EventuallyPublished
GridConcludes == scene = "qualification" => QualificationConcludes
LaunchConcludes == scene = "launch" => LaunchResumes
=============================================================================
