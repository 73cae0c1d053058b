-------------------------------- MODULE MCIntake --------------------------------
EXTENDS Intake, TLC
CONSTANTS w0, w1

Row(n, b, t, x) == [id |-> n, bucket |-> b, tokens |-> t, text |-> x]
MCWorkers == <<w0, w1>>
MCTexts == {"wikipedia"}
MCShards ==
    [stack |-> << <<Row(1, "python", 1, "a"), Row(2, "other_code", 1, "b")>>,
                  <<Row(3, "python", 1, "a")>>,
                  <<Row(4, "python", 2, "c")>> >>,
     wikipedia |-> << <<Row(6, "wikipedia", 2, "a")>> >>]
MCTarget == [python |-> 2, other_code |-> 1, wikipedia |-> 1]
MCGrown ==
    {[bucket |-> "python", index |-> 0, rows |-> {r \in Rows : r.id \in {1, 3}}],
     [bucket |-> "other_code", index |-> 0, rows |-> {r \in Rows : r.id = 2}],
     [bucket |-> "wikipedia", index |-> 0, rows |-> {r \in Rows : r.id = 6}]}
MCLittered == {}
=============================================================================
