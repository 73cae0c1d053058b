----------------------------- MODULE MCMaterializer -----------------------------
(* Two splits, two domains in the training split, three writers and three  *)
(* archives.  The first archive feeds two writers, one of them twice; the  *)
(* second leaves one of them out; the third feeds only the held-out writer.*)
EXTENDS Materializer

TrainCode == <<"train", "code">>
TrainText == <<"train", "text">>
HeldCode == <<"validation", "code">>

MCDestinations == <<TrainCode, TrainText, HeldCode>>
MCSplits == <<"train", "validation">>
MCKept == <<<<TrainCode, TrainText, TrainCode>>, <<TrainCode, HeldCode>>, <<HeldCode>>>>
MCTarget == [kind \in {"materialize", "portable"} |->
               [split \in {"train", "validation"} |-> IF split = "train" THEN 8 ELSE 2]]
=============================================================================
