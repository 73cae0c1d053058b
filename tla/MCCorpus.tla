-------------------------------- MODULE MCCorpus --------------------------------
(* The instance of MCMaterializer; the two programs agree on the training   *)
(* target and differ on the held-out one, so that one may take over the     *)
(* training order of the other and must refuse its held-out order.          *)
EXTENDS Corpus

TrainCode == <<"train", "code">>
TrainText == <<"train", "text">>
HeldCode == <<"validation", "code">>

MCDestinations == <<TrainCode, TrainText, HeldCode>>
MCSplits == <<"train", "validation">>
MCKept == <<<<TrainCode, TrainText, TrainCode>>, <<TrainCode, HeldCode>>, <<HeldCode>>>>
MCTarget == [kind \in {"materialize", "portable"} |->
               [split \in {"train", "validation"} |->
                  IF split = "train" THEN 8 ELSE IF kind = "portable" THEN 2 ELSE 3]]

(* Two archives; the first is flushed twice, once because the next document *)
(* would not fit and once because the archive ends.                        *)
MCRawArchives == <<"a1", "a2">>
MCCounts == [a \in {"a1", "a2"} |-> IF a = "a1" THEN <<2, 1, 3>> ELSE <<1, 1>>]
=============================================================================
