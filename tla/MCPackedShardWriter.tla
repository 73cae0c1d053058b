-------------------------- MODULE MCPackedShardWriter --------------------------
(* A source of three documents of 3, 5 and 4 tokens (EOS included) packed  *)
(* at two tokens a row into shards of two rows: five full rows, two full   *)
(* shards and a partial one, a tail that no row stores, rows that span     *)
(* documents and documents that span rows and shards.                      *)
EXTENDS PackedShardWriter

MCDocEnd == [d \in 0..3 |-> <<0, 3, 8, 12>>[d + 1]]
=============================================================================
