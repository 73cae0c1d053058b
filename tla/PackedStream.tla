------------------------------ MODULE PackedStream ------------------------------
(***************************************************************************)
(* What a packed-shard construction promises its caller, whatever happens  *)
(* to the process that runs it (pretrain/data.py, PackedShardWriter and    *)
(* docs/training/training-data.md, "Crash-resumable packing construction").*)
(*                                                                         *)
(* Documents 1..NumDocs are appended to one token stream; document d ends  *)
(* before stream position DocEnd[d].  A construction commits longer and    *)
(* longer prefixes of the stream and at last publishes, once, the rows cut *)
(* from the whole stream.  A token is its position in the stream.          *)
(***************************************************************************)
EXTENDS Integers, Sequences

CONSTANTS NumDocs,      \* documents the source holds
          DocEnd,       \* DocEnd[d]: stream length after document d, EOS included
          SeqLen,       \* sequence_length: tokens a row advances by
          RowsPerShard, \* rows_per_shard
          NotPublished  \* no manifest yet

VARIABLES committed,    \* documents a resume will never ask for again
          published     \* NotPublished, or the rows of every published shard

avars == <<committed, published>>

(***************************************************************************)
(* The reference packing.  Row i holds SeqLen + 1 tokens and the next row  *)
(* starts SeqLen later: consecutive rows share one look-ahead token.       *)
(***************************************************************************)
Span(first, size) == [k \in 1..size |-> first + k - 1]
Row(i) == Span(i * SeqLen, SeqLen + 1)
RowRange(a, b) == [k \in 1..(b - a) |-> Row(a + k - 1)]
RowsIn(tokens) == IF tokens = 0 THEN 0 ELSE (tokens - 1) \div SeqLen
ShardsFor(rows) == (rows + RowsPerShard - 1) \div RowsPerShard
Packing(docs) ==
    LET rows == RowsIn(DocEnd[docs])
    IN  [s \in 1..ShardsFor(rows) |->
            RowRange((s - 1) * RowsPerShard,
                     IF s * RowsPerShard < rows THEN s * RowsPerShard ELSE rows)]

Init == committed = 0 /\ published = NotPublished

Commit == /\ published = NotPublished
          /\ \E d \in committed..NumDocs : committed' = d
          /\ UNCHANGED published

Publish == /\ published = NotPublished
           /\ committed' = NumDocs
           /\ published' = Packing(NumDocs)

Next == Commit \/ Publish

Spec == Init /\ [][Next]_avars
=================================================================================
