------------------------------ MODULE PackedReader ------------------------------
(***************************************************************************)
(* How packed shards are read back (pretrain/data.py: the packed manifest, *)
(* PackedShardDataset, PackedBatchCollator).                               *)
(*                                                                         *)
(* A packed domain is the stream it was cut from, given by the ends of its *)
(* documents: document d ends, EOS included, before position ends[d].  Row *)
(* i stores the tokens i * SeqLen to (i + 1) * SeqLen, and where segments  *)
(* start in it.                                                            *)
(***************************************************************************)
EXTENDS Integers, Sequences, FiniteSets, FiniteSetsExt

CONSTANTS SeqLen,       \* sequence_length
          RowsPerShard  \* rows_per_shard

ASSUME ReaderAssumption == SeqLen \in Nat \ {0, 1} /\ RowsPerShard \in Nat \ {0}

SumOf(f) ==
    LET sum[T \in SUBSET DOMAIN f] ==
            IF T = {} THEN 0 ELSE LET x == CHOOSE x \in T : TRUE IN f[x] + sum[T \ {x}]
    IN  sum[DOMAIN f]

StreamLength(ends) == IF ends = <<>> THEN 0 ELSE ends[Len(ends)]
RowCount(ends) == IF ends = <<>> THEN 0 ELSE (StreamLength(ends) - 1) \div SeqLen
IsFirst(ends, position) ==
    position = 0 \/ \E d \in 1..Len(ends) - 1 : ends[d] = position
IsEos(ends, position) == \E d \in DOMAIN ends : ends[d] = position + 1

(* The row and its start bits.                                             *)
PackedRow(ends, i) ==
    [first |-> i * SeqLen,
     starts |-> {0} \cup {k \in 1..SeqLen : IsFirst(ends, i * SeqLen + k)}]

(* Every start after the first masks one label.                            *)
Supervised(row) == SeqLen - (Cardinality(row.starts) - 1)

-----------------------------------------------------------------------------
(* The manifest the writer published and the checks a reader makes of it.  *)

ShardRows(rows) ==
    [s \in 1..(rows + RowsPerShard - 1) \div RowsPerShard |->
        IF s * RowsPerShard <= rows THEN RowsPerShard ELSE rows - (s - 1) * RowsPerShard]

ManifestOf(stream, rows, supervised) ==
    [rows |-> rows, inputs |-> rows * SeqLen, supervised |-> supervised,
     masked |-> rows * SeqLen - supervised, stream |-> stream,
     unused |-> stream - rows * SeqLen,
     unstored |-> stream - (IF rows = 0 THEN 0 ELSE rows * SeqLen + 1),
     shards |-> ShardRows(rows)]
PackedManifest(ends) ==
    ManifestOf(StreamLength(ends), RowCount(ends),
               SumOf([i \in 0..RowCount(ends) - 1 |-> Supervised(PackedRow(ends, i))]))

ParsedManifest(m) ==
    /\ m.inputs = m.rows * SeqLen
    /\ m.supervised + m.masked = m.inputs
    /\ m.unused = m.stream - m.inputs /\ m.unused \in 0..SeqLen
    /\ m.unstored = m.stream - (IF m.rows > 0 THEN m.inputs + 1 ELSE 0)
    /\ \A s \in DOMAIN m.shards :
          /\ m.shards[s] \in 1..RowsPerShard
          /\ s < Len(m.shards) => m.shards[s] = RowsPerShard
    /\ SumOf(m.shards) = m.rows

(* The semantic pass over the payload.                                     *)
ValidPacked(ends, m) ==
    /\ ParsedManifest(m)
    /\ \A i \in 0..m.rows - 1 :
          LET row == PackedRow(ends, i)
          IN  /\ 0 \in row.starts
              /\ \A k \in row.starts \ {0} : IsEos(ends, row.first + k - 1)
    /\ m.masked = SumOf([i \in 0..m.rows - 1 |-> Cardinality(PackedRow(ends, i).starts) - 1])

-----------------------------------------------------------------------------
(* PackedShardDataset.__getitem__: the shard by bisection of their ends.   *)

ShardEnd(m, s) == SumOf([q \in 1..s |-> m.shards[q]])
ReadRow(ends, m, id) ==
    LET before == {s \in DOMAIN m.shards : ShardEnd(m, s) <= id}
        local == id - ShardEnd(m, Cardinality(before))
    IN  PackedRow(ends, Cardinality(before) * RowsPerShard + local)

(* PackedBatchCollator: what the model is given of one row.  A label is    *)
(* the stream position it stands for.                                      *)
Ignored == -100
Collated(row) ==
    LET inputs == row.starts \cap 0..SeqLen - 1
    IN  [positions |-> [i \in 0..SeqLen - 1 |-> i - Max({k \in inputs : k <= i})],
         documents |-> [i \in 0..SeqLen - 1 |-> Cardinality({k \in inputs : k <= i}) - 1],
         labels |-> [i \in 0..SeqLen - 1 |->
                        IF i + 1 \in row.starts THEN Ignored ELSE row.first + i + 1]]

LossTokens(row) == Cardinality({i \in 0..SeqLen - 1 : Collated(row).labels[i] # Ignored})

-----------------------------------------------------------------------------
(* The document a token belongs to, from the source stream alone.          *)
DocumentOf(ends, position) == CHOOSE d \in DOMAIN ends :
    position < ends[d] /\ (d = 1 \/ ends[d - 1] <= position)
Teaches(ends, i) ==
    {k \in 0..SeqLen - 1 : DocumentOf(ends, i * SeqLen + k) = DocumentOf(ends, i * SeqLen + k + 1)}

\* A packed row is read back as it was cut, from whichever shard holds it; the
\* model attends within one document, counts positions from its first token in
\* the row, and learns no token across a document boundary (PackedShardDataset,
\* PackedBatchCollator: "would leak a training relationship across documents").
ReaderExact(ends) ==
    LET m == PackedManifest(ends)
    IN  /\ ValidPacked(ends, m)
        /\ \A i \in 0..m.rows - 1 :
              LET read == ReadRow(ends, m, i)
                  batch == Collated(read)
                  Doc(k) == DocumentOf(ends, i * SeqLen + k)
              IN  /\ read = PackedRow(ends, i)
                  /\ {k \in 0..SeqLen - 1 : batch.labels[k] # Ignored} = Teaches(ends, i)
                  /\ \A k \in Teaches(ends, i) : batch.labels[k] = i * SeqLen + k + 1
                  /\ \A k, q \in 0..SeqLen - 1 :
                        batch.documents[k] = batch.documents[q] <=> Doc(k) = Doc(q)
                  /\ \A k \in 0..SeqLen - 1 :
                        batch.positions[k] = Cardinality({q \in 0..k - 1 : Doc(q) = Doc(k)})
=============================================================================
