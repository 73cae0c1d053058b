------------------------ MODULE PackedShardWriter_proofs ------------------------
(***************************************************************************)
(* Proofs about PackedShardWriter, for any source, row length, shard size, *)
(* batch and number of faults.                                             *)
(*                                                                         *)
(* Every file, sealed, open, torn by a crash or forgotten, holds the rows  *)
(* that the reference packing has at its place, so what is left to show    *)
(* of a shard is its length; and a journal is backed: what it vouches for  *)
(* is there once, under one name, and on stable storage.                   *)
(***************************************************************************)
EXTENDS PackedShardWriter, FiniteSetTheorems, SequenceTheorems, TLAPS

(* The first len rows of shard i.                                          *)
Ref(i, len) == [k \in 1..len |-> Promise!Row(i * RowsPerShard + k - 1)]

(* Document boundaries inside the first n rows.                            *)
Boundaries(n) == {d \in 1..NumDocs - 1 : DocEnd[d] <= n * SeqLen}

Labels ==
    {"down", "boot", "restore", "truncate", "sweep", "sync", "journal_temporary", "journal_replace",
     "journal_sync", "idle", "drain", "seal", "rename", "publish", "manifest_replace", "unlink",
     "closed", "refused"}
Files == [rows : Seq(Seq(Nat)), synced : Nat]

TypeOK ==
    /\ pc \in Labels /\ at \in Kinds /\ finishing \in BOOLEAN /\ fed \in 0..NumDocs
    /\ buf \in Seq(Nat) /\ documents \in Nat /\ content \in Nat /\ rows \in Nat /\ masked \in Nat
    /\ shards \in Seq(Seq(Seq(Nat))) /\ digest \in Seq(Seq(Nat))
    /\ opened \in BOOLEAN /\ dirty \in BOOLEAN /\ cursor \in 0..NumDocs
    /\ DOMAIN dir \subseteq Kinds \X Nat \X {"part", "final"}
    /\ journal \in Journals \cup {None} /\ manifest \in Manifests \cup {None}
    /\ temps \subseteq {"journal", "manifest"}

(* A file holds rows of its shard and of no other place.                   *)
Placed(p, f) ==
    /\ f \in Files /\ f.rows = Ref(p[2], Len(f.rows))
    /\ f.synced <= Len(f.rows) /\ Len(f.rows) <= RowsPerShard

(* A journal, and the memory that would be written to one: the stream cut  *)
(* after so many documents, packed into so many rows.                      *)
Stream(j) ==
    /\ j.cursor \in 0..NumDocs /\ j.documents = j.cursor
    /\ j.content + j.documents = DocEnd[j.documents]
    /\ j.rows * SeqLen + Len(j.carry) = DocEnd[j.documents]
    /\ j.carry = [k \in 1..Len(j.carry) |-> j.rows * SeqLen + k - 1]
    /\ j.carry = <<>> => j.documents = 0
    /\ j.masked = Cardinality(Boundaries(j.rows))
    /\ \A s \in 1..Len(j.shards) : j.shards[s] = Ref(s - 1, RowsPerShard)
    /\ j.open = Ref(Len(j.shards), Len(j.open)) /\ Len(j.open) <= RowsPerShard
    /\ j.rows = Len(j.shards) * RowsPerShard + Len(j.open)
Rested(j) == Stream(j) /\ Len(j.carry) <= SeqLen /\ Len(j.open) < RowsPerShard

(* What a journal vouches for is on stable storage, under one name.        *)
Backed(d, j) ==
    /\ \A k \in Kinds : \A i \in 0..Len(j.shards) - 1 :
          /\ Path(k, i, "final") \in DOMAIN d /\ Path(k, i, "part") \notin DOMAIN d
          /\ d[Path(k, i, "final")].synced = RowsPerShard
    /\ j.open # <<>> =>
          \A k \in Kinds : \E place, other \in {"part", "final"} :
             /\ place # other
             /\ Path(k, Len(j.shards), place) \in DOMAIN d
             /\ Path(k, Len(j.shards), other) \notin DOMAIN d
             /\ d[Path(k, Len(j.shards), place)].synced >= Len(j.open)

(* Every row of the source, in shards of which only the last may be short. *)
Whole(ss, n) ==
    /\ n = Promise!RowsIn(DocEnd[NumDocs]) /\ Len(ss) = Promise!ShardsFor(n)
    /\ \A s \in 1..Len(ss) :
          ss[s] = Ref(s - 1, IF s * RowsPerShard < n THEN RowsPerShard
                             ELSE n - (s - 1) * RowsPerShard)

Published ==
    /\ pc \in {"unlink", "closed"} => manifest # None
    /\ manifest # None =>
         /\ pc \in {"unlink", "closed", "down", "boot"} /\ temps \subseteq {"journal"}
         /\ manifest.cursor \in 0..NumDocs /\ manifest.documents = NumDocs
         /\ Whole(manifest.shards, manifest.rows)
         /\ manifest.masked = Cardinality(Boundaries(manifest.rows))
         /\ DOMAIN dir = {Path(k, i - 1, "final") : k \in Kinds, i \in 1..Len(manifest.shards)}
         /\ \A k \in Kinds : \A i \in 1..Len(manifest.shards) :
               LET f == dir[Path(k, i - 1, "final")]
               IN  f.rows = manifest.shards[i] /\ f.synced = Len(f.rows)

Working == {"sync", "journal_temporary", "journal_replace", "journal_sync", "idle", "drain",
            "seal", "rename"}
Publishing == {"publish", "manifest_replace"}

Journaled ==
    /\ journal # None => Rested(journal)
    /\ journal # None /\ manifest = None =>
          /\ Backed(dir, journal)
          /\ pc \in Working =>
                /\ journal.documents <= documents /\ Len(journal.shards) <= Len(shards)
                /\ Len(journal.shards) = Len(shards) => Len(journal.open) <= Len(digest)
          /\ pc \in {"restore", "truncate", "sweep"} => journal = JournalPayload
    /\ journal = None /\ manifest = None =>
          /\ pc \in {"down", "boot", "sync", "journal_temporary", "journal_replace"}
          /\ dir = <<>> /\ fed = 0 /\ ~finishing /\ ~dirty /\ "manifest" \notin temps

(* The writer's memory.                                                    *)
Memory ==
    /\ pc \in {"down", "boot"} =>
          /\ buf = <<>> /\ documents = 0 /\ content = 0 /\ rows = 0 /\ masked = 0 /\ shards = <<>>
          /\ digest = <<>> /\ ~opened /\ ~dirty /\ cursor = 0 /\ fed = 0 /\ ~finishing
          /\ at = "tokens"
    /\ pc \in Working \cup {"restore", "truncate", "sweep"} =>
          /\ Stream(JournalPayload)
          /\ pc \notin {"drain", "seal", "rename"} => Rested(JournalPayload)
          /\ pc = "drain" => Len(digest) < RowsPerShard
          /\ finishing => fed = NumDocs /\ ~RowReady
          /\ pc \in {"seal", "rename"} =>
                digest # <<>> /\ (finishing \/ Len(digest) = RowsPerShard)
    /\ pc \in Publishing =>
          /\ documents = NumDocs /\ Whole(shards, rows) /\ masked = Cardinality(Boundaries(rows))
    /\ pc \in {"restore", "truncate"} => digest # <<>> /\ ~opened /\ ~dirty /\ ~finishing
    /\ pc = "sweep" => ~dirty /\ ~finishing
    /\ pc \notin {"restore", "truncate", "drain", "rename"} => at = "tokens"
    /\ dirty => opened
    /\ pc \in (Working \ {"drain", "rename"}) \cup {"sweep"} => (opened <=> digest # <<>>)
    /\ pc = "drain" => /\ digest # <<>> => opened
                       /\ opened \/ at = "starts" => digest # <<>> \/ RowReady
                       /\ opened => at = "tokens"
    /\ pc \in {"rename"} \cup Publishing => ~opened
    /\ pc \in {"journal_temporary", "journal_replace"} => ~dirty

(* The directory of a writer at work holds its shards, the files of the    *)
(* open one, and nothing else.                                             *)
OpenFiles ==
    CASE pc = "rename" /\ at = "tokens" -> {Part("tokens"), Part("starts")}
      [] pc = "rename" /\ at = "starts" -> {Final("tokens"), Part("starts")}
      [] pc = "drain" /\ ~opened /\ at = "starts" -> {Part("tokens")}
      [] OTHER -> IF opened THEN {Part("tokens"), Part("starts")} ELSE {}
Sealed == {Path(k, i - 1, "final") : k \in Kinds, i \in 1..Len(shards)}
SealedHold ==
    \A k \in Kinds : \A i \in 1..Len(shards) :
        LET p == Path(k, i - 1, "final")
        IN  Exists(p) /\ dir[p].rows = shards[i] /\ dir[p].synced = Len(shards[i])
Directory ==
    manifest = None =>
      /\ pc \in Working \cup Publishing =>
            /\ DOMAIN dir = Sealed \cup OpenFiles /\ SealedHold
            /\ \A p \in OpenFiles :
                  dir[p].rows = digest /\ (~dirty => dir[p].synced = Len(digest))
      /\ pc = "sweep" =>
            /\ Kept \subseteq DOMAIN dir
            /\ opened => \A k \in Kinds : dir[Part(k)] = [rows |-> digest, synced |-> Len(digest)]
      /\ pc \in {"restore", "truncate"} /\ at = "starts" =>
            /\ Exists(Part("tokens")) /\ ~Exists(Final("tokens"))
            /\ dir[Part("tokens")] = [rows |-> digest, synced |-> Len(digest)]
      /\ pc = "truncate" => Exists(Part(at)) /\ ~Exists(Final(at)) /\ Starts(digest, dir[Part(at)].rows)

Temporaries ==
    /\ "manifest" \in temps => pc = "manifest_replace" \/ ManifestTempSurvives
    /\ "journal" \in temps => pc \in {"down", "journal_replace"}

IInv ==
    /\ TypeOK /\ (\A p \in DOMAIN dir : Placed(p, dir[p]))
    /\ Published /\ Journaled /\ Memory /\ Directory /\ Temporaries
    /\ pc = "refused" => ManifestTempSurvives
-----------------------------------------------------------------------------
(* The reference rows.                                                      *)

\* The dimensions, as numbers.
LEMMA Dimensions ==
    /\ NumDocs \in Nat /\ SeqLen \in Nat /\ SeqLen >= 2 /\ RowsPerShard \in Nat /\ RowsPerShard > 0
    /\ DrainRows \in Nat /\ DrainRows > 0
    /\ DocEnd[0] = 0 /\ \A d \in 0..NumDocs : DocEnd[d] \in Nat
    /\ \A d, e \in 0..NumDocs : d < e => DocEnd[d] + 2 <= DocEnd[e]
  BY NumDocsAssumption, DocEndAssumption, DimensionAssumption

\* A reference row is a sequence of positions.
LEMMA RowFacts ==
    ASSUME NEW i \in Nat
    PROVE  /\ Promise!Row(i) \in Seq(Nat)
           /\ Promise!Row(i) = [k \in 1..SeqLen + 1 |-> i * SeqLen + k - 1]
<1>1. Promise!Row(i) = [k \in 1..SeqLen + 1 |-> i * SeqLen + k - 1]
  BY DEF Promise!Row, Promise!Span
<1>2. \A k \in 1..SeqLen + 1 : i * SeqLen + k - 1 \in Nat
  BY Dimensions
<1>3. SeqLen + 1 \in Nat
  BY Dimensions
<1> QED BY <1>1, <1>2, <1>3

\* The rows of a shard.
LEMMA RefFacts ==
    ASSUME NEW i \in Nat, NEW len \in Nat
    PROVE  /\ Ref(i, len) \in Seq(Seq(Nat)) /\ Len(Ref(i, len)) = len
           /\ Ref(i, len) = <<>> <=> len = 0
           /\ \A k \in 1..len : Ref(i, len)[k] = Promise!Row(i * RowsPerShard + k - 1)
<1>1. \A k \in 1..len : Promise!Row(i * RowsPerShard + k - 1) \in Seq(Nat)
  <2>1. \A k \in 1..len : i * RowsPerShard + k - 1 \in Nat
    BY Dimensions
  <2> QED BY <2>1, RowFacts
<1>2. /\ Ref(i, len) \in Seq(Seq(Nat)) /\ Len(Ref(i, len)) = len
      /\ \A k \in 1..len : Ref(i, len)[k] = Promise!Row(i * RowsPerShard + k - 1)
  BY <1>1 DEF Ref
<1> QED BY <1>2

\* The rows of a shard begin alike.
LEMMA RefPrefix ==
    ASSUME NEW i \in Nat, NEW a \in Nat, NEW b \in Nat
    PROVE  /\ Starts(Ref(i, a), Ref(i, b)) <=> a <= b
           /\ a <= b => SubSeq(Ref(i, b), 1, a) = Ref(i, a)
<1>1. ASSUME a <= b PROVE SubSeq(Ref(i, b), 1, a) = Ref(i, a)
  <2>1. /\ Len(Ref(i, a)) = a /\ Len(Ref(i, b)) = b
        /\ Ref(i, a) \in Seq(Seq(Nat)) /\ Ref(i, b) \in Seq(Seq(Nat))
    BY RefFacts
  <2>2. \A k \in 1..a : Ref(i, b)[k] = Ref(i, a)[k]
    BY <1>1, RefFacts
  <2>3. Ref(i, a) = [k \in 1..a |-> Ref(i, a)[k]]
    BY <2>1
  <2>4. SubSeq(Ref(i, b), 1, a) = [k \in 1..a |-> Ref(i, b)[k]]
    BY <1>1, <2>1
  <2> QED BY <2>2, <2>3, <2>4
<1>2. Len(Ref(i, a)) = a /\ Len(Ref(i, b)) = b
  BY RefFacts
<1> QED BY <1>1, <1>2 DEF Starts

\* The rows after the first a of a shard follow them.
LEMMA RefAppend ==
    ASSUME NEW i \in Nat, NEW a \in Nat, NEW b \in Nat
    PROVE  Ref(i, a) \o [r \in 1..b |-> Promise!Row(i * RowsPerShard + a + r - 1)] = Ref(i, a + b)
<1> DEFINE new == [r \in 1..b |-> Promise!Row(i * RowsPerShard + a + r - 1)]
<1>1. \A r \in 1..b : Promise!Row(i * RowsPerShard + a + r - 1) \in Seq(Nat)
  <2>1. \A r \in 1..b : i * RowsPerShard + a + r - 1 \in Nat
    BY Dimensions
  <2> QED BY <2>1, RowFacts
<1>2. new \in Seq(Seq(Nat)) /\ Len(new) = b
      /\ \A r \in 1..b : new[r] = Promise!Row(i * RowsPerShard + a + r - 1)
  BY <1>1
<1>3. a + b \in Nat
  OBVIOUS
<1>4. /\ Ref(i, a) \in Seq(Seq(Nat)) /\ Len(Ref(i, a)) = a
      /\ Ref(i, a + b) \in Seq(Seq(Nat)) /\ Len(Ref(i, a + b)) = a + b
  BY <1>3, RefFacts
<1>5. /\ \A k \in 1..a : Ref(i, a)[k] = Promise!Row(i * RowsPerShard + k - 1)
      /\ \A k \in 1..a + b : Ref(i, a + b)[k] = Promise!Row(i * RowsPerShard + k - 1)
  BY <1>3, RefFacts
<1> HIDE DEF new
<1>6. /\ Ref(i, a) \o new \in Seq(Seq(Nat)) /\ Len(Ref(i, a) \o new) = a + b
      /\ \A k \in 1..a + b : (Ref(i, a) \o new)[k] = IF k <= a THEN Ref(i, a)[k] ELSE new[k - a]
  <2> DEFINE first == Ref(i, a)
  <2>1. first \in Seq(Seq(Nat)) /\ Len(first) = a
    BY <1>4
  <2> HIDE DEF first
  <2>2. /\ first \o new \in Seq(Seq(Nat)) /\ Len(first \o new) = a + b
        /\ \A k \in 1..a + b : (first \o new)[k] = IF k <= a THEN first[k] ELSE new[k - a]
    BY <2>1, <1>2, ConcatProperties
  <2> QED BY <2>2 DEF first
<1>7. ASSUME NEW k \in 1..a + b PROVE (Ref(i, a) \o new)[k] = Ref(i, a + b)[k]
  <2>1. CASE k <= a
    <3>1. k \in 1..a
      BY <2>1
    <3>2. (Ref(i, a) \o new)[k] = Ref(i, a)[k]
      BY <1>6, <2>1
    <3> QED BY <1>5, <3>1, <3>2
  <2>2. CASE ~(k <= a)
    <3>1. k - a \in 1..b
      BY <2>2
    <3>2. (Ref(i, a) \o new)[k] = new[k - a]
      BY <1>6, <2>2
    <3>3. new[k - a] = Promise!Row(i * RowsPerShard + a + (k - a) - 1)
      BY <1>2, <3>1
    <3>4. i * RowsPerShard + a + (k - a) - 1 = i * RowsPerShard + k - 1
      <4> DEFINE m == i * RowsPerShard
      <4>1. m \in Nat
        BY Dimensions
      <4> HIDE DEF m
      <4>2. m + a + (k - a) - 1 = m + k - 1
        BY <4>1
      <4> QED BY <4>2 DEF m
    <3> QED BY <1>5, <3>2, <3>3, <3>4
  <2> QED BY <2>1, <2>2
<1>8. Ref(i, a) \o new = Ref(i, a + b)
  BY <1>4, <1>6, <1>7, SeqEqual
<1> QED BY <1>8 DEF new

-----------------------------------------------------------------------------
(* What the invariant says, unfolded.                                       *)

Streamed ==
    /\ documents = fed /\ content + documents = DocEnd[documents]
    /\ rows * SeqLen + Len(buf) = DocEnd[documents]
    /\ buf = [k \in 1..Len(buf) |-> rows * SeqLen + k - 1]
    /\ buf = <<>> => documents = 0
    /\ masked = Cardinality(Boundaries(rows))
    /\ \A s \in 1..Len(shards) : shards[s] = Ref(s - 1, RowsPerShard)
    /\ digest = Ref(Len(shards), Len(digest)) /\ Len(digest) <= RowsPerShard
    /\ rows = Len(shards) * RowsPerShard + Len(digest)

\* What the memory of a writer says of the stream.
LEMMA PayloadStreamed ==
    ASSUME TypeOK
    PROVE  /\ Stream(JournalPayload) <=> Streamed
           /\ Rested(JournalPayload) <=> Streamed /\ Len(buf) <= SeqLen /\ Len(digest) < RowsPerShard
<1>1. fed \in 0..NumDocs
  BY DEF TypeOK
<1>2. /\ JournalPayload.cursor = fed /\ JournalPayload.documents = documents
      /\ JournalPayload.content = content /\ JournalPayload.rows = rows
      /\ JournalPayload.masked = masked /\ JournalPayload.carry = buf
      /\ JournalPayload.shards = shards /\ JournalPayload.open = digest
  BY DEF JournalPayload
<1>3. Stream(JournalPayload) <=> Streamed
  BY <1>1, <1>2 DEF Stream, Streamed
<1> QED BY <1>2, <1>3 DEF Rested

\* Two names are one only if kind, shard and place agree.
LEMMA Paths ==
    \A k, l, i, j, a, b : Path(k, i, a) = Path(l, j, b) <=> k = l /\ i = j /\ a = b
  BY DEF Path

\* What a journal vouches for is there: the shards in full, the open rows first.
LEMMA BackedHolds ==
    ASSUME NEW j \in Journals, Rested(j), Backed(dir, j), \A p \in DOMAIN dir : Placed(p, dir[p])
    PROVE  \A k \in Kinds : \A i \in 1..Len(j.shards) :
              /\ Path(k, i - 1, "final") \in DOMAIN dir /\ Path(k, i - 1, "part") \notin DOMAIN dir
              /\ dir[Path(k, i - 1, "final")].rows = j.shards[i]
              /\ dir[Path(k, i - 1, "final")].synced = RowsPerShard
              /\ Len(j.shards[i]) = RowsPerShard
<1> SUFFICES ASSUME NEW k \in Kinds, NEW i \in 1..Len(j.shards)
             PROVE  /\ Path(k, i - 1, "final") \in DOMAIN dir /\ Path(k, i - 1, "part") \notin DOMAIN dir
                    /\ dir[Path(k, i - 1, "final")].rows = j.shards[i]
                    /\ dir[Path(k, i - 1, "final")].synced = RowsPerShard
                    /\ Len(j.shards[i]) = RowsPerShard
  OBVIOUS
<1> DEFINE p == Path(k, i - 1, "final")
<1>1. Len(j.shards) \in Nat /\ j.shards[i] = Ref(i - 1, RowsPerShard)
  BY DEF Journals, Rested, Stream
<1>2. i - 1 \in 0..Len(j.shards) - 1 /\ i - 1 \in Nat
  BY <1>1
<1>3. p \in DOMAIN dir /\ Path(k, i - 1, "part") \notin DOMAIN dir /\ dir[p].synced = RowsPerShard
  BY <1>2 DEF Backed
<1>4. p[2] = i - 1
  BY DEF Path
<1>5. /\ dir[p].rows = Ref(i - 1, Len(dir[p].rows)) /\ dir[p].rows \in Seq(Seq(Nat))
      /\ dir[p].synced <= Len(dir[p].rows) /\ Len(dir[p].rows) <= RowsPerShard
  BY <1>3, <1>4 DEF Placed, Files
<1>6. Len(dir[p].rows) = RowsPerShard
  BY <1>3, <1>5, Dimensions
<1>7. Len(Ref(i - 1, RowsPerShard)) = RowsPerShard
  BY <1>2, RefFacts, Dimensions
<1> QED BY <1>1, <1>3, <1>5, <1>6, <1>7

\* Files that keep their names and what is stable of them back what they backed.
LEMMA BackedGrows ==
    ASSUME NEW d, NEW e, NEW j \in Journals, Backed(d, j), DOMAIN d \subseteq DOMAIN e,
           \A p \in DOMAIN d : Placed(p, d[p]) /\ Placed(p, e[p]) /\ d[p].synced <= e[p].synced,
           \A k \in Kinds : \A i \in 0..Len(j.shards) :
              \A place \in {"part", "final"} :
                 Path(k, i, place) \in DOMAIN e => Path(k, i, place) \in DOMAIN d
    PROVE  Backed(e, j)
<1>1. Len(j.shards) \in Nat /\ Len(j.open) \in Nat
  BY DEF Journals
<1>2. ASSUME NEW k \in Kinds, NEW i \in 0..Len(j.shards) - 1
      PROVE  /\ Path(k, i, "final") \in DOMAIN e /\ Path(k, i, "part") \notin DOMAIN e
             /\ e[Path(k, i, "final")].synced = RowsPerShard
  <2> DEFINE p == Path(k, i, "final")
  <2>1. p \in DOMAIN d /\ Path(k, i, "part") \notin DOMAIN d /\ d[p].synced = RowsPerShard
    BY DEF Backed
  <2>2. Placed(p, e[p]) /\ d[p].synced <= e[p].synced
    BY <2>1
  <2>3. e[p].synced \in Nat /\ e[p].synced <= Len(e[p].rows) /\ Len(e[p].rows) <= RowsPerShard
        /\ Len(e[p].rows) \in Nat
    BY <2>2 DEF Placed, Files
  <2>4. e[p].synced = RowsPerShard
    BY <2>1, <2>2, <2>3, Dimensions
  <2>5. i \in 0..Len(j.shards)
    BY <1>1
  <2> QED BY <2>1, <2>4, <2>5
<1>3. ASSUME j.open # <<>>, NEW k \in Kinds
      PROVE  \E place, other \in {"part", "final"} :
             /\ place # other
             /\ Path(k, Len(j.shards), place) \in DOMAIN e
             /\ Path(k, Len(j.shards), other) \notin DOMAIN e
             /\ e[Path(k, Len(j.shards), place)].synced >= Len(j.open)
  <2> DEFINE n == Len(j.shards)
  <2>1. PICK place \in {"part", "final"}, other \in {"part", "final"} :
             /\ place # other
             /\ Path(k, n, place) \in DOMAIN d
             /\ Path(k, n, other) \notin DOMAIN d
             /\ d[Path(k, n, place)].synced >= Len(j.open)
    BY <1>3 DEF Backed
  <2>2. n \in 0..Len(j.shards)
    BY <1>1
  <2> DEFINE p == Path(k, n, place)
  <2>3. Placed(p, e[p]) /\ Placed(p, d[p]) /\ d[p].synced <= e[p].synced
    BY <2>1
  <2>4. e[p].synced \in Nat /\ d[p].synced \in Nat
    BY <2>3 DEF Placed, Files
  <2>5. e[p].synced >= Len(j.open)
    BY <1>1, <2>1, <2>3, <2>4
  <2> QED BY <2>1, <2>2, <2>5
<1> QED BY <1>2, <1>3 DEF Backed

-----------------------------------------------------------------------------
(* Construction.                                                            *)

\* A restart sweeps the journal's temporary.
LEMMA StartStep == ASSUME IInv, Start PROVE IInv'
<1>1. /\ pc = "down" /\ pc' = "boot" /\ temps' = temps \ {"journal"}
      /\ UNCHANGED <<at, finishing, fed, buf, documents, content, rows, masked, shards, digest,
                     opened, dirty, cursor, dir, journal, manifest>>
  BY DEF Start, Goto, memory
<1>2. TypeOK' /\ \A p \in DOMAIN dir' : Placed(p, dir'[p])
  BY <1>1 DEF IInv, TypeOK, Labels
<1>3. Published'
  BY <1>1 DEF IInv, Published
<1>4. Journaled'
  BY <1>1 DEF IInv, Journaled, Working
<1>5. Memory'
  BY <1>1 DEF IInv, Memory, Working, Publishing
<1>6. Directory' /\ Temporaries'
  BY <1>1 DEF IInv, Directory, Temporaries, Working, Publishing
<1> QED BY <1>1, <1>2, <1>3, <1>4, <1>5, <1>6 DEF IInv

\* A construction with neither manifest nor journal finds nothing else.
LEMMA BootFreshStep == ASSUME IInv, BootFresh PROVE IInv'
<1>1. /\ pc = "boot" /\ manifest = None /\ journal = None
      /\ pc' = IF dir = <<>> /\ temps = {} THEN "sync" ELSE "refused"
      /\ UNCHANGED <<at, finishing, fed, buf, documents, content, rows, masked, shards, digest,
                     opened, dirty, cursor, dir, journal, manifest, temps, faults>>
  BY DEF BootFresh, Goto, memory, disk
<1>2. dir = <<>> /\ fed = 0 /\ ~finishing /\ ~dirty /\ documents = 0 /\ content = 0 /\ rows = 0
      /\ masked = 0 /\ shards = <<>> /\ digest = <<>> /\ ~opened /\ cursor = 0 /\ at = "tokens"
      /\ buf = <<>>
  BY <1>1 DEF IInv, Journaled, Memory
<1>3. temps = {}
  BY <1>1 DEF IInv, TypeOK, Temporaries, Journaled
<1>4. pc' = "sync"
  BY <1>1, <1>2, <1>3
<1>5. TypeOK' /\ \A p \in DOMAIN dir' : Placed(p, dir'[p])
  BY <1>1, <1>4 DEF IInv, TypeOK, Labels
<1>6. Published'
  BY <1>1 DEF Published
<1>12. Journaled'
  BY <1>1, <1>2, <1>3, <1>4 DEF Journaled
<1>7. Streamed
  <2>1. Boundaries(0) = {}
    <3>1. \A d \in 1..NumDocs - 1 : DocEnd[d] > 0
      BY Dimensions
    <3> QED BY <3>1, Dimensions DEF Boundaries
  <2>2. Ref(0, 0) = <<>>
    BY RefFacts
  <2>3. buf = [k \in 1..Len(buf) |-> rows * SeqLen + k - 1] /\ Len(buf) = 0 /\ Len(digest) = 0
        /\ Len(shards) = 0
    BY <1>2
  <2>4. Cardinality(Boundaries(0)) = 0
    BY <2>1, FS_EmptySet
  <2>5. 0 * SeqLen = 0 /\ 0 * RowsPerShard = 0
    BY Dimensions
  <2> QED BY <1>2, <2>2, <2>3, <2>4, <2>5, Dimensions DEF Streamed
<1>8. Stream(JournalPayload) /\ Rested(JournalPayload)
  BY <1>2, <1>7, Dimensions, PayloadStreamed DEF IInv
<1>9. Memory'
  BY <1>1, <1>2, <1>4, <1>7, <1>8 DEF Memory, Working, Publishing, JournalPayload
<1>10. Directory'
  BY <1>1, <1>2, <1>4 DEF Directory, Working, Publishing, OpenFiles, Sealed, SealedHold
<1>11. Temporaries'
  BY <1>1, <1>4 DEF IInv, Temporaries
<1> QED BY <1>4, <1>5, <1>6, <1>9, <1>10, <1>11, <1>12 DEF IInv

\* A swept directory is the writer's own.
LEMMA SweepDoneStep == ASSUME IInv, SweepDone PROVE IInv'
<1>1. /\ pc = "sweep" /\ pc' = "idle" /\ DOMAIN dir \subseteq Kept
      /\ UNCHANGED <<at, finishing, fed, buf, documents, content, rows, masked, shards, digest,
                     opened, dirty, cursor, dir, journal, manifest, temps, faults>>
  BY DEF SweepDone, Goto, memory, disk
<1>2. manifest = None /\ journal # None /\ journal = JournalPayload /\ temps \subseteq {"manifest"}
  BY <1>1 DEF IInv, Published, Journaled, Temporaries, TypeOK
<1>3. TypeOK' /\ \A p \in DOMAIN dir' : Placed(p, dir'[p])
  BY <1>1 DEF IInv, TypeOK, Labels
<1>4. Published'
  BY <1>1, <1>2 DEF Published
<1>5. Backed(dir, journal) /\ Rested(journal)
  BY <1>1, <1>2 DEF IInv, Journaled
<1>6. Journaled'
  <2>1. documents \in Nat /\ Len(shards) \in Nat /\ Len(digest) \in Nat
    BY DEF IInv, TypeOK
  <2>2. journal.documents = documents /\ journal.shards = shards /\ journal.open = digest
    BY <1>2 DEF JournalPayload
  <2> QED BY <1>1, <1>2, <1>5, <2>1, <2>2 DEF Journaled, Working
<1>7. Memory'
  BY <1>1 DEF IInv, Memory, Working, Publishing, JournalPayload, Stream, Rested, RowReady
<1>8. Directory'
  <2>1. DOMAIN dir = Kept
    BY <1>1, <1>2 DEF IInv, Directory
  <2>2. OpenFiles' = (IF opened THEN {Part("tokens"), Part("starts")} ELSE {}) /\ Sealed' = Sealed
    BY <1>1 DEF OpenFiles, Part, Sealed
  <2>3. {Part(k) : k \in Kinds} = {Part("tokens"), Part("starts")}
    BY DEF Kinds
  <2>4. Kept = Sealed' \cup OpenFiles'
    <3>1. Kept = Sealed \cup (IF opened THEN {Part(k) : k \in Kinds} ELSE {})
      BY DEF Kept, Sealed
    <3> QED BY <2>2, <2>3, <3>1
  <2>5. SealedHold
    <3>1. journal \in Journals /\ journal.shards = shards
      BY <1>2 DEF IInv, TypeOK, JournalPayload
    <3> QED BY <3>1, <1>5, BackedHolds DEF SealedHold, Exists, IInv
  <2>6. SealedHold'
    BY <1>1, <2>5 DEF SealedHold, Exists
  <2>7. \A p \in OpenFiles' : dir[p].rows = digest /\ dir[p].synced = Len(digest)
    BY <1>1, <1>2, <2>2 DEF IInv, Directory, Kinds
  <2>8. pc' = "idle"
    BY <1>1
  <2> QED BY <1>1, <2>1, <2>4, <2>6, <2>7, <2>8 DEF Directory, Working, Publishing
<1>9. Temporaries'
  BY <1>1 DEF IInv, Temporaries
<1> QED BY <1>1, <1>3, <1>4, <1>6, <1>7, <1>8, <1>9 DEF IInv

-----------------------------------------------------------------------------
(* The caller and the commit.                                               *)

\* A writer at work has a journal, or is about to write its first.
LEMMA AtWork ==
    ASSUME IInv, pc \in Working
    PROVE  /\ manifest = None /\ temps \subseteq {"journal", "manifest"}
           /\ pc \notin {"sync", "journal_temporary", "journal_replace"} => journal # None
  BY DEF IInv, Published, Journaled, Working, TypeOK

\* A checkpoint begins with everything drained.
LEMMA CheckpointStep == ASSUME IInv, Checkpoint PROVE IInv'
<1>1. /\ pc = "idle" /\ pc' = "sync"
      /\ UNCHANGED <<at, finishing, fed, buf, documents, content, rows, masked, shards, digest,
                     opened, dirty, cursor, dir, journal, manifest, temps, faults>>
  BY DEF Checkpoint, Goto, memory, disk
<1>2. manifest = None /\ journal # None
  BY <1>1, AtWork DEF Working
<1>3. TypeOK' /\ \A p \in DOMAIN dir' : Placed(p, dir'[p])
  BY <1>1 DEF IInv, TypeOK, Labels
<1>4. Published' /\ Journaled'
  BY <1>1, <1>2 DEF IInv, Published, Journaled, Working
<1>5. Memory'
  BY <1>1 DEF IInv, Memory, Working, Publishing, JournalPayload, RowReady
<1>6. Directory' /\ Temporaries'
  BY <1>1 DEF IInv, Directory, Temporaries, Working, Publishing, OpenFiles, Sealed, SealedHold, Part, Exists
<1> QED BY <1>1, <1>3, <1>4, <1>5, <1>6 DEF IInv

\* finish() begins with everything drained.
LEMMA FinishStep == ASSUME IInv, Finish PROVE IInv'
<1>1. /\ pc = "idle" /\ pc' \in {"sync", "drain"} /\ fed = NumDocs /\ finishing' = TRUE
      /\ UNCHANGED <<at, fed, buf, documents, content, rows, masked, shards, digest,
                     opened, dirty, cursor, dir, journal, manifest, temps, faults>>
  BY DEF Finish, Goto, memory, disk
<1>2. manifest = None /\ journal # None
  BY <1>1, AtWork DEF Working
<1>3. TypeOK' /\ \A p \in DOMAIN dir' : Placed(p, dir'[p])
  BY <1>1 DEF IInv, TypeOK, Labels
<1>4. Published' /\ Journaled'
  BY <1>1, <1>2 DEF IInv, Published, Journaled, Working
<1>5. Rested(JournalPayload) /\ Stream(JournalPayload)
  BY <1>1 DEF IInv, Memory, Working
<1>6. Len(digest) < RowsPerShard /\ ~RowReady
  <2>1. Len(buf) <= SeqLen /\ Len(digest) < RowsPerShard
    BY <1>5, PayloadStreamed DEF IInv
  <2> QED BY <2>1, Dimensions DEF RowReady, IInv, TypeOK
<1>7. at = "tokens" /\ (opened <=> digest # <<>>) /\ (dirty => opened)
  BY <1>1 DEF IInv, Memory, Working, Publishing
<1>8. JournalPayload' = JournalPayload /\ RowReady' = RowReady
  BY <1>1 DEF JournalPayload, RowReady
<1>9. Memory'
  BY <1>1, <1>5, <1>6, <1>7, <1>8 DEF Memory, Working, Publishing
<1>10. Directory'
  <2>1. OpenFiles' = OpenFiles
    BY <1>1, <1>7 DEF OpenFiles, Part
  <2> QED BY <1>1, <2>1 DEF IInv, Directory, Working, Publishing, Sealed, SealedHold, Exists
<1>11. Temporaries'
  BY <1>1 DEF IInv, Temporaries
<1> QED BY <1>1, <1>3, <1>4, <1>9, <1>10, <1>11 DEF IInv

\* The temporary of a journal.
LEMMA WriteJournalTemporaryStep == ASSUME IInv, WriteJournalTemporary PROVE IInv'
<1>1. /\ pc = "journal_temporary" /\ pc' = "journal_replace" /\ temps' = temps \cup {"journal"}
      /\ UNCHANGED <<at, finishing, fed, buf, documents, content, rows, masked, shards, digest,
                     opened, dirty, cursor, dir, journal, manifest, faults>>
  BY DEF WriteJournalTemporary, Goto, memory
<1>2. manifest = None
  BY <1>1, AtWork DEF Working
<1>3. TypeOK' /\ \A p \in DOMAIN dir' : Placed(p, dir'[p])
  BY <1>1 DEF IInv, TypeOK, Labels
<1>4. Published' /\ Journaled'
  BY <1>1, <1>2 DEF IInv, Published, Journaled, Working
<1>5. Memory'
  BY <1>1 DEF IInv, Memory, Working, Publishing, JournalPayload, RowReady
<1>6. Directory' /\ Temporaries'
  BY <1>1 DEF IInv, Directory, Temporaries, Working, Publishing, OpenFiles, Sealed, SealedHold, Part, Exists
<1> QED BY <1>1, <1>3, <1>4, <1>5, <1>6 DEF IInv

\* The commit of a journal: what it vouches for has been synced.
LEMMA ReplaceJournalStep == ASSUME IInv, ReplaceJournal PROVE IInv'
<1>1. /\ pc = "journal_replace" /\ pc' = "journal_sync" /\ temps' = temps \ {"journal"}
      /\ journal' = JournalPayload
      /\ UNCHANGED <<at, finishing, fed, buf, documents, content, rows, masked, shards, digest,
                     opened, dirty, cursor, dir, manifest, faults>>
  BY DEF ReplaceJournal, Goto, memory
<1>2. manifest = None
  BY <1>1, AtWork DEF Working
<1>3. JournalPayload \in Journals
  BY DEF IInv, TypeOK, Journals, JournalPayload
<1>4. TypeOK' /\ \A p \in DOMAIN dir' : Placed(p, dir'[p])
  BY <1>1, <1>3 DEF IInv, TypeOK, Labels
<1>5. Published'
  BY <1>1, <1>2 DEF Published
<1>6. Rested(JournalPayload) /\ Streamed /\ at = "tokens" /\ (opened <=> digest # <<>>) /\ ~dirty
  BY <1>1, PayloadStreamed DEF IInv, Memory, Working, Publishing
<1>7. /\ DOMAIN dir = Sealed \cup OpenFiles /\ SealedHold
      /\ OpenFiles = IF opened THEN {Part("tokens"), Part("starts")} ELSE {}
      /\ \A p \in OpenFiles : dir[p].rows = digest /\ dir[p].synced = Len(digest)
  BY <1>1, <1>2, <1>6 DEF IInv, Directory, Working, Publishing, OpenFiles
<1>8. Backed(dir, JournalPayload)
  <2>1. JournalPayload.shards = shards /\ JournalPayload.open = digest
        /\ Len(shards) \in Nat /\ Len(digest) \in Nat
    BY DEF JournalPayload, IInv, TypeOK
  <2>2. ASSUME NEW k \in Kinds, NEW i \in 0..Len(shards) - 1
        PROVE  /\ Path(k, i, "final") \in DOMAIN dir /\ Path(k, i, "part") \notin DOMAIN dir
               /\ dir[Path(k, i, "final")].synced = RowsPerShard
    <3>1. i + 1 \in 1..Len(shards) /\ (i + 1) - 1 = i
      BY <2>1
    <3>2. Path(k, i, "final") \in DOMAIN dir /\ dir[Path(k, i, "final")].synced = Len(shards[i + 1])
      BY <1>7, <3>1 DEF SealedHold, Exists
    <3>3. shards[i + 1] = Ref(i, RowsPerShard)
      BY <1>6, <3>1 DEF Streamed
    <3>4. Len(shards[i + 1]) = RowsPerShard
      BY <3>3, RefFacts, Dimensions
    <3>5. Path(k, i, "part") \notin DOMAIN dir
      <4>1. Path(k, i, "part") \notin Sealed
        BY DEF Sealed, Path
      <4>2. Path(k, i, "part") \notin OpenFiles
        BY <1>7, <2>1 DEF Path, Part
      <4> QED BY <1>7, <4>1, <4>2
    <3> QED BY <3>2, <3>4, <3>5
  <2>3. ASSUME digest # <<>>, NEW k \in Kinds
        PROVE  /\ Path(k, Len(shards), "part") \in DOMAIN dir
               /\ Path(k, Len(shards), "final") \notin DOMAIN dir
               /\ dir[Path(k, Len(shards), "part")].synced >= Len(digest)
    <3>1. Path(k, Len(shards), "part") \in OpenFiles
      BY <1>6, <1>7, <2>3 DEF Part, Kinds
    <3>2. Path(k, Len(shards), "final") \notin Sealed
      BY <2>1 DEF Sealed, Path
    <3>3. Path(k, Len(shards), "final") \notin OpenFiles
      BY <1>7 DEF Path, Part
    <3> QED BY <1>7, <2>1, <3>1, <3>2, <3>3
  <2> QED BY <2>1, <2>2, <2>3 DEF Backed
<1>9. Journaled'
  <2>1. journal'.documents = documents /\ journal'.shards = shards /\ journal'.open = digest
        /\ documents \in Nat /\ Len(shards) \in Nat /\ Len(digest) \in Nat
    BY <1>1 DEF JournalPayload, IInv, TypeOK
  <2>2. journal' # None
    BY <1>1, <1>3, NoneAssumption
  <2> QED BY <1>1, <1>2, <1>6, <1>8, <2>1, <2>2 DEF Journaled, Working
<1>10. Memory'
  BY <1>1 DEF IInv, Memory, Working, Publishing, JournalPayload, RowReady
<1>11. Directory' /\ Temporaries'
  BY <1>1 DEF IInv, Directory, Temporaries, Working, Publishing, OpenFiles, Sealed, SealedHold, Part, Exists
<1> QED BY <1>1, <1>4, <1>5, <1>9, <1>10, <1>11 DEF IInv

\* The journal is durable; finish() goes on to its drain.
LEMMA JournalWrittenStep == ASSUME IInv, JournalWritten PROVE IInv'
<1>1. /\ pc = "journal_sync" /\ pc' = (IF finishing THEN "drain" ELSE "idle") /\ cursor' = fed
      /\ UNCHANGED <<at, finishing, fed, buf, documents, content, rows, masked, shards, digest,
                     opened, dirty, dir, journal, manifest, temps, faults>>
  BY DEF JournalWritten, Goto, disk
<1>2. manifest = None /\ journal # None /\ pc' \in {"idle", "drain"}
  BY <1>1, AtWork DEF Working
<1>3. TypeOK' /\ \A p \in DOMAIN dir' : Placed(p, dir'[p])
  BY <1>1, <1>2 DEF IInv, TypeOK, Labels
<1>4. Published' /\ Journaled'
  BY <1>1, <1>2 DEF IInv, Published, Journaled, Working
<1>5. Rested(JournalPayload) /\ Stream(JournalPayload)
  BY <1>1 DEF IInv, Memory, Working
<1>6. Len(digest) < RowsPerShard
  BY <1>5, PayloadStreamed DEF IInv
<1>7. at = "tokens" /\ (opened <=> digest # <<>>) /\ (dirty => opened)
      /\ (finishing => fed = NumDocs /\ ~RowReady)
  BY <1>1 DEF IInv, Memory, Working, Publishing
<1>8. JournalPayload' = JournalPayload /\ RowReady' = RowReady
  BY <1>1 DEF JournalPayload, RowReady
<1>9. Memory'
  BY <1>1, <1>2, <1>5, <1>6, <1>7, <1>8 DEF Memory, Working, Publishing
<1>10. Directory'
  <2>1. OpenFiles' = OpenFiles
    BY <1>1, <1>2, <1>7 DEF OpenFiles, Part
  <2> QED BY <1>1, <1>2, <2>1 DEF IInv, Directory, Working, Publishing, Sealed, SealedHold, Exists
<1>11. Temporaries'
  BY <1>1 DEF IInv, Temporaries
<1> QED BY <1>1, <1>2, <1>3, <1>4, <1>9, <1>10, <1>11 DEF IInv

\* An fsync takes nothing away from a file or from what the journal vouches for.
LEMMA Resync ==
    ASSUME IInv, manifest = None, pc \in Working \cup Publishing,
           UNCHANGED <<shards, journal>>, DOMAIN dir' = DOMAIN dir,
           \A p \in DOMAIN dir :
              /\ dir'[p] \in Files /\ dir'[p].rows = dir[p].rows
              /\ dir[p].synced <= dir'[p].synced /\ dir'[p].synced <= Len(dir[p].rows)
    PROVE  /\ \A p \in DOMAIN dir' : Placed(p, dir'[p])
           /\ SealedHold'
           /\ journal # None => Backed(dir', journal)
<1>1. \A p \in DOMAIN dir' : Placed(p, dir'[p])
  BY DEF IInv, Placed
<1>2. SealedHold'
  <2> SUFFICES ASSUME NEW k \in Kinds, NEW i \in 1..Len(shards)
               PROVE  /\ Path(k, i - 1, "final") \in DOMAIN dir'
                      /\ dir'[Path(k, i - 1, "final")].rows = shards[i]
                      /\ dir'[Path(k, i - 1, "final")].synced = Len(shards[i])
    BY DEF SealedHold, Exists
  <2> DEFINE p == Path(k, i - 1, "final")
  <2>1. p \in DOMAIN dir /\ dir[p].rows = shards[i] /\ dir[p].synced = Len(shards[i])
    BY DEF IInv, Directory, SealedHold, Exists
  <2>2. dir[p].synced \in Nat /\ dir'[p].synced \in Nat /\ dir[p].synced <= dir'[p].synced
        /\ dir'[p].synced <= Len(dir[p].rows) /\ dir'[p].rows = dir[p].rows
    BY <2>1 DEF IInv, Placed, Files
  <2>3. dir'[p].synced = Len(shards[i])
    BY <2>1, <2>2
  <2> QED BY <2>1, <2>2, <2>3
<1>3. ASSUME journal # None PROVE Backed(dir', journal)
  <2>1. journal \in Journals /\ Backed(dir, journal)
    BY <1>3 DEF IInv, TypeOK, Journaled
  <2>2. \A p \in DOMAIN dir : Placed(p, dir[p]) /\ Placed(p, dir'[p]) /\ dir[p].synced <= dir'[p].synced
    BY <1>1 DEF IInv
  <2> QED BY <2>1, <2>2, BackedGrows
<1> QED BY <1>1, <1>2, <1>3

\* What fsyncing the two parts does.
LEMMA SyncPartsFacts ==
    ASSUME \A p \in DOMAIN dir : Placed(p, dir[p])
    PROVE  /\ DOMAIN SyncParts = DOMAIN dir
           /\ \A p \in DOMAIN dir :
                 /\ SyncParts[p] \in Files /\ SyncParts[p].rows = dir[p].rows
                 /\ dir[p].synced <= SyncParts[p].synced /\ SyncParts[p].synced <= Len(dir[p].rows)
                 /\ p \in {Part("tokens"), Part("starts")} => SyncParts[p].synced = Len(dir[p].rows)
<1>1. DOMAIN SyncParts = DOMAIN dir
  BY DEF SyncParts
<1>2. ASSUME NEW p \in DOMAIN dir
      PROVE  /\ SyncParts[p] \in Files /\ SyncParts[p].rows = dir[p].rows
             /\ dir[p].synced <= SyncParts[p].synced /\ SyncParts[p].synced <= Len(dir[p].rows)
             /\ p \in {Part("tokens"), Part("starts")} => SyncParts[p].synced = Len(dir[p].rows)
  <2>1. /\ dir[p] \in Files /\ dir[p].rows \in Seq(Seq(Nat)) /\ dir[p].synced \in Nat
        /\ dir[p].synced <= Len(dir[p].rows) /\ Len(dir[p].rows) \in Nat
    BY <1>2 DEF Placed, Files
  <2>2. Synced(dir[p]) = [rows |-> dir[p].rows, synced |-> Len(dir[p].rows)]
    BY <2>1 DEF Synced, Files
  <2>3. SyncParts[p] = IF p \in {Part("tokens"), Part("starts")} THEN Synced(dir[p]) ELSE dir[p]
    BY <1>2 DEF SyncParts
  <2>4. CASE p \in {Part("tokens"), Part("starts")}
    <3>1. SyncParts[p] = [rows |-> dir[p].rows, synced |-> Len(dir[p].rows)]
      BY <2>2, <2>3, <2>4
    <3> QED BY <2>1, <3>1 DEF Files
  <2>5. CASE p \notin {Part("tokens"), Part("starts")}
    BY <2>1, <2>3, <2>5
  <2> QED BY <2>4, <2>5
<1> QED BY <1>1, <1>2

\* _sync_open_shard.
LEMMA SyncOpenShardStep == ASSUME IInv, SyncOpenShard PROVE IInv'
<1>1. /\ pc = "sync" /\ pc' = "journal_temporary" /\ dirty' = FALSE
      /\ dir' = IF dirty THEN SyncParts ELSE dir
      /\ UNCHANGED <<at, finishing, fed, buf, documents, content, rows, masked, shards, digest,
                     opened, cursor, journal, manifest, temps, faults>>
  BY DEF SyncOpenShard, Goto
<1>2. manifest = None /\ pc \in Working
  BY <1>1, AtWork DEF Working
<1>3. at = "tokens" /\ (dirty => opened)
  BY <1>1 DEF IInv, Memory, Working, Publishing
<1>4. /\ DOMAIN dir = Sealed \cup OpenFiles /\ SealedHold
      /\ OpenFiles = (IF opened THEN {Part("tokens"), Part("starts")} ELSE {})
      /\ \A p \in OpenFiles : dir[p].rows = digest /\ (~dirty => dir[p].synced = Len(digest))
  BY <1>1, <1>2, <1>3 DEF IInv, Directory, Working, Publishing, OpenFiles
<1>5. /\ DOMAIN dir' = DOMAIN dir
      /\ \A p \in DOMAIN dir :
              /\ dir'[p] \in Files /\ dir'[p].rows = dir[p].rows
              /\ dir[p].synced <= dir'[p].synced /\ dir'[p].synced <= Len(dir[p].rows)
  <2>1. CASE dirty
    BY <1>1, <2>1, SyncPartsFacts DEF IInv
  <2>2. CASE ~dirty
    <3>1. \A p \in DOMAIN dir : dir[p] \in Files /\ dir[p].synced \in Nat /\ dir[p].synced <= Len(dir[p].rows)
      BY DEF IInv, Placed, Files
    <3> QED BY <1>1, <2>2, <3>1
  <2> QED BY <2>1, <2>2
<1>6. /\ \A p \in DOMAIN dir' : Placed(p, dir'[p])
      /\ SealedHold'
      /\ journal # None => Backed(dir', journal)
  BY <1>1, <1>2, <1>5, Resync
<1>7. TypeOK'
  BY <1>1, <1>5 DEF IInv, TypeOK, Labels
<1>8. Published'
  BY <1>1, <1>2 DEF Published
<1>9. Journaled'
  <2>1. CASE journal = None
    <3>1. ~dirty /\ dir = <<>>
      BY <1>2, <2>1 DEF IInv, Journaled
    <3>2. dir' = <<>>
      BY <1>1, <3>1
    <3> QED BY <1>1, <1>2, <2>1, <3>2 DEF IInv, Journaled
  <2>2. CASE journal # None
    BY <1>1, <1>2, <1>6, <2>2 DEF IInv, Journaled, Working
  <2> QED BY <2>1, <2>2
<1>10. Memory'
  BY <1>1 DEF IInv, Memory, Working, Publishing, JournalPayload, RowReady
<1>11. Directory'
  <2>1. OpenFiles' = OpenFiles /\ Sealed' = Sealed
    BY <1>1, <1>3, <1>4 DEF OpenFiles, Part, Sealed
  <2>2. \A p \in OpenFiles : dir'[p].rows = digest /\ dir'[p].synced = Len(digest)
    <3>1. CASE dirty
      <4>1. OpenFiles = {Part("tokens"), Part("starts")}
        BY <1>3, <1>4, <3>1
      <4> QED BY <1>1, <1>4, <3>1, <4>1, SyncPartsFacts DEF IInv
    <3>2. CASE ~dirty
      BY <1>1, <1>4, <3>2
    <3> QED BY <3>1, <3>2
  <2>3. DOMAIN dir' = Sealed' \cup OpenFiles' /\ digest' = digest
    BY <1>1, <1>4, <1>5, <2>1
  <2> QED BY <1>1, <1>6, <2>1, <2>2, <2>3 DEF Directory, Working, Publishing
<1>12. Temporaries'
  BY <1>1 DEF IInv, Temporaries
<1> QED BY <1>1, <1>6, <1>7, <1>8, <1>9, <1>10, <1>11, <1>12 DEF IInv

\* A failed commit leaves the old journal in force and the shard dirty.
LEMMA JournalRaisesStep == ASSUME IInv, JournalRaises PROVE IInv'
<1> DEFINE tokens == Part("tokens")
<1>1. /\ pc \in {"sync", "journal_temporary", "journal_replace", "journal_sync"} /\ pc' = "idle"
      /\ journal # None /\ temps' = temps \ {"journal"} /\ finishing' = FALSE
      /\ dir' = dir \/ (dirty /\ dir' = [dir EXCEPT ![tokens] = Synced(@)])
      /\ UNCHANGED <<at, fed, buf, documents, content, rows, masked, shards, digest,
                     opened, dirty, cursor, journal, manifest>>
  BY DEF JournalRaises, Goto, memory
<1>2. manifest = None /\ pc \in Working
  BY <1>1, AtWork DEF Working
<1>3. at = "tokens" /\ (dirty => opened)
  BY <1>1 DEF IInv, Memory, Working, Publishing
<1>4. /\ DOMAIN dir = Sealed \cup OpenFiles /\ SealedHold
      /\ OpenFiles = (IF opened THEN {Part("tokens"), Part("starts")} ELSE {})
      /\ \A p \in OpenFiles : dir[p].rows = digest /\ (~dirty => dir[p].synced = Len(digest))
  BY <1>1, <1>2, <1>3 DEF IInv, Directory, Working, Publishing, OpenFiles
<1> HIDE DEF tokens
<1>5. /\ DOMAIN dir' = DOMAIN dir
      /\ \A p \in DOMAIN dir :
              /\ dir'[p] \in Files /\ dir'[p].rows = dir[p].rows
              /\ dir[p].synced <= dir'[p].synced /\ dir'[p].synced <= Len(dir[p].rows)
  <2>1. \A p \in DOMAIN dir :
           /\ dir[p] \in Files /\ dir[p].synced \in Nat /\ dir[p].synced <= Len(dir[p].rows)
           /\ dir[p].rows \in Seq(Seq(Nat)) /\ Len(dir[p].rows) \in Nat
    BY DEF IInv, Placed, Files
  <2>2. CASE dir' = dir
    BY <2>1, <2>2
  <2>3. CASE dirty /\ dir' = [dir EXCEPT ![tokens] = Synced(@)]
    <3>1. DOMAIN dir' = DOMAIN dir
      BY <2>3
    <3>2. ASSUME NEW p \in DOMAIN dir
          PROVE  /\ dir'[p] \in Files /\ dir'[p].rows = dir[p].rows
                 /\ dir[p].synced <= dir'[p].synced /\ dir'[p].synced <= Len(dir[p].rows)
      <4>1. CASE p # tokens
        BY <2>1, <2>3, <4>1
      <4>2. CASE p = tokens
        <5>1. dir'[p] = Synced(dir[p])
          BY <2>3, <4>2
        <5>2. Synced(dir[p]) = [rows |-> dir[p].rows, synced |-> Len(dir[p].rows)]
          BY <2>1 DEF Synced, Files
        <5>3. dir'[p] = [rows |-> dir[p].rows, synced |-> Len(dir[p].rows)]
          BY <5>1, <5>2
        <5> QED BY <2>1, <5>3 DEF Files
      <4> QED BY <4>1, <4>2
    <3> QED BY <3>1, <3>2
  <2> QED BY <1>1, <2>2, <2>3
<1>6. /\ \A p \in DOMAIN dir' : Placed(p, dir'[p])
      /\ SealedHold'
      /\ journal # None => Backed(dir', journal)
  BY <1>1, <1>2, <1>5, Resync
<1>7. TypeOK'
  BY <1>1, <1>5 DEF IInv, TypeOK, Labels
<1>8. Published'
  BY <1>1, <1>2 DEF Published
<1>9. Journaled'
  BY <1>1, <1>2, <1>6 DEF IInv, Journaled, Working
<1>10. Memory'
  BY <1>1 DEF IInv, Memory, Working, Publishing, JournalPayload, RowReady
<1>11. Directory'
  <2>1. OpenFiles' = OpenFiles /\ Sealed' = Sealed
    BY <1>1, <1>3, <1>4 DEF OpenFiles, Part, Sealed
  <2>2. \A p \in OpenFiles : dir'[p].rows = digest /\ (~dirty => dir'[p].synced = Len(digest))
    <3>1. OpenFiles \subseteq DOMAIN dir
      BY <1>4
    <3>2. ~dirty => dir' = dir
      BY <1>1
    <3> QED BY <1>4, <1>5, <3>1, <3>2
  <2>3. DOMAIN dir' = Sealed' \cup OpenFiles' /\ digest' = digest /\ dirty' = dirty
    BY <1>1, <1>4, <1>5, <2>1
  <2> QED BY <1>1, <1>6, <2>1, <2>2, <2>3 DEF Directory, Working, Publishing
<1>12. Temporaries'
  BY <1>1 DEF IInv, Temporaries
<1> QED BY <1>1, <1>6, <1>7, <1>8, <1>9, <1>10, <1>11, <1>12 DEF IInv
\* The temporary of the manifest.
LEMMA WriteManifestTemporaryStep == ASSUME IInv, WriteManifestTemporary PROVE IInv'
<1>1. /\ pc = "publish" /\ pc' = "manifest_replace" /\ temps' = temps \cup {"manifest"}
      /\ UNCHANGED <<at, finishing, fed, buf, documents, content, rows, masked, shards, digest,
                     opened, dirty, cursor, dir, journal, manifest, faults>>
  BY DEF WriteManifestTemporary, Goto, memory
<1>2. manifest = None /\ journal # None
  BY <1>1 DEF IInv, Published, Journaled
<1>3. TypeOK' /\ \A p \in DOMAIN dir' : Placed(p, dir'[p])
  BY <1>1 DEF IInv, TypeOK, Labels
<1>4. Published' /\ Journaled'
  BY <1>1, <1>2 DEF IInv, Published, Journaled, Working
<1>5. Memory'
  BY <1>1 DEF IInv, Memory, Working, Publishing
<1>6. Directory' /\ Temporaries'
  BY <1>1 DEF IInv, Directory, Temporaries, Working, Publishing, OpenFiles, Sealed, SealedHold, Part, Exists
<1> QED BY <1>1, <1>3, <1>4, <1>5, <1>6 DEF IInv

\* The manifest is the commit point: it lists all the rows, and they are there.
LEMMA ReplaceManifestStep == ASSUME IInv, ReplaceManifest PROVE IInv'
<1>1. /\ pc = "manifest_replace" /\ pc' = "unlink" /\ temps' = temps \ {"manifest"}
      /\ manifest' = [cursor |-> cursor, documents |-> documents, content |-> content,
                      rows |-> rows, masked |-> masked, shards |-> shards]
      /\ UNCHANGED <<at, finishing, fed, buf, documents, content, rows, masked, shards, digest,
                     opened, dirty, cursor, dir, journal, faults>>
  BY DEF ReplaceManifest, Goto, memory
<1>2. manifest = None /\ temps' = {}
  BY <1>1 DEF IInv, Published, Temporaries, TypeOK
<1>3. /\ manifest' \in Manifests /\ manifest'.cursor = cursor /\ manifest'.documents = documents
      /\ manifest'.rows = rows /\ manifest'.masked = masked /\ manifest'.shards = shards
  BY <1>1 DEF IInv, TypeOK, Manifests
<1>4. TypeOK' /\ \A p \in DOMAIN dir' : Placed(p, dir'[p])
  BY <1>1, <1>3 DEF IInv, TypeOK, Labels
<1>5. /\ documents = NumDocs /\ Whole(shards, rows) /\ masked = Cardinality(Boundaries(rows))
      /\ ~opened
  BY <1>1 DEF IInv, Memory, Publishing
<1>6. DOMAIN dir = Sealed /\ SealedHold
  BY <1>1, <1>2, <1>5 DEF IInv, Directory, Publishing, OpenFiles
<1>7. Published'
  <2>1. DOMAIN dir' = {Path(k, i - 1, "final") : k \in Kinds, i \in 1..Len(manifest'.shards)}
    BY <1>1, <1>3, <1>6 DEF Sealed
  <2>2. \A k \in Kinds : \A i \in 1..Len(manifest'.shards) :
          LET f == dir'[Path(k, i - 1, "final")]
          IN  f.rows = manifest'.shards[i] /\ f.synced = Len(f.rows)
    BY <1>1, <1>3, <1>6 DEF SealedHold
  <2>3. manifest' # None
    BY <1>3, NoneAssumption
  <2>4. cursor \in 0..NumDocs
    BY DEF IInv, TypeOK
  <2> QED BY <1>1, <1>2, <1>3, <1>5, <2>1, <2>2, <2>3, <2>4 DEF Published
<1>8. Journaled'
  <2>1. manifest' # None
    BY <1>3, NoneAssumption
  <2> QED BY <1>1, <2>1 DEF IInv, Journaled
<1>9. Memory'
  BY <1>1 DEF IInv, Memory, Working, Publishing
<1>10. Directory' /\ Temporaries'
  <2>1. manifest' # None
    BY <1>3, NoneAssumption
  <2> QED BY <1>1, <1>2, <2>1 DEF Directory, Temporaries
<1> QED BY <1>1, <1>4, <1>7, <1>8, <1>9, <1>10 DEF IInv

\* The journal goes once the manifest stands.
LEMMA UnlinkJournalStep == ASSUME IInv, UnlinkJournal PROVE IInv'
<1>1. /\ pc = "unlink" /\ pc' = "closed" /\ journal' = None
      /\ UNCHANGED <<at, finishing, fed, buf, documents, content, rows, masked, shards, digest,
                     opened, dirty, cursor, dir, manifest, temps, faults>>
  BY DEF UnlinkJournal, Goto, memory
<1>2. manifest # None
  BY <1>1 DEF IInv, Published
<1>3. TypeOK' /\ \A p \in DOMAIN dir' : Placed(p, dir'[p])
  BY <1>1 DEF IInv, TypeOK, Labels
<1>4. Published' /\ Journaled'
  BY <1>1, <1>2 DEF IInv, Published, Journaled
<1>5. Memory'
  BY <1>1 DEF IInv, Memory, Working, Publishing
<1>6. Directory' /\ Temporaries'
  BY <1>1, <1>2 DEF IInv, Directory, Temporaries
<1> QED BY <1>1, <1>3, <1>4, <1>5, <1>6 DEF IInv

-----------------------------------------------------------------------------
(* The drain.                                                               *)

\* The parts are stable before they are renamed.
LEMMA SealSyncStep == ASSUME IInv, SealSync PROVE IInv'
<1>1. /\ pc = "seal" /\ pc' = "rename" /\ dirty' = FALSE /\ opened' = FALSE
      /\ dir' = SyncParts
      /\ UNCHANGED <<at, finishing, fed, buf, documents, content, rows, masked, shards, digest,
                     cursor, journal, manifest, temps, faults>>
  BY DEF SealSync, Goto
<1>2. manifest = None /\ pc \in Working /\ journal # None
  BY <1>1, AtWork DEF Working
<1>3. at = "tokens" /\ digest # <<>> /\ opened
  BY <1>1 DEF IInv, Memory, Working, Publishing
<1>4. /\ DOMAIN dir = Sealed \cup OpenFiles /\ SealedHold
      /\ OpenFiles = {Part("tokens"), Part("starts")}
      /\ \A p \in OpenFiles : dir[p].rows = digest
  BY <1>1, <1>2, <1>3 DEF IInv, Directory, Working, Publishing, OpenFiles
<1>5. /\ DOMAIN dir' = DOMAIN dir
      /\ \A p \in DOMAIN dir :
              /\ dir'[p] \in Files /\ dir'[p].rows = dir[p].rows
              /\ dir[p].synced <= dir'[p].synced /\ dir'[p].synced <= Len(dir[p].rows)
  BY <1>1, SyncPartsFacts DEF IInv
<1>6. /\ \A p \in DOMAIN dir' : Placed(p, dir'[p])
      /\ SealedHold'
      /\ journal # None => Backed(dir', journal)
  BY <1>1, <1>2, <1>5, Resync
<1>7. TypeOK'
  BY <1>1, <1>5 DEF IInv, TypeOK, Labels
<1>8. Published'
  BY <1>1, <1>2 DEF Published
<1>9. Journaled'
  BY <1>1, <1>2, <1>6 DEF IInv, Journaled, Working
<1>10. Memory'
  BY <1>1 DEF IInv, Memory, Working, Publishing, JournalPayload, RowReady
<1>11. Directory'
  <2>1. OpenFiles' = OpenFiles /\ Sealed' = Sealed
    BY <1>1, <1>3, <1>4 DEF OpenFiles, Part, Sealed
  <2>2. \A p \in OpenFiles : dir'[p].rows = digest /\ dir'[p].synced = Len(digest)
    BY <1>1, <1>4, SyncPartsFacts DEF IInv
  <2>3. DOMAIN dir' = Sealed' \cup OpenFiles' /\ digest' = digest
    BY <1>1, <1>4, <1>5, <2>1
  <2> QED BY <1>1, <1>6, <2>1, <2>2, <2>3 DEF Directory, Working, Publishing
<1>12. Temporaries'
  BY <1>1 DEF IInv, Temporaries
<1> QED BY <1>1, <1>6, <1>7, <1>8, <1>9, <1>10, <1>11, <1>12 DEF IInv

\* Everything fed and no row left to cut: all the rows have been cut.
LEMMA AllRowsCut ==
    ASSUME TypeOK, Streamed, fed = NumDocs, ~RowReady
    PROVE  rows = Promise!RowsIn(DocEnd[NumDocs])
<1> DEFINE total == DocEnd[NumDocs]
<1>1. /\ rows \in Nat /\ Len(buf) \in Nat /\ total \in Nat /\ SeqLen \in Nat /\ SeqLen >= 2
  BY Dimensions DEF TypeOK
<1>2. rows * SeqLen + Len(buf) = total /\ Len(buf) <= SeqLen /\ (buf = <<>> => NumDocs = 0)
  BY <1>1 DEF Streamed, RowReady, TypeOK
<1>3. rows = Promise!RowsIn(total)
  <2>1. CASE total = 0
    <3>1. rows * SeqLen >= 0 /\ Len(buf) = 0 /\ rows * SeqLen = 0
      BY <1>1, <1>2, <2>1
    <3>2. rows = 0
      BY <1>1, <3>1
    <3> QED BY <2>1, <3>2 DEF Promise!RowsIn
  <2>2. CASE total # 0
    <3>1. Len(buf) >= 1
      <4>1. NumDocs = 0 => total = 0
        BY Dimensions
      <4>2. buf # <<>>
        BY <1>2, <2>2, <4>1
      <4> QED BY <1>1, <4>2 DEF TypeOK
    <3>2. total - 1 = rows * SeqLen + (Len(buf) - 1) /\ Len(buf) - 1 \in 0..SeqLen - 1
      BY <1>1, <1>2, <3>1
    <3>3. (total - 1) \div SeqLen = rows
      BY <1>1, <3>2, SMTT(40)
    <3> QED BY <2>2, <3>3 DEF Promise!RowsIn
  <2> QED BY <2>1, <2>2
<1> QED BY <1>3

\* Everything fed and no row left to cut: the shards are the whole packing.
LEMMA WholePacking ==
    ASSUME TypeOK, Streamed, fed = NumDocs, ~RowReady, digest = <<>>
    PROVE  Whole(shards, rows)
<1> DEFINE total == DocEnd[NumDocs]
           n == Len(shards)
<1>1. /\ rows \in Nat /\ n \in Nat /\ Len(buf) \in Nat /\ total \in Nat
      /\ RowsPerShard \in Nat /\ RowsPerShard > 0 /\ SeqLen \in Nat /\ SeqLen >= 2
  BY Dimensions DEF TypeOK
<1>2. rows * SeqLen + Len(buf) = total /\ Len(buf) <= SeqLen /\ rows = n * RowsPerShard
      /\ (buf = <<>> => NumDocs = 0)
  BY <1>1 DEF Streamed, RowReady, TypeOK
<1>3. rows = Promise!RowsIn(total)
  BY AllRowsCut
<1>4. n = Promise!ShardsFor(rows)
  <2>1. rows + RowsPerShard - 1 = n * RowsPerShard + (RowsPerShard - 1)
    BY <1>1, <1>2
  <2>2. (rows + RowsPerShard - 1) \div RowsPerShard = n
    BY <1>1, <2>1
  <2> QED BY <2>2 DEF Promise!ShardsFor
<1>5. ASSUME NEW s \in 1..n
      PROVE  shards[s] = Ref(s - 1, IF s * RowsPerShard < rows THEN RowsPerShard
                                    ELSE rows - (s - 1) * RowsPerShard)
  <2>1. shards[s] = Ref(s - 1, RowsPerShard)
    BY DEF Streamed
  <2>2. s * RowsPerShard <= rows /\ (s - 1) * RowsPerShard = s * RowsPerShard - RowsPerShard
    BY <1>1, <1>2
  <2>3. ~(s * RowsPerShard < rows) => rows - (s - 1) * RowsPerShard = RowsPerShard
    BY <1>1, <2>2
  <2> QED BY <2>1, <2>3
<1> QED BY <1>3, <1>4, <1>5 DEF Whole
\* The same with an open shard, which is the last one.
LEMMA WholePackingOpen ==
    ASSUME TypeOK, Streamed, fed = NumDocs, ~RowReady, digest # <<>>
    PROVE  Whole(Append(shards, digest), rows)
<1> DEFINE n == Len(shards)
           size == Len(digest)
           last == n + 1
           all == Append(shards, digest)
<1>1. /\ rows \in Nat /\ n \in Nat /\ size \in Nat /\ size >= 1 /\ size <= RowsPerShard
      /\ RowsPerShard \in Nat /\ RowsPerShard > 0 /\ rows = n * RowsPerShard + size
  <2>1. digest \in Seq(Seq(Nat)) /\ shards \in Seq(Seq(Seq(Nat))) /\ rows \in Nat
    BY DEF TypeOK
  <2>2. size \in Nat \ {0} /\ n \in Nat
    BY <2>1, EmptySeq
  <2>3. size <= RowsPerShard /\ rows = n * RowsPerShard + size
    BY DEF Streamed
  <2> QED BY <2>1, <2>2, <2>3, Dimensions
<1>2. rows = Promise!RowsIn(DocEnd[NumDocs])
  BY AllRowsCut
<1>3. /\ Len(all) = last /\ all[last] = digest
      /\ \A s \in 1..n : all[s] = shards[s]
  BY AppendProperties DEF TypeOK
<1>4. last = Promise!ShardsFor(rows)
  <2>1. rows + RowsPerShard - 1 = last * RowsPerShard + (size - 1) /\ size - 1 \in 0..RowsPerShard - 1
    BY <1>1
  <2>2. (rows + RowsPerShard - 1) \div RowsPerShard = last
    BY <1>1, <2>1
  <2> QED BY <2>2 DEF Promise!ShardsFor
<1>5. ASSUME NEW s \in 1..last
      PROVE  all[s] = Ref(s - 1, IF s * RowsPerShard < rows THEN RowsPerShard
                                 ELSE rows - (s - 1) * RowsPerShard)
  <2>1. CASE s \in 1..n
    <3>1. all[s] = Ref(s - 1, RowsPerShard)
      BY <1>3, <2>1 DEF Streamed
    <3>2. s * RowsPerShard <= n * RowsPerShard
      BY <1>1, <2>1
    <3>3. s * RowsPerShard \in Nat /\ n * RowsPerShard \in Nat
      BY <1>1, <2>1
    <3>4. s * RowsPerShard < rows
      BY <1>1, <3>2, <3>3
    <3> QED BY <3>1, <3>4
  <2>2. CASE s = last
    <3>1. all[s] = Ref(n, size) /\ s - 1 = n
      BY <1>1, <1>3, <2>2 DEF Streamed
    <3>2. s * RowsPerShard = n * RowsPerShard + RowsPerShard /\ n * RowsPerShard \in Nat
      BY <1>1, <2>2
    <3>3. ~(s * RowsPerShard < rows) /\ rows - n * RowsPerShard = size
      BY <1>1, <3>2
    <3> QED BY <3>1, <3>3
  <2> QED BY <1>1, <2>1, <2>2
<1> HIDE DEF all, last
<1> QED BY <1>2, <1>3, <1>4, <1>5 DEF Whole, all

\* The buffer holds no more rows.
LEMMA DrainedStep == ASSUME IInv, Drained PROVE IInv'
<1>1. /\ pc = "drain" /\ ~RowReady
      /\ pc' = IF ~finishing THEN "idle" ELSE IF opened THEN "seal" ELSE "publish"
      /\ UNCHANGED <<at, finishing, fed, buf, documents, content, rows, masked, shards, digest,
                     opened, dirty, cursor, dir, journal, manifest, temps, faults>>
  BY DEF Drained, Goto, memory, disk
<1>2. manifest = None /\ pc \in Working /\ journal # None
  BY <1>1, AtWork DEF Working
<1>3. pc' \in {"idle", "seal", "publish"}
  BY <1>1
<1>4. TypeOK' /\ \A p \in DOMAIN dir' : Placed(p, dir'[p])
  BY <1>1, <1>3 DEF IInv, TypeOK, Labels
<1>5. Published' /\ Journaled'
  BY <1>1, <1>2, <1>3 DEF IInv, Published, Journaled, Working
<1>6. /\ Stream(JournalPayload) /\ Len(digest) < RowsPerShard /\ (finishing => fed = NumDocs)
      /\ (digest # <<>> => opened) /\ (opened \/ at = "starts" => digest # <<>> \/ RowReady)
      /\ (opened => at = "tokens") /\ (dirty => opened)
  BY <1>1 DEF IInv, Memory, Working
<1>7. at = "tokens" /\ (opened <=> digest # <<>>)
  BY <1>1, <1>6 DEF IInv, TypeOK, Kinds
<1>8. Streamed
  BY <1>6, PayloadStreamed DEF IInv
<1>9. Rested(JournalPayload)
  <2>1. Len(buf) <= SeqLen
    BY <1>1, Dimensions DEF RowReady, IInv, TypeOK
  <2> QED BY <1>6, <1>8, <2>1, PayloadStreamed DEF IInv
<1>10. JournalPayload' = JournalPayload /\ RowReady' = RowReady
  BY <1>1 DEF JournalPayload, RowReady
<1>11. Memory'
  <2>1. CASE pc' = "idle"
    BY <1>1, <1>6, <1>7, <1>9, <1>10, <2>1 DEF Memory, Working, Publishing
  <2>2. CASE pc' = "seal"
    BY <1>1, <1>6, <1>7, <1>9, <1>10, <2>2 DEF Memory, Working, Publishing
  <2>3. CASE pc' = "publish"
    <3>1. ~opened /\ digest = <<>> /\ fed = NumDocs
      BY <1>1, <1>6, <1>7, <2>3
    <3>2. Whole(shards, rows)
      BY <1>1, <1>8, <3>1, WholePacking DEF IInv
    <3>3. documents = NumDocs /\ masked = Cardinality(Boundaries(rows))
      BY <1>8, <3>1 DEF Streamed
    <3> QED BY <1>1, <1>6, <1>7, <2>3, <3>1, <3>2, <3>3 DEF Memory, Working, Publishing
  <2> QED BY <1>3, <2>1, <2>2, <2>3
<1>12. Directory'
  <2>1. OpenFiles' = OpenFiles
    BY <1>1, <1>3, <1>7 DEF OpenFiles, Part
  <2> QED BY <1>1, <1>2, <1>3, <2>1 DEF IInv, Directory, Working, Publishing, Sealed, SealedHold, Exists
<1>13. Temporaries'
  BY <1>1 DEF IInv, Temporaries
<1> QED BY <1>3, <1>4, <1>5, <1>11, <1>12, <1>13 DEF IInv

\* What a rename does to a directory.
LEMMA RenameFacts ==
    ASSUME NEW d, NEW from \in DOMAIN d, NEW to, to # from
    PROVE  /\ DOMAIN Rename(d, from, to) = (DOMAIN d \ {from}) \cup {to}
           /\ Rename(d, from, to)[to] = d[from]
           /\ \A p \in DOMAIN d \ {from, to} : Rename(d, from, to)[p] = d[p]
  BY DEF Rename, Put, Restrict

\* A file of the open shard may change its name: it still backs the journal.
LEMMA BackedMoved ==
    ASSUME NEW d, NEW j \in Journals, Backed(d, j), NEW kind \in Kinds, NEW n \in Nat,
           NEW a \in {"part", "final"}, NEW b \in {"part", "final"}, a # b,
           Len(j.shards) <= n, Path(kind, n, a) \in DOMAIN d, Path(kind, n, b) \notin DOMAIN d
    PROVE  Backed(Rename(d, Path(kind, n, a), Path(kind, n, b)), j)
<1> DEFINE from == Path(kind, n, a)
           to == Path(kind, n, b)
           e == Rename(d, from, to)
           m == Len(j.shards)
<1>1. from # to
  BY Paths
<1>2. /\ DOMAIN e = (DOMAIN d \ {from}) \cup {to} /\ e[to] = d[from]
      /\ \A p \in DOMAIN d \ {from, to} : e[p] = d[p]
  <2> HIDE DEF from, to
  <2>1. from \in DOMAIN d
    BY DEF from
  <2> QED BY <1>1, <2>1 DEF Rename, Put, Restrict
<1>3. m \in Nat /\ m <= n
  BY DEF Journals
<1> HIDE DEF e
<1>4. ASSUME NEW k \in Kinds, NEW i \in 0..m - 1
      PROVE  /\ Path(k, i, "final") \in DOMAIN e /\ Path(k, i, "part") \notin DOMAIN e
             /\ e[Path(k, i, "final")].synced = RowsPerShard
  <2>1. i # n
    BY <1>3
  <2>2. Path(k, i, "final") \notin {from, to} /\ Path(k, i, "part") \notin {from, to}
    BY <2>1, Paths
  <2>3. /\ Path(k, i, "final") \in DOMAIN d /\ Path(k, i, "part") \notin DOMAIN d
        /\ d[Path(k, i, "final")].synced = RowsPerShard
    BY DEF Backed
  <2> QED BY <1>2, <2>2, <2>3
<1>5. ASSUME j.open # <<>>, NEW k \in Kinds
      PROVE  \E place, other \in {"part", "final"} :
             /\ place # other
             /\ Path(k, m, place) \in DOMAIN e /\ Path(k, m, other) \notin DOMAIN e
             /\ e[Path(k, m, place)].synced >= Len(j.open)
  <2>1. PICK place \in {"part", "final"}, other \in {"part", "final"} :
             /\ place # other
             /\ Path(k, m, place) \in DOMAIN d /\ Path(k, m, other) \notin DOMAIN d
             /\ d[Path(k, m, place)].synced >= Len(j.open)
    BY <1>5 DEF Backed
  <2>2. CASE k = kind /\ m = n
    <3>1. place = a
      BY <2>1, <2>2
    <3>2. Path(k, m, b) \in DOMAIN e /\ Path(k, m, a) \notin DOMAIN e
          /\ e[Path(k, m, b)].synced >= Len(j.open)
      BY <1>1, <1>2, <2>1, <2>2, <3>1
    <3> QED BY <3>2
  <2>3. CASE ~(k = kind /\ m = n)
    <3>1. Path(k, m, place) \notin {from, to} /\ Path(k, m, other) \notin {from, to}
      BY <2>3, Paths
    <3>2. Path(k, m, place) \in DOMAIN e /\ Path(k, m, other) \notin DOMAIN e
          /\ e[Path(k, m, place)] = d[Path(k, m, place)]
      BY <1>2, <2>1, <3>1
    <3> QED BY <2>1, <3>2
  <2> QED BY <2>2, <2>3
<1>6. Backed(e, j)
  BY <1>4, <1>5 DEF Backed
<1> QED BY <1>6 DEF e
\* What a rename while sealing finds and leaves behind.
LEMMA SealRenameFacts ==
    ASSUME IInv, SealRename
    PROVE  LET n == Len(shards)
               from == Path(at, n, "part")
               to == Path(at, n, "final")
           IN  /\ n \in Nat /\ from \in DOMAIN dir /\ to \notin DOMAIN dir /\ from # to
               /\ from \notin Sealed /\ manifest = None /\ journal # None
               /\ dir' = Rename(dir, from, to)
               /\ DOMAIN dir' = (DOMAIN dir \ {from}) \cup {to} /\ dir'[to] = dir[from]
               /\ \A p \in DOMAIN dir \ {from, to} : dir'[p] = dir[p]
               /\ \A p \in DOMAIN dir' : Placed(p, dir'[p])
               /\ DOMAIN dir' \subseteq Kinds \X Nat \X {"part", "final"}
               /\ Backed(dir', journal)
               /\ \A k \in Kinds : \A i \in 1..n :
                     LET p == Path(k, i - 1, "final")
                     IN  p \in DOMAIN dir' /\ dir'[p].rows = shards[i]
                         /\ dir'[p].synced = Len(shards[i])
               /\ \A p \in OpenFiles : dir[p].rows = digest /\ dir[p].synced = Len(digest)
               /\ Streamed /\ digest # <<>> /\ (finishing => fed = NumDocs /\ ~RowReady)
               /\ (finishing \/ Len(digest) = RowsPerShard) /\ ~opened /\ ~dirty
<1> DEFINE n == Len(shards)
           from == Path(at, n, "part")
           to == Path(at, n, "final")
<1>1. pc = "rename" /\ dir' = Rename(dir, from, to) /\ UNCHANGED <<journal, manifest>>
  BY DEF SealRename, Part, Final
<1>2. n \in Nat /\ at \in Kinds /\ shards \in Seq(Seq(Seq(Nat))) /\ journal \in Journals \cup {None}
  BY DEF IInv, TypeOK
<1>3. manifest = None /\ journal # None /\ journal \in Journals
  BY <1>1, <1>2, AtWork DEF Working
<1>4. /\ Stream(JournalPayload) /\ digest # <<>> /\ (finishing => fed = NumDocs /\ ~RowReady)
      /\ (finishing \/ Len(digest) = RowsPerShard) /\ ~opened /\ ~dirty
  BY <1>1 DEF IInv, Memory, Working
<1>5. Streamed
  BY <1>4, PayloadStreamed DEF IInv
<1>6. /\ DOMAIN dir = Sealed \cup OpenFiles /\ SealedHold
      /\ \A p \in OpenFiles : dir[p].rows = digest /\ dir[p].synced = Len(digest)
  BY <1>1, <1>3, <1>4 DEF IInv, Directory, Working
<1>7. OpenFiles = IF at = "tokens" THEN {Path("tokens", n, "part"), Path("starts", n, "part")}
                  ELSE {Path("tokens", n, "final"), Path("starts", n, "part")}
  BY <1>1, <1>2 DEF OpenFiles, Part, Final, Kinds
<1>8. from \in OpenFiles /\ to \notin OpenFiles /\ from # to
  BY <1>2, <1>7, Paths DEF Kinds
<1>9. from \notin Sealed /\ to \notin Sealed
  BY <1>2 DEF Sealed, Path
<1>10. from \in DOMAIN dir /\ to \notin DOMAIN dir
  BY <1>6, <1>8, <1>9
<1>11. /\ DOMAIN dir' = (DOMAIN dir \ {from}) \cup {to} /\ dir'[to] = dir[from]
       /\ \A p \in DOMAIN dir \ {from, to} : dir'[p] = dir[p]
  <2> HIDE DEF from, to
  <2> QED BY <1>1, <1>8, <1>10 DEF Rename, Put, Restrict
<1>12. ASSUME NEW p \in DOMAIN dir' PROVE Placed(p, dir'[p])
  <2>1. CASE p = to
    <3>1. from[2] = n /\ to[2] = n
      BY DEF Path
    <3>2. Placed(from, dir[from])
      BY <1>10 DEF IInv
    <3> QED BY <1>11, <2>1, <3>1, <3>2 DEF Placed
  <2>2. CASE p # to
    <3>1. p \in DOMAIN dir /\ dir'[p] = dir[p]
      BY <1>11, <2>2
    <3> QED BY <3>1 DEF IInv
  <2> QED BY <2>1, <2>2
<1>13. DOMAIN dir' \subseteq Kinds \X Nat \X {"part", "final"}
  <2>1. to \in Kinds \X Nat \X {"part", "final"}
    BY <1>2 DEF Path
  <2> QED BY <1>11, <2>1 DEF IInv, TypeOK
<1>14. Backed(dir', journal)
  <2>1. Backed(dir, journal) /\ Len(journal.shards) <= n
    BY <1>1, <1>3 DEF IInv, Journaled, Working
  <2>2. Backed(Rename(dir, from, to), journal)
    BY <1>2, <1>3, <1>10, <2>1, BackedMoved
  <2> QED BY <1>1, <2>2
<1>15. ASSUME NEW k \in Kinds, NEW i \in 1..n
       PROVE  LET p == Path(k, i - 1, "final")
              IN  p \in DOMAIN dir' /\ dir'[p].rows = shards[i] /\ dir'[p].synced = Len(shards[i])
  <2> DEFINE p == Path(k, i - 1, "final")
  <2>1. p \in DOMAIN dir /\ dir[p].rows = shards[i] /\ dir[p].synced = Len(shards[i])
    BY <1>6 DEF SealedHold, Exists
  <2>2. p # from /\ p # to
    <3>1. i - 1 # n
      BY <1>2
    <3> QED BY <3>1, Paths
  <2> QED BY <1>11, <2>1, <2>2
<1> HIDE DEF n, from, to
<1>16. /\ n \in Nat /\ from \in DOMAIN dir /\ to \notin DOMAIN dir /\ from # to
       /\ from \notin Sealed /\ manifest = None /\ journal # None
  BY <1>2, <1>3, <1>8, <1>9, <1>10
<1> QED BY <1>1, <1>4, <1>5, <1>6, <1>11, <1>12, <1>13, <1>14, <1>15, <1>16 DEF n, from, to

\* The tokens file of a shard gets its final name.
LEMMA SealRenameTokens == ASSUME IInv, SealRename, at = "tokens" PROVE IInv'
<1> DEFINE n == Len(shards)
           from == Path("tokens", n, "part")
           to == Path("tokens", n, "final")
           starts == Path("starts", n, "part")
<1>1. /\ pc = "rename" /\ at = "tokens" /\ at' = "starts"
      /\ UNCHANGED <<pc, finishing, fed, buf, documents, content, rows, masked, shards, digest,
                     opened, dirty, cursor, journal, manifest, temps, faults>>
  BY DEF SealRename
<1>2. /\ n \in Nat /\ from \in DOMAIN dir /\ to \notin DOMAIN dir /\ from # to
      /\ from \notin Sealed /\ manifest = None /\ journal # None
      /\ DOMAIN dir' = (DOMAIN dir \ {from}) \cup {to} /\ dir'[to] = dir[from]
      /\ \A p \in DOMAIN dir \ {from, to} : dir'[p] = dir[p]
      /\ \A p \in DOMAIN dir' : Placed(p, dir'[p])
      /\ DOMAIN dir' \subseteq Kinds \X Nat \X {"part", "final"}
      /\ Backed(dir', journal)
  BY SealRenameFacts
<1>3. /\ \A k \in Kinds : \A i \in 1..n :
           LET p == Path(k, i - 1, "final")
           IN  p \in DOMAIN dir' /\ dir'[p].rows = shards[i] /\ dir'[p].synced = Len(shards[i])
      /\ \A p \in OpenFiles : dir[p].rows = digest /\ dir[p].synced = Len(digest)
  BY SealRenameFacts
<1>4. TypeOK'
  BY <1>1, <1>2 DEF IInv, TypeOK, Kinds
<1>5. Published' /\ Journaled'
  BY <1>1, <1>2 DEF IInv, Published, Journaled, Working
<1>6. Memory'
  BY <1>1 DEF IInv, Memory, Working, Publishing, JournalPayload, RowReady
<1>7. Directory'
  <2>1. OpenFiles = {from, starts} /\ OpenFiles' = {to, starts} /\ Sealed' = Sealed
    BY <1>1 DEF OpenFiles, Part, Final, Sealed
  <2>2. DOMAIN dir = Sealed \cup OpenFiles
    BY <1>1, <1>2 DEF IInv, Directory, Working
  <2>3. starts # from /\ starts # to
    BY Paths
  <2>4. DOMAIN dir' = Sealed' \cup OpenFiles'
    <3> HIDE DEF from, to, starts
    <3> QED BY <1>2, <2>1, <2>2, <2>3
  <2>5. SealedHold'
    BY <1>1, <1>3 DEF SealedHold, Exists
  <2>6. \A p \in OpenFiles' : dir'[p].rows = digest /\ dir'[p].synced = Len(digest)
    <3> HIDE DEF from, to, starts
    <3>1. starts \in DOMAIN dir
      BY <2>1, <2>2
    <3>2. dir'[starts] = dir[starts] /\ dir'[to] = dir[from]
      BY <1>2, <2>3, <3>1
    <3> QED BY <1>3, <2>1, <3>2
  <2> QED BY <1>1, <2>4, <2>5, <2>6 DEF Directory, Working, Publishing
<1>8. Temporaries'
  BY <1>1 DEF IInv, Temporaries
<1> QED BY <1>1, <1>2, <1>4, <1>5, <1>6, <1>7, <1>8 DEF IInv

\* The starts file follows and the shard is recorded.
LEMMA SealRenameStarts == ASSUME IInv, SealRename, at = "starts" PROVE IInv'
<1> DEFINE n == Len(shards)
           from == Path("starts", n, "part")
           to == Path("starts", n, "final")
           tokens == Path("tokens", n, "final")
<1>1. /\ pc = "rename" /\ at = "starts" /\ at' = "tokens"
      /\ shards' = Append(shards, digest) /\ digest' = <<>>
      /\ pc' = IF finishing THEN "publish" ELSE "drain"
      /\ UNCHANGED <<finishing, fed, buf, documents, content, rows, masked,
                     opened, dirty, cursor, journal, manifest, temps, faults>>
  BY DEF SealRename, Goto
<1>2. /\ n \in Nat /\ from \in DOMAIN dir /\ to \notin DOMAIN dir /\ from # to
      /\ from \notin Sealed /\ manifest = None /\ journal # None
      /\ DOMAIN dir' = (DOMAIN dir \ {from}) \cup {to} /\ dir'[to] = dir[from]
      /\ \A p \in DOMAIN dir \ {from, to} : dir'[p] = dir[p]
      /\ \A p \in DOMAIN dir' : Placed(p, dir'[p])
      /\ DOMAIN dir' \subseteq Kinds \X Nat \X {"part", "final"}
      /\ Backed(dir', journal)
  BY SealRenameFacts
<1>3. /\ \A k \in Kinds : \A i \in 1..n :
           LET p == Path(k, i - 1, "final")
           IN  p \in DOMAIN dir' /\ dir'[p].rows = shards[i] /\ dir'[p].synced = Len(shards[i])
      /\ \A p \in OpenFiles : dir[p].rows = digest /\ dir[p].synced = Len(digest)
  BY SealRenameFacts
<1>4. /\ Streamed /\ digest # <<>> /\ (finishing => fed = NumDocs /\ ~RowReady)
      /\ (finishing \/ Len(digest) = RowsPerShard) /\ ~opened /\ ~dirty
  BY SealRenameFacts
<1>5. shards \in Seq(Seq(Seq(Nat))) /\ digest \in Seq(Seq(Nat)) /\ rows \in Nat /\ Len(digest) \in Nat
  BY DEF IInv, TypeOK
<1>6. /\ shards' \in Seq(Seq(Seq(Nat))) /\ Len(shards') = n + 1 /\ shards'[n + 1] = digest
      /\ \A i \in 1..n : shards'[i] = shards[i]
  BY <1>1, <1>5, AppendProperties
<1>7. digest' \in Seq(Seq(Nat)) /\ Len(digest') = 0
  BY <1>1
<1>8. pc' \in {"publish", "drain"}
  BY <1>1
<1>9. TypeOK'
  BY <1>1, <1>2, <1>6, <1>7, <1>8 DEF IInv, TypeOK, Kinds, Labels
<1>10. Published'
  BY <1>1, <1>2, <1>8 DEF Published
<1>11. Journaled'
  <2>1. Len(journal.shards) <= n /\ Len(journal.shards) \in Nat
    <3>1. journal \in Journals
      BY <1>2 DEF IInv, TypeOK
    <3> QED BY <1>1, <1>2, <3>1 DEF IInv, Journaled, Working, Journals
  <2>2. Len(journal.shards) <= Len(shards') /\ Len(journal.shards) # Len(shards')
    BY <1>2, <1>6, <2>1
  <2> QED BY <1>1, <1>2, <1>8, <2>2 DEF IInv, Journaled, Working
<1>12. Memory'
  <2>1. CASE finishing
    <3>1. Whole(shards', rows)
      BY <1>1, <1>4, <2>1, WholePackingOpen DEF IInv
    <3>2. documents = NumDocs /\ masked = Cardinality(Boundaries(rows))
      BY <1>4, <2>1 DEF Streamed
    <3> QED BY <1>1, <1>4, <2>1, <3>1, <3>2 DEF Memory, Working, Publishing
  <2>2. CASE ~finishing
    <3>1. Len(digest) = RowsPerShard
      BY <1>4, <2>2
    <3>2. Streamed'
      <4>1. rows = Len(shards') * RowsPerShard + Len(digest')
        <5>1. rows = n * RowsPerShard + RowsPerShard
          BY <1>4, <3>1 DEF Streamed
        <5> QED BY <1>2, <1>6, <1>7, <5>1, Dimensions
      <4>2. \A s \in 1..Len(shards') : shards'[s] = Ref(s - 1, RowsPerShard)
        <5>1. \A s \in 1..n : shards'[s] = Ref(s - 1, RowsPerShard)
          BY <1>4, <1>6 DEF Streamed
        <5>2. shards'[n + 1] = Ref((n + 1) - 1, RowsPerShard)
          BY <1>2, <1>4, <1>6, <3>1 DEF Streamed
        <5>3. ASSUME NEW s \in 1..n + 1 PROVE shards'[s] = Ref(s - 1, RowsPerShard)
          <6>1. s \in 1..n \/ s = n + 1
            BY <1>2
          <6> QED BY <5>1, <5>2, <6>1
        <5> QED BY <1>6, <5>3
      <4>3. digest' = Ref(Len(shards'), Len(digest')) /\ Len(digest') <= RowsPerShard
        <5>1. n + 1 \in Nat
          BY <1>2
        <5>2. Ref(n + 1, 0) = <<>>
          BY <5>1, RefFacts
        <5>3. digest' = Ref(n + 1, 0) /\ Len(digest') = 0 /\ Len(shards') = n + 1
          BY <1>1, <1>6, <1>7, <5>2
        <5> QED BY <5>3, Dimensions
      <4> QED BY <1>1, <1>4, <4>1, <4>2, <4>3 DEF Streamed
    <3>3. Stream(JournalPayload)'
      <4>1. Stream(JournalPayload)' <=> Streamed'
        <5>1. fed' \in 0..NumDocs
          BY <1>9 DEF TypeOK
        <5> QED BY <5>1 DEF Stream, JournalPayload, Streamed
      <4> QED BY <3>2, <4>1
    <3>4. Len(digest') < RowsPerShard
      BY <1>7, Dimensions
    <3> QED BY <1>1, <1>4, <1>7, <2>2, <3>3, <3>4 DEF Memory, Working, Publishing
  <2> QED BY <2>1, <2>2
<1>13. Directory'
  <2>1. OpenFiles = {tokens, from} /\ OpenFiles' = {}
    BY <1>1, <1>4, <1>8 DEF OpenFiles, Part, Final
  <2>2. DOMAIN dir = Sealed \cup OpenFiles
    BY <1>1, <1>2 DEF IInv, Directory, Working
  <2>3. tokens # from /\ tokens # to
    BY Paths
  <2>4. Sealed' = Sealed \cup {tokens, to}
    <3>1. Sealed' = {Path(k, i - 1, "final") : k \in Kinds, i \in 1..n + 1}
      BY <1>6 DEF Sealed
    <3>2. ASSUME NEW p PROVE p \in Sealed' <=> p \in Sealed \cup {tokens, to}
      <4>1. ASSUME p \in Sealed' PROVE p \in Sealed \cup {tokens, to}
        <5>1. PICK k \in Kinds, i \in 1..n + 1 : p = Path(k, i - 1, "final")
          BY <3>1, <4>1
        <5>2. CASE i \in 1..n
          BY <5>1, <5>2 DEF Sealed
        <5>3. CASE i = n + 1
          <6>1. p = Path(k, n, "final")
            BY <1>2, <5>1, <5>3
          <6> QED BY <6>1 DEF Kinds
        <5> QED BY <1>2, <5>2, <5>3
      <4>2. ASSUME p \in Sealed PROVE p \in Sealed'
        <5>1. PICK k \in Kinds, i \in 1..n : p = Path(k, i - 1, "final")
          BY <4>2 DEF Sealed
        <5>2. i \in 1..n + 1
          BY <1>2
        <5> QED BY <3>1, <5>1, <5>2
      <4>3. ASSUME p \in {tokens, to} PROVE p \in Sealed'
        <5>1. n + 1 \in 1..n + 1 /\ (n + 1) - 1 = n
          BY <1>2
        <5> QED BY <3>1, <4>3, <5>1 DEF Kinds
      <4> QED BY <4>1, <4>2, <4>3
    <3> QED BY <3>2
  <2>5. DOMAIN dir' = Sealed' \cup OpenFiles'
    <3> HIDE DEF from, to, tokens
    <3> QED BY <1>2, <2>1, <2>2, <2>3, <2>4
  <2>6. SealedHold'
    <3> SUFFICES ASSUME NEW k \in Kinds, NEW i \in 1..n + 1
                 PROVE  /\ Path(k, i - 1, "final") \in DOMAIN dir'
                        /\ dir'[Path(k, i - 1, "final")].rows = shards'[i]
                        /\ dir'[Path(k, i - 1, "final")].synced = Len(shards'[i])
      BY <1>6 DEF SealedHold, Exists
    <3>1. CASE i \in 1..n
      BY <1>3, <1>6, <3>1
    <3>2. CASE i = n + 1
      <4>1. i - 1 = n /\ shards'[i] = digest
        BY <1>2, <1>6, <3>2
      <4>2. Path(k, n, "final") \in {tokens, to}
        BY DEF Kinds
      <4>3. dir'[to] = dir[from] /\ dir'[tokens] = dir[tokens] /\ tokens \in DOMAIN dir'
        <5> HIDE DEF from, to, tokens
        <5> QED BY <1>2, <2>1, <2>2, <2>3
      <4>4. dir[from].rows = digest /\ dir[from].synced = Len(digest)
            /\ dir[tokens].rows = digest /\ dir[tokens].synced = Len(digest)
        BY <1>3, <2>1
      <4> QED BY <1>2, <4>1, <4>2, <4>3, <4>4
    <3> QED BY <1>2, <3>1, <3>2
  <2> QED BY <1>8, <2>1, <2>5, <2>6 DEF Directory, Working, Publishing
<1>14. Temporaries'
  BY <1>1, <1>8 DEF IInv, Temporaries
<1> QED BY <1>2, <1>8, <1>9, <1>10, <1>11, <1>12, <1>13, <1>14 DEF IInv
\* A document is appended where the stream ends.
LEMMA AddDocumentStep == ASSUME IInv, AddDocument PROVE IInv'
<1> DEFINE start == DocEnd[fed]
           size == DocEnd[fed + 1] - start
           span == [k \in 1..size |-> start + k - 1]
<1>1. /\ pc = "idle" /\ pc' = "drain" /\ fed < NumDocs /\ fed' = fed + 1
      /\ buf' = buf \o span /\ content' = content + size - 1 /\ documents' = documents + 1
      /\ UNCHANGED <<at, finishing, rows, masked, shards, digest,
                     opened, dirty, cursor, dir, journal, manifest, temps, faults>>
  BY DEF AddDocument, Goto, disk
<1>2. manifest = None /\ journal # None
  BY <1>1, AtWork DEF Working
<1>3. /\ fed \in 0..NumDocs /\ NumDocs \in Nat /\ buf \in Seq(Nat) /\ documents \in Nat /\ content \in Nat
      /\ rows \in Nat
  BY Dimensions DEF IInv, TypeOK
<1>4. fed + 1 \in 0..NumDocs /\ start \in Nat /\ DocEnd[fed + 1] \in Nat /\ start + 2 <= DocEnd[fed + 1]
  <2>1. fed + 1 \in 0..NumDocs /\ fed < fed + 1
    BY <1>1, <1>3
  <2> QED BY <1>3, <2>1, Dimensions
<1>5. size \in Nat /\ size >= 2 /\ start + size = DocEnd[fed + 1]
  BY <1>4
<1> HIDE DEF start, size
<1>6. span \in Seq(Nat) /\ Len(span) = size /\ \A k \in 1..size : span[k] = start + k - 1
  <2>1. \A k \in 1..size : start + k - 1 \in Nat
    BY <1>4, <1>5
  <2> QED BY <1>5, <2>1
<1> HIDE DEF span
<1>7. /\ buf' \in Seq(Nat) /\ Len(buf') = Len(buf) + size
      /\ \A k \in 1..Len(buf) + size : buf'[k] = IF k <= Len(buf) THEN buf[k] ELSE span[k - Len(buf)]
  BY <1>1, <1>3, <1>6, ConcatProperties
<1>8. Rested(JournalPayload) /\ at = "tokens" /\ (opened <=> digest # <<>>) /\ (dirty => opened)
      /\ (finishing => fed = NumDocs)
  BY <1>1 DEF IInv, Memory, Working, Publishing
<1>9. Streamed /\ Len(digest) < RowsPerShard
  BY <1>8, PayloadStreamed DEF IInv
<1>10. TypeOK' /\ \A p \in DOMAIN dir' : Placed(p, dir'[p])
  BY <1>1, <1>3, <1>4, <1>5, <1>7 DEF IInv, TypeOK, Labels
<1>11. Streamed'
  <2>1. /\ documents' = fed' /\ documents' = fed + 1 /\ content' + documents' = DocEnd[documents']
    BY <1>1, <1>3, <1>5, <1>9 DEF Streamed, start
  <2>2. rows * SeqLen + Len(buf) = start
    BY <1>9 DEF Streamed, start
  <2>3. rows * SeqLen \in Nat /\ Len(buf) \in Nat
    BY <1>3, Dimensions
  <2>4. rows * SeqLen + Len(buf') = DocEnd[documents']
    BY <1>5, <1>7, <2>1, <2>2, <2>3
  <2>5. ASSUME NEW k \in 1..Len(buf') PROVE buf'[k] = rows * SeqLen + k - 1
    <3>1. CASE k <= Len(buf)
      <4>1. buf'[k] = buf[k] /\ k \in 1..Len(buf)
        BY <1>5, <1>7, <2>3, <2>5, <3>1
      <4> QED BY <1>9, <4>1 DEF Streamed
    <3>2. CASE ~(k <= Len(buf))
      <4>1. k - Len(buf) \in 1..size /\ buf'[k] = span[k - Len(buf)]
        BY <1>5, <1>7, <2>3, <2>5, <3>2
      <4>2. buf'[k] = start + (k - Len(buf)) - 1
        BY <1>6, <4>1
      <4> QED BY <2>2, <2>3, <2>5, <4>2, <1>7, <1>5
    <3> QED BY <3>1, <3>2
  <2>6. buf' = [k \in 1..Len(buf') |-> rows * SeqLen + k - 1]
    <3>1. buf' = [k \in 1..Len(buf') |-> buf'[k]]
      BY <1>7
    <3> QED BY <2>5, <3>1
  <2>7. buf' # <<>>
    <3>1. Len(buf') > 0
      BY <1>5, <1>7, <2>3
    <3> QED BY <3>1
  <2> QED BY <1>1, <1>9, <2>1, <2>4, <2>6, <2>7 DEF Streamed
<1>12. Stream(JournalPayload)'
  <2>1. fed' \in 0..NumDocs
    BY <1>10 DEF TypeOK
  <2> QED BY <1>11, <2>1 DEF Stream, JournalPayload, Streamed
<1>13. Published' 
  BY <1>1, <1>2 DEF Published
<1>14. Journaled'
  <2>1. documents' >= documents
    BY <1>1, <1>3
  <2>2. journal.documents \in Nat
    BY <1>2 DEF IInv, TypeOK, Journals
  <2> QED BY <1>1, <1>2, <1>3, <2>1, <2>2 DEF IInv, Journaled, Working
<1>15. Memory'
  <2>1. ~finishing
    BY <1>1, <1>3, <1>8
  <2> QED BY <1>1, <1>8, <1>9, <1>12, <2>1 DEF Memory, Working, Publishing
<1>16. Directory'
  <2>1. OpenFiles' = OpenFiles
    BY <1>1, <1>8 DEF OpenFiles, Part
  <2> QED BY <1>1, <2>1 DEF IInv, Directory, Working, Publishing, Sealed, SealedHold, Exists
<1>17. Temporaries'
  BY <1>1 DEF IInv, Temporaries
<1> QED BY <1>1, <1>10, <1>13, <1>14, <1>15, <1>16, <1>17 DEF IInv

\* The parts of a shard are new files: the names are free.
LEMMA CreatePartsStep == ASSUME IInv, CreateParts PROVE IInv'
<1> DEFINE n == Len(shards)
           new == Path(at, n, "part")
           empty == [rows |-> <<>>, synced |-> 0]
<1>1. /\ pc = "drain" /\ RowReady /\ ~opened
      /\ UNCHANGED <<finishing, fed, buf, documents, content, rows, masked, shards, cursor,
                     journal, manifest, temps, faults>>
  BY DEF CreateParts
<1>2. manifest = None /\ pc \in Working /\ journal # None /\ journal \in Journals
  BY <1>1, AtWork DEF Working, IInv, TypeOK
<1>3. n \in Nat /\ at \in Kinds /\ digest \in Seq(Seq(Nat)) /\ shards \in Seq(Seq(Seq(Nat)))
  BY DEF IInv, TypeOK
<1>4. /\ Stream(JournalPayload) /\ Len(digest) < RowsPerShard /\ ~finishing
      /\ (digest # <<>> => opened) /\ ~dirty
  BY <1>1 DEF IInv, Memory, Working
<1>5. digest = <<>> /\ Len(digest) = 0
  BY <1>1, <1>4
<1>6. /\ DOMAIN dir = Sealed \cup OpenFiles /\ SealedHold
      /\ OpenFiles = (IF at = "tokens" THEN {} ELSE {Path("tokens", n, "part")})
      /\ \A p \in OpenFiles : dir[p].rows = digest /\ dir[p].synced = Len(digest)
  BY <1>1, <1>2, <1>3, <1>4 DEF IInv, Directory, Working, OpenFiles, Part, Kinds
<1>7. new \notin DOMAIN dir
  <2>1. new \notin Sealed
    BY DEF Sealed, Path
  <2>2. new \notin OpenFiles
    BY <1>6, Paths
  <2> QED BY <1>6, <2>1, <2>2
<1>8. /\ dir' = Put(dir, new, empty) /\ at' = (IF at = "tokens" THEN "starts" ELSE "tokens")
      /\ opened' = (at = "starts") /\ digest' = <<>> /\ dirty' = FALSE /\ pc' = "drain"
  BY <1>1, <1>7 DEF CreateParts, Part, Exists
<1>9. /\ DOMAIN dir' = DOMAIN dir \cup {new} /\ dir'[new] = empty
      /\ \A p \in DOMAIN dir : dir'[p] = dir[p]
  <2> HIDE DEF new, empty
  <2> QED BY <1>7, <1>8 DEF Put
<1>10. empty \in Files /\ empty.rows = <<>> /\ empty.synced = 0 /\ Len(empty.rows) = 0
  BY DEF Files
<1> HIDE DEF empty
<1>11. ASSUME NEW p \in DOMAIN dir' PROVE Placed(p, dir'[p])
  <2>1. CASE p = new
    <3>1. p[2] = n
      BY <2>1 DEF Path
    <3>2. Ref(n, 0) = <<>>
      BY <1>3, RefFacts
    <3>3. dir'[p] = empty
      BY <1>9, <2>1
    <3> QED BY <1>10, <3>1, <3>2, <3>3, Dimensions DEF Placed
  <2>2. CASE p # new
    BY <1>9, <1>11, <2>2 DEF IInv
  <2> QED BY <2>1, <2>2
<1>12. TypeOK'
  <2>1. new \in Kinds \X Nat \X {"part", "final"}
    BY <1>3 DEF Path
  <2>2. DOMAIN dir' \subseteq Kinds \X Nat \X {"part", "final"}
    BY <1>9, <2>1 DEF IInv, TypeOK
  <2>3. at' \in Kinds /\ digest' \in Seq(Seq(Nat)) /\ pc' \in Labels
    BY <1>8 DEF Kinds, Labels
  <2>5. opened' \in BOOLEAN /\ dirty' \in BOOLEAN
    BY <1>8, Zenon
  <2> QED BY <1>1, <2>2, <2>3, <2>5 DEF IInv, TypeOK
<1>13. Published'
  BY <1>1, <1>2, <1>8 DEF Published
<1>14. Journaled'
  <2>1. /\ Rested(journal) /\ Backed(dir, journal) /\ journal.documents <= documents
        /\ Len(journal.shards) <= n /\ (Len(journal.shards) = n => Len(journal.open) <= Len(digest))
        /\ Len(journal.shards) \in Nat /\ Len(journal.open) \in Nat /\ journal.open \in Seq(Seq(Nat))
    BY <1>2 DEF IInv, Journaled, Journals
  <2>2. Len(journal.shards) = n => journal.open = <<>>
    BY <1>5, <2>1
  <2>3. Backed(dir', journal)
    <3>1. ASSUME NEW k \in Kinds, NEW i \in 0..Len(journal.shards) - 1
          PROVE  /\ Path(k, i, "final") \in DOMAIN dir' /\ Path(k, i, "part") \notin DOMAIN dir'
                 /\ dir'[Path(k, i, "final")].synced = RowsPerShard
      <4>1. i # n
        BY <1>3, <2>1
      <4>2. Path(k, i, "part") # new
        BY <4>1, Paths
      <4>3. /\ Path(k, i, "final") \in DOMAIN dir /\ Path(k, i, "part") \notin DOMAIN dir
            /\ dir[Path(k, i, "final")].synced = RowsPerShard
        BY <2>1 DEF Backed
      <4> QED BY <1>9, <4>2, <4>3
    <3>2. ASSUME journal.open # <<>>, NEW k \in Kinds
          PROVE  \E place, other \in {"part", "final"} :
             /\ place # other
             /\ Path(k, Len(journal.shards), place) \in DOMAIN dir'
             /\ Path(k, Len(journal.shards), other) \notin DOMAIN dir'
             /\ dir'[Path(k, Len(journal.shards), place)].synced >= Len(journal.open)
      <4> DEFINE m == Len(journal.shards)
      <4>1. PICK place \in {"part", "final"}, other \in {"part", "final"} :
             /\ place # other
             /\ Path(k, m, place) \in DOMAIN dir /\ Path(k, m, other) \notin DOMAIN dir
             /\ dir[Path(k, m, place)].synced >= Len(journal.open)
        BY <2>1, <3>2 DEF Backed
      <4>2. Path(k, m, other) # new
        BY <2>2, <3>2, Paths
      <4>3. Path(k, m, place) \in DOMAIN dir' /\ Path(k, m, other) \notin DOMAIN dir'
            /\ dir'[Path(k, m, place)] = dir[Path(k, m, place)]
        BY <1>9, <4>1, <4>2
      <4> QED BY <4>1, <4>3
    <3> QED BY <3>1, <3>2 DEF Backed
  <2>4. journal.open = <<>> => Len(journal.open) = 0
    BY <2>1
  <2> QED BY <1>1, <1>2, <1>5, <1>8, <2>1, <2>2, <2>3, <2>4 DEF Journaled, Working
<1>15. Memory'
  <2>1. Stream(JournalPayload)'
    <3>1. JournalPayload' = JournalPayload
      BY <1>1, <1>5, <1>8 DEF JournalPayload
    <3> QED BY <1>4, <3>1
  <2>2. RowReady' /\ Len(digest') < RowsPerShard
    BY <1>1, <1>4, <1>5, <1>8 DEF RowReady
  <2> QED BY <1>1, <1>3, <1>4, <1>8, <2>1, <2>2 DEF Memory, Working, Publishing, Kinds
<1>16. Directory'
  <2>1. OpenFiles' = OpenFiles \cup {new} /\ Sealed' = Sealed
    <3>1. Sealed' = Sealed
      BY <1>1 DEF Sealed
    <3>2. CASE at = "tokens"
      <4>1. pc' = "drain" /\ at' = "starts" /\ ~opened'
        BY <1>8, <3>2
      <4>2. OpenFiles' = {Path("tokens", n, "part")}
        BY <1>1, <4>1 DEF OpenFiles, Part
      <4> QED BY <1>6, <3>1, <3>2, <4>2
    <3>3. CASE at = "starts"
      <4>1. pc' = "drain" /\ at' = "tokens" /\ opened'
        BY <1>8, <3>3
      <4>2. OpenFiles' = {Path("tokens", n, "part"), Path("starts", n, "part")}
        BY <1>1, <4>1 DEF OpenFiles, Part
      <4> QED BY <1>6, <3>1, <3>3, <4>2
    <3> QED BY <1>3, <3>2, <3>3 DEF Kinds
  <2>2. DOMAIN dir' = Sealed' \cup OpenFiles'
    BY <1>6, <1>9, <2>1
  <2>3. SealedHold'
    <3> SUFFICES ASSUME NEW k \in Kinds, NEW i \in 1..Len(shards)
                 PROVE  /\ Path(k, i - 1, "final") \in DOMAIN dir'
                        /\ dir'[Path(k, i - 1, "final")].rows = shards[i]
                        /\ dir'[Path(k, i - 1, "final")].synced = Len(shards[i])
      BY <1>1 DEF SealedHold, Exists
    <3> QED BY <1>6, <1>9 DEF SealedHold, Exists
  <2>4. \A p \in OpenFiles' : dir'[p].rows = digest' /\ dir'[p].synced = Len(digest')
    <3>1. \A p \in OpenFiles : p \in DOMAIN dir
      BY <1>6
    <3> QED BY <1>5, <1>6, <1>8, <1>9, <1>10, <2>1, <3>1
  <2> QED BY <1>8, <2>2, <2>3, <2>4 DEF Directory, Working, Publishing
<1>17. Temporaries'
  BY <1>1, <1>8 DEF IInv, Temporaries
<1> QED BY <1>8, <1>11, <1>12, <1>13, <1>14, <1>15, <1>16, <1>17 DEF IInv
\* A position of a row, from its place in the batch and back.
LEMMA PositionFacts ==
    ASSUME NEW s \in Nat, s > 0, NEW batch \in Nat, NEW x \in Nat, x < batch * s
    PROVE  /\ x \div s \in 0..batch - 1 /\ x % s \in 0..s - 1
           /\ x = (x \div s) * s + (x % s)
<1>1. x \div s \in Nat /\ x % s \in 0..s - 1 /\ x = (x \div s) * s + (x % s)
  OBVIOUS
<1>2. x \div s < batch
  <2> DEFINE q == x \div s
             m == x % s
  <2>1. q \in Nat /\ m \in 0..s - 1 /\ x = q * s + m
    BY <1>1
  <2> HIDE DEF q, m
  <2>2. SUFFICES ASSUME q >= batch PROVE FALSE
    BY <2>1 DEF q
  <2>3. PICK e \in Nat : q = batch + e
    <3>1. q - batch \in Nat /\ q = batch + (q - batch)
      BY <2>1, <2>2
    <3> QED BY <3>1
  <2>4. q * s = batch * s + e * s
    BY <2>3
  <2>5. e * s \in Nat /\ batch * s \in Nat /\ q * s \in Nat
    BY <2>1, <2>3
  <2> QED BY <2>1, <2>4, <2>5
<1> QED BY <1>1, <1>2

\* Row and column are unique.
LEMMA PositionUnique ==
    ASSUME NEW s \in Nat, s > 0, NEW q \in Nat, NEW m \in 0..s - 1
    PROVE  (q * s + m) \div s = q /\ (q * s + m) % s = m
  OBVIOUS

\* Document ends are distinct.
LEMMA DocEndInjective ==
    ASSUME NEW d \in 0..NumDocs, NEW e \in 0..NumDocs, DocEnd[d] = DocEnd[e]
    PROVE  d = e
<1>1. DocEnd[d] \in Nat /\ DocEnd[e] \in Nat /\ NumDocs \in Nat
  BY Dimensions
<1>2. ~(d < e) /\ ~(e < d)
  BY <1>1, Dimensions
<1> QED BY <1>1, <1>2

\* The document starts a batch masks are the boundaries it adds: a label is
\* a position of one row, and rows share only the position they do not label.
LEMMA BoundariesGrow ==
    ASSUME NEW r \in Nat, NEW batch \in Nat
    PROVE  Cardinality(Boundaries(r + batch)) =
             Cardinality(Boundaries(r))
               + Cardinality({w \in (1..batch) \X (2..SeqLen + 1) :
                                (r + w[1] - 1) * SeqLen + w[2] - 1 \in DocStarts})
<1> DEFINE low == r * SeqLen
           size == batch * SeqLen
           labels == {w \in (1..batch) \X (2..SeqLen + 1) :
                        (r + w[1] - 1) * SeqLen + w[2] - 1 \in DocStarts}
           all == 1..NumDocs - 1
           new == {d \in all : low < DocEnd[d] /\ DocEnd[d] <= low + size}
           offset(d) == DocEnd[d] - 1 - low
           g == [d \in new |-> <<offset(d) \div SeqLen + 1, (offset(d) % SeqLen) + 2>>]
<1>1. /\ SeqLen \in Nat /\ SeqLen > 0 /\ low \in Nat /\ size \in Nat /\ (r + batch) * SeqLen = low + size
      /\ NumDocs \in Nat /\ \A d \in all : d \in 0..NumDocs /\ DocEnd[d] \in Nat
  <2>1. SeqLen \in Nat /\ SeqLen > 0 /\ NumDocs \in Nat
    BY Dimensions
  <2>2. \A d \in all : d \in 0..NumDocs
    BY <2>1
  <2>3. \A d \in all : DocEnd[d] \in Nat
    BY <2>2, Dimensions
  <2>4. low \in Nat /\ size \in Nat /\ (r + batch) * SeqLen = low + size
    BY <2>1
  <2> QED BY <2>1, <2>2, <2>3, <2>4
<1>2. /\ Boundaries(r) = {d \in all : DocEnd[d] <= low}
      /\ Boundaries(r + batch) = {d \in all : DocEnd[d] <= low + size}
  BY <1>1 DEF Boundaries
<1>3. ASSUME NEW a \in Nat, NEW b \in 1..SeqLen
      PROVE  (r + a) * SeqLen + b = low + (a * SeqLen + b)
  BY <1>1
<1>4. ASSUME NEW d \in new
      PROVE  /\ offset(d) \in Nat /\ offset(d) < size /\ DocEnd[d] = low + offset(d) + 1
             /\ offset(d) \div SeqLen \in 0..batch - 1 /\ offset(d) % SeqLen \in 0..SeqLen - 1
             /\ offset(d) = (offset(d) \div SeqLen) * SeqLen + (offset(d) % SeqLen)
  <2>1. offset(d) \in Nat /\ offset(d) < size /\ DocEnd[d] = low + offset(d) + 1
    <3>1. DocEnd[d] \in Nat /\ low < DocEnd[d] /\ DocEnd[d] <= low + size
      BY <1>1
    <3> HIDE DEF low, size
    <3> QED BY <1>1, <3>1
  <2> HIDE DEF offset
  <2> QED BY <1>1, <2>1, PositionFacts
<1> HIDE DEF low, offset
<1>5. g \in [new -> labels]
  <2> SUFFICES ASSUME NEW d \in new
               PROVE  <<offset(d) \div SeqLen + 1, (offset(d) % SeqLen) + 2>> \in labels
    OBVIOUS
  <2> DEFINE q == offset(d) \div SeqLen
             m == offset(d) % SeqLen
             w == <<q + 1, m + 2>>
  <2>1. q \in 0..batch - 1 /\ m \in 0..SeqLen - 1 /\ offset(d) = q * SeqLen + m
        /\ DocEnd[d] = low + offset(d) + 1
    BY <1>4
  <2> HIDE DEF q, m
  <2>2. w \in (1..batch) \X (2..SeqLen + 1) /\ w[1] = q + 1 /\ w[2] = m + 2
    BY <1>1, <2>1
  <2>3. (r + w[1] - 1) * SeqLen + w[2] - 1 = (r + q) * SeqLen + (m + 1)
    <3>1. r + w[1] - 1 = r + q /\ r + q \in Nat
      BY <2>1, <2>2
    <3>2. (r + q) * SeqLen \in Nat
      BY <1>1, <3>1
    <3> QED BY <2>1, <2>2, <3>1, <3>2, <1>1
  <2>4. (r + q) * SeqLen + (m + 1) = low + (q * SeqLen + (m + 1))
    <3>1. q \in Nat /\ m + 1 \in 1..SeqLen
      BY <1>1, <2>1
    <3> QED BY <1>3, <3>1
  <2>5. low + (q * SeqLen + (m + 1)) = DocEnd[d]
    <3>1. q * SeqLen \in Nat
      BY <1>1, <2>1
    <3> QED BY <1>1, <2>1, <3>1
  <2>6. DocEnd[d] \in DocStarts
    <3>1. d \in 0..NumDocs - 1
      BY <1>1
    <3> QED BY <3>1 DEF DocStarts
  <2>7. w \in labels
    BY <2>2, <2>3, <2>4, <2>5, <2>6
  <2> QED BY <2>7 DEF q, m
<1>6. ASSUME NEW d \in new, NEW e \in new, g[d] = g[e] PROVE d = e
  <2>1. /\ offset(d) \div SeqLen + 1 = offset(e) \div SeqLen + 1
        /\ (offset(d) % SeqLen) + 2 = (offset(e) % SeqLen) + 2
    BY <1>6
  <2>2. offset(d) \div SeqLen = offset(e) \div SeqLen /\ offset(d) % SeqLen = offset(e) % SeqLen
    BY <1>4, <2>1
  <2>3. offset(d) = offset(e)
    BY <1>4, <2>2
  <2>4. DocEnd[d] = DocEnd[e]
    BY <1>4, <2>3
  <2> QED BY <1>1, <2>4, DocEndInjective
<1>7. ASSUME NEW w \in labels PROVE \E d \in new : g[d] = w
  <2> DEFINE q == w[1] - 1
             m == w[2] - 2
  <2>1. /\ w[1] \in 1..batch /\ w[2] \in 2..SeqLen + 1 /\ w = <<w[1], w[2]>>
        /\ (r + w[1] - 1) * SeqLen + w[2] - 1 \in DocStarts
    OBVIOUS
  <2>2. q \in 0..batch - 1 /\ q \in Nat /\ m \in 0..SeqLen - 1 /\ w[1] = q + 1 /\ w[2] = m + 2
        /\ m + 1 \in 1..SeqLen
    BY <1>1, <2>1
  <2> HIDE DEF q, m
  <2>3. (r + w[1] - 1) * SeqLen + w[2] - 1 = (r + q) * SeqLen + (m + 1)
    <3>1. r + w[1] - 1 = r + q /\ r + q \in Nat
      BY <2>1, <2>2
    <3>2. (r + q) * SeqLen \in Nat
      BY <1>1, <3>1
    <3> QED BY <2>1, <2>2, <3>1, <3>2, <1>1
  <2>4. (r + q) * SeqLen + (m + 1) = low + (q * SeqLen + (m + 1))
    BY <1>3, <2>2
  <2>5. PICK d \in 0..NumDocs - 1 : DocEnd[d] = low + (q * SeqLen + (m + 1))
    BY <2>1, <2>3, <2>4 DEF DocStarts
  <2>6. q * SeqLen \in Nat /\ q * SeqLen + m < size
    <3>1. PICK e \in Nat : batch = q + 1 + e
      <4>1. batch - (q + 1) \in Nat /\ batch = q + 1 + (batch - (q + 1))
        BY <2>2
      <4> QED BY <4>1
    <3>2. size = q * SeqLen + SeqLen + e * SeqLen
      BY <1>1, <2>2, <3>1
    <3>3. q * SeqLen \in Nat /\ e * SeqLen \in Nat
      BY <1>1, <2>2, <3>1
    <3> HIDE DEF size
    <3> QED BY <1>1, <2>2, <3>2, <3>3
  <2>7. d \in all
    <3>1. DocEnd[d] > 0
      BY <1>1, <2>2, <2>5, <2>6
    <3>2. d # 0
      BY <3>1, Dimensions
    <3> QED BY <1>1, <3>2
  <2>8. d \in new
    <3>1. low < DocEnd[d] /\ DocEnd[d] <= low + size
      <4> HIDE DEF size
      <4> QED BY <1>1, <2>2, <2>5, <2>6
    <3> QED BY <2>7, <3>1
  <2>9. offset(d) = q * SeqLen + m
    BY <1>1, <2>2, <2>5, <2>6 DEF offset
  <2>10. offset(d) \div SeqLen = q /\ offset(d) % SeqLen = m
    BY <1>1, <2>2, <2>9, PositionUnique
  <2>11. g[d] = <<q + 1, m + 2>>
    BY <2>8, <2>10
  <2> QED BY <2>1, <2>2, <2>8, <2>11
<1>8. ExistsBijection(new, labels)
  <2>1. g \in Bijection(new, labels)
    <3> HIDE DEF g, new, labels
    <3> QED BY <1>5, <1>6, <1>7 DEF Bijection, Injection, Surjection, IsInjective
  <2> QED BY <2>1 DEF ExistsBijection
<1>9. IsFiniteSet(all)
  BY <1>1, FS_Interval
<1>10. IsFiniteSet(new) /\ IsFiniteSet(Boundaries(r))
  <2>1. new \in SUBSET all /\ Boundaries(r) \in SUBSET all
    BY <1>2
  <2> HIDE DEF all, new
  <2> QED BY <1>9, <2>1, FS_Subset
<1>11. Cardinality(labels) = Cardinality(new)
  <2> HIDE DEF labels, new
  <2> QED BY <1>8, <1>10, FS_Bijection
<1>12. Boundaries(r + batch) = Boundaries(r) \cup new /\ Boundaries(r) \cap new = {}
  <2> HIDE DEF size, all
  <2>1. \A d \in all : DocEnd[d] <= low + size <=> DocEnd[d] <= low \/ (low < DocEnd[d] /\ DocEnd[d] <= low + size)
    BY <1>1
  <2>2. \A d \in all : ~(DocEnd[d] <= low /\ low < DocEnd[d])
    BY <1>1
  <2> QED BY <1>2, <2>1, <2>2
<1>13. Cardinality(Boundaries(r) \cup new) = Cardinality(Boundaries(r)) + Cardinality(new) - Cardinality({})
  <2> HIDE DEF new
  <2> QED BY <1>10, <1>12, FS_Union
<1>14. Cardinality(Boundaries(r)) \in Nat /\ Cardinality(new) \in Nat /\ Cardinality({}) = 0
  <2> HIDE DEF new
  <2> QED BY <1>10, FS_CardinalityType, FS_EmptySet
<1> HIDE DEF new, labels, all, size, g
<1>15. Cardinality(Boundaries(r + batch)) = Cardinality(Boundaries(r)) + Cardinality(labels)
  <2>1. Cardinality(Boundaries(r + batch)) = Cardinality(Boundaries(r) \cup new)
    BY <1>12
  <2>2. Cardinality(Boundaries(r) \cup new) = Cardinality(Boundaries(r)) + Cardinality(new)
    BY <1>13, <1>14
  <2> QED BY <1>11, <2>1, <2>2
<1> QED BY <1>15 DEF labels
\* A window over the buffer is the next row of the reference.
LEMMA WindowIsRow ==
    ASSUME TypeOK, Streamed, NEW batch \in Nat, batch * SeqLen + 1 <= Len(buf), NEW r \in 1..batch
    PROVE  Window(r) = Promise!Row(rows + r - 1)
<1> DEFINE first == (r - 1) * SeqLen
           last == r * SeqLen
           row == rows + r - 1
<1>1. rows \in Nat /\ buf \in Seq(Nat) /\ Len(buf) \in Nat /\ SeqLen \in Nat /\ SeqLen >= 2
  BY Dimensions DEF TypeOK
<1>2. first \in Nat /\ last = first + SeqLen /\ row \in Nat
  <2>1. r - 1 \in Nat
    OBVIOUS
  <2>2. first \in Nat
    BY <1>1, <2>1
  <2>3. last = first + SeqLen
    BY <1>1
  <2> QED BY <1>1, <2>2, <2>3
<1>3. last + 1 <= Len(buf)
  <2>1. PICK e \in Nat : batch = r + e
    <3>1. batch - r \in Nat /\ batch = r + (batch - r)
      OBVIOUS
    <3> QED BY <3>1
  <2>2. batch * SeqLen = last + e * SeqLen /\ e * SeqLen \in Nat /\ last \in Nat
    BY <1>1, <2>1
  <2> HIDE DEF last
  <2> QED BY <1>1, <2>2
<1>4. row * SeqLen = rows * SeqLen + first /\ rows * SeqLen \in Nat /\ row * SeqLen \in Nat
  <2>1. row = rows + (r - 1)
    BY <1>1
  <2> HIDE DEF row
  <2> QED BY <1>1, <2>1
<1> HIDE DEF first, last, row
<1>5. Window(r) = SubSeq(buf, first + 1, last + 1)
  BY DEF Window, first, last
<1>6. \A i \in first + 1..last + 1 : buf[i] \in Nat
  BY <1>1, <1>2, <1>3
<1>7. /\ Window(r) \in Seq(Nat) /\ Len(Window(r)) = SeqLen + 1
      /\ \A k \in 1..SeqLen + 1 : Window(r)[k] = buf[first + 1 + k - 1]
  <2>1. first + 1 \in Int /\ last + 1 \in Int
    BY <1>1, <1>2
  <2>2. /\ SubSeq(buf, first + 1, last + 1) \in Seq(Nat)
        /\ Len(SubSeq(buf, first + 1, last + 1)) =
              IF first + 1 <= last + 1 THEN (last + 1) - (first + 1) + 1 ELSE 0
        /\ \A k \in 1..(last + 1) - (first + 1) + 1 :
              SubSeq(buf, first + 1, last + 1)[k] = buf[(first + 1) + k - 1]
    BY <1>6, <2>1, SubSeqProperties
  <2>3. (last + 1) - (first + 1) + 1 = SeqLen + 1 /\ first + 1 <= last + 1
    BY <1>1, <1>2
  <2> QED BY <1>5, <2>2, <2>3
<1>8. ASSUME NEW k \in 1..SeqLen + 1 PROVE Window(r)[k] = row * SeqLen + k - 1
  <2>1. first + 1 + k - 1 = first + k /\ first + k \in 1..Len(buf)
    BY <1>1, <1>2, <1>3
  <2>2. buf[first + k] = rows * SeqLen + (first + k) - 1
    BY <2>1 DEF Streamed
  <2>3. rows * SeqLen + (first + k) - 1 = row * SeqLen + k - 1
    BY <1>1, <1>2, <1>4
  <2> QED BY <1>7, <2>1, <2>2, <2>3
<1>9. Window(r) = [k \in 1..SeqLen + 1 |-> Window(r)[k]]
  BY <1>1, <1>7
<1>10. Window(r) = [k \in 1..SeqLen + 1 |-> row * SeqLen + k - 1]
  BY <1>8, <1>9
<1>11. Promise!Row(row) = [k \in 1..SeqLen + 1 |-> row * SeqLen + k - 1]
  BY <1>2, RowFacts
<1> QED BY <1>10, <1>11 DEF row

\* A batch of rows is what the reference has at their place, and what it
\* leaves of the buffer starts at the next row.
LEMMA BatchFacts ==
    ASSUME IInv, pc = "drain", RowReady, opened,
           NEW batch \in Nat, batch * SeqLen + 1 <= Len(buf), batch + Len(digest) <= RowsPerShard
    PROVE  LET new == [r \in 1..batch |-> Window(r)]
               rest == SubSeq(buf, batch * SeqLen + 1, Len(buf))
           IN  /\ digest \o new = Ref(Len(shards), Len(digest) + batch)
               /\ Cardinality({w \in (1..batch) \X (2..SeqLen + 1) : new[w[1]][w[2]] \in DocStarts})
                    = Cardinality({w \in (1..batch) \X (2..SeqLen + 1) :
                                     (rows + w[1] - 1) * SeqLen + w[2] - 1 \in DocStarts})
               /\ rest \in Seq(Nat) /\ rest # <<>>
               /\ (rows + batch) * SeqLen + Len(rest) = rows * SeqLen + Len(buf)
               /\ rest = [k \in 1..Len(rest) |-> (rows + batch) * SeqLen + k - 1]
<1> DEFINE new == [r \in 1..batch |-> Window(r)]
           cut == batch * SeqLen
           rest == SubSeq(buf, cut + 1, Len(buf))
           n == Len(shards)
           a == Len(digest)
<1>1. TypeOK /\ Streamed
  BY PayloadStreamed DEF IInv, Memory, Working
<1>2. /\ rows \in Nat /\ n \in Nat /\ a \in Nat /\ Len(buf) \in Nat /\ buf \in Seq(Nat)
      /\ SeqLen \in Nat /\ SeqLen >= 2 /\ RowsPerShard \in Nat
  BY <1>1, Dimensions DEF TypeOK
<1>3. /\ digest = Ref(n, a) /\ rows = n * RowsPerShard + a
      /\ \A k \in 1..Len(buf) : buf[k] = rows * SeqLen + k - 1
  BY <1>1 DEF Streamed
<1>4. digest \o new = Ref(n, a + batch)
  <2>1. ASSUME NEW r \in 1..batch PROVE Window(r) = Promise!Row(n * RowsPerShard + a + r - 1)
    <3>1. Window(r) = Promise!Row(rows + r - 1)
      BY <1>1, WindowIsRow
    <3> QED BY <1>3, <3>1
  <2>2. new = [r \in 1..batch |-> Promise!Row(n * RowsPerShard + a + r - 1)]
    BY <2>1
  <2>3. Ref(n, a) \o [r \in 1..batch |-> Promise!Row(n * RowsPerShard + a + r - 1)] = Ref(n, a + batch)
    <3> HIDE DEF n, a
    <3> QED BY <1>2, RefAppend, ZenonT(40)
  <2> QED BY <1>3, <2>2, <2>3
<1>5. ASSUME NEW w \in (1..batch) \X (2..SeqLen + 1)
      PROVE  new[w[1]][w[2]] = (rows + w[1] - 1) * SeqLen + w[2] - 1
  <2>1. w[1] \in 1..batch /\ w[2] \in 1..SeqLen + 1
    BY <1>2
  <2>2. new[w[1]] = Promise!Row(rows + w[1] - 1) /\ rows + w[1] - 1 \in Nat
    BY <1>1, <1>2, <2>1, WindowIsRow, SMTT(40)
  <2>3. new[w[1]] = [k \in 1..SeqLen + 1 |-> (rows + w[1] - 1) * SeqLen + k - 1]
    <3> DEFINE i == rows + w[1] - 1
    <3> HIDE DEF i
    <3>1. Promise!Row(i) = [k \in 1..SeqLen + 1 |-> i * SeqLen + k - 1]
      BY <2>2, RowFacts DEF i
    <3> QED BY <2>2, <3>1 DEF i
  <2> HIDE DEF new
  <2> QED BY <2>1, <2>3
<1>6. {w \in (1..batch) \X (2..SeqLen + 1) : new[w[1]][w[2]] \in DocStarts}
        = {w \in (1..batch) \X (2..SeqLen + 1) : (rows + w[1] - 1) * SeqLen + w[2] - 1 \in DocStarts}
  <2> HIDE DEF new
  <2> QED BY <1>5
<1>7. cut \in Nat /\ cut + 1 <= Len(buf) /\ (rows + batch) * SeqLen = rows * SeqLen + cut
      /\ rows * SeqLen \in Nat /\ (rows + batch) * SeqLen \in Nat
  BY <1>2
<1> HIDE DEF cut
<1>8. /\ rest \in Seq(Nat) /\ Len(rest) = Len(buf) - cut
      /\ \A k \in 1..Len(buf) - cut : rest[k] = buf[cut + k]
  <2>1. \A i \in cut + 1..Len(buf) : buf[i] \in Nat
    BY <1>2, <1>7
  <2>2. cut + 1 \in Int /\ Len(buf) \in Int
    BY <1>2, <1>7
  <2>3. /\ rest \in Seq(Nat)
        /\ Len(rest) = IF cut + 1 <= Len(buf) THEN Len(buf) - (cut + 1) + 1 ELSE 0
        /\ \A k \in 1..Len(buf) - (cut + 1) + 1 : rest[k] = buf[(cut + 1) + k - 1]
    BY <2>1, <2>2, SubSeqProperties
  <2>4. Len(buf) - (cut + 1) + 1 = Len(buf) - cut
    BY <1>2, <1>7
  <2>5. \A k \in 1..Len(buf) - cut : (cut + 1) + k - 1 = cut + k
    BY <1>7
  <2> HIDE DEF rest
  <2> QED BY <1>7, <2>3, <2>4, <2>5
<1> HIDE DEF rest, new
<1>9. ASSUME NEW k \in 1..Len(rest) PROVE rest[k] = (rows + batch) * SeqLen + k - 1
  <2>1. cut + k \in 1..Len(buf) /\ rest[k] = buf[cut + k]
    BY <1>2, <1>7, <1>8
  <2>2. rest[k] = rows * SeqLen + (cut + k) - 1
    BY <1>3, <2>1
  <2> QED BY <1>7, <2>2
<1>10. rest = [k \in 1..Len(rest) |-> (rows + batch) * SeqLen + k - 1]
  <2>1. rest = [k \in 1..Len(rest) |-> rest[k]]
    BY <1>8
  <2> QED BY <1>9, <2>1
<1>11. rest # <<>> /\ (rows + batch) * SeqLen + Len(rest) = rows * SeqLen + Len(buf)
  <2>1. Len(rest) >= 1
    <3> DEFINE left == Len(rest)
               held == Len(buf)
    <3>1. left = held - cut /\ cut + 1 <= held /\ cut \in Nat /\ held \in Nat
      BY <1>2, <1>7, <1>8
    <3> HIDE DEF left, held
    <3>2. left >= 1
      BY <3>1
    <3> QED BY <3>2 DEF left
  <2>2. rest # <<>>
    BY <2>1
  <2> DEFINE p == rows * SeqLen
             size == Len(buf)
  <2>3. p + cut + (size - cut) = p + size
    BY <1>2, <1>7
  <2>4. (rows + batch) * SeqLen + Len(rest) = p + cut + (size - cut)
    BY <1>7, <1>8
  <2> QED BY <2>2, <2>3, <2>4
<1> QED BY <1>4, <1>6, <1>8, <1>10, <1>11 DEF new, rest, cut

\* How many rows a batch takes: at least one, no more than there are and no
\* more than the shard still holds.
LEMMA BatchSize ==
    ASSUME TypeOK, RowReady, Len(digest) < RowsPerShard
    PROVE  LET available == (Len(buf) - 1) \div SeqLen
               room == RowsPerShard - Len(digest)
               batch == CHOOSE n \in {available, room, DrainRows} :
                          n <= available /\ n <= room /\ n <= DrainRows
           IN  /\ batch \in Nat /\ batch >= 1 /\ batch * SeqLen + 1 <= Len(buf)
               /\ batch + Len(digest) <= RowsPerShard
<1> DEFINE available == (Len(buf) - 1) \div SeqLen
           room == RowsPerShard - Len(digest)
           batch == CHOOSE n \in {available, room, DrainRows} :
                      n <= available /\ n <= room /\ n <= DrainRows
<1>1. /\ Len(buf) \in Nat /\ Len(digest) \in Nat /\ SeqLen \in Nat /\ SeqLen >= 2 /\ Len(buf) >= SeqLen + 1
      /\ RowsPerShard \in Nat /\ DrainRows \in Nat /\ DrainRows > 0
  BY Dimensions DEF TypeOK, RowReady
<1>2. available \in Nat /\ available >= 1 /\ available * SeqLen + 1 <= Len(buf)
  <2> DEFINE x == Len(buf) - 1
             q == x \div SeqLen
             m == x % SeqLen
  <2>1. x \in Nat /\ x >= SeqLen
    BY <1>1
  <2> HIDE DEF x
  <2>2. q \in Nat /\ m \in 0..SeqLen - 1 /\ x = q * SeqLen + m
    BY <1>1, <2>1
  <2>5. available = q
    BY DEF x
  <2> HIDE DEF q, m, available
  <2>3. q \in Nat /\ q * SeqLen <= x
    <3>1. q * SeqLen \in Nat
      BY <1>1, <2>2
    <3> QED BY <1>1, <2>1, <2>2, <3>1
  <2>4. q >= 1
    <3>1. q = 0 => q * SeqLen = 0
      BY <1>1
    <3> QED BY <1>1, <2>1, <2>2, <3>1
  <2>6. q * SeqLen + 1 <= Len(buf)
    <3>1. q * SeqLen \in Nat
      BY <1>1, <2>2
    <3> QED BY <1>1, <2>3, <3>1 DEF x
  <2> QED BY <2>3, <2>4, <2>5, <2>6
<1>3. room \in Nat /\ room >= 1 /\ room + Len(digest) = RowsPerShard
  BY <1>1
<1> HIDE DEF available, room
<1>4. \E n \in {available, room, DrainRows} : n <= available /\ n <= room /\ n <= DrainRows
  <2>1. CASE available <= room /\ available <= DrainRows
    BY <1>2, <2>1
  <2>2. CASE room <= available /\ room <= DrainRows
    BY <1>3, <2>2
  <2>3. CASE DrainRows <= available /\ DrainRows <= room
    BY <1>1, <2>3
  <2> QED BY <1>1, <1>2, <1>3, <2>1, <2>2, <2>3
<1>5. batch \in {available, room, DrainRows} /\ batch <= available /\ batch <= room /\ batch <= DrainRows
  BY <1>4
<1> HIDE DEF batch
<1>6. batch \in Nat /\ batch >= 1 /\ batch + Len(digest) <= RowsPerShard
  BY <1>1, <1>2, <1>3, <1>5
<1>7. batch * SeqLen + 1 <= Len(buf)
  <2>1. PICK e \in Nat : available = batch + e
    <3>1. available - batch \in Nat /\ available = batch + (available - batch)
      BY <1>2, <1>5, <1>6
    <3> QED BY <3>1
  <2>2. available * SeqLen = batch * SeqLen + e * SeqLen
    BY <1>1, <1>6, <2>1
  <2>3. available * SeqLen \in Nat /\ batch * SeqLen \in Nat /\ e * SeqLen \in Nat
    BY <1>1, <1>2, <1>6, <2>1
  <2> QED BY <1>1, <1>2, <2>2, <2>3
<1> QED BY <1>6, <1>7 DEF batch, available, room
\* The rows of a batch go to both parts, the counters and the digest.
LEMMA WriteBatchStep == ASSUME IInv, WriteBatch PROVE IInv'
<1> DEFINE available == (Len(buf) - 1) \div SeqLen
           room == RowsPerShard - Len(digest)
           batch == CHOOSE n \in {available, room, DrainRows} :
                      n <= available /\ n <= room /\ n <= DrainRows
           new == [r \in 1..batch |-> Window(r)]
           labels == {w \in (1..batch) \X (2..SeqLen + 1) : new[w[1]][w[2]] \in DocStarts}
           n == Len(shards)
           size == Len(digest)
           parts == {Part("tokens"), Part("starts")}
<1>1. /\ pc = "drain" /\ RowReady /\ opened
      /\ dir' = [p \in DOMAIN dir |-> IF p \in parts THEN [dir[p] EXCEPT !.rows = @ \o new] ELSE dir[p]]
      /\ digest' = digest \o new /\ rows' = rows + batch
      /\ masked' = masked + Cardinality(labels)
      /\ buf' = SubSeq(buf, batch * SeqLen + 1, Len(buf))
      /\ dirty' = TRUE
      /\ pc' = IF size + batch = RowsPerShard THEN "seal" ELSE "drain"
      /\ UNCHANGED <<at, finishing, fed, documents, content, shards, opened, cursor,
                     journal, manifest, temps, faults>>
  BY DEF WriteBatch, Goto
<1>2. manifest = None /\ pc \in Working /\ journal # None /\ journal \in Journals
  BY <1>1, AtWork DEF Working, IInv, TypeOK
<1>3. /\ n \in Nat /\ size \in Nat /\ digest \in Seq(Seq(Nat)) /\ buf \in Seq(Nat) /\ rows \in Nat
      /\ masked \in Nat /\ TypeOK
  BY DEF IInv, TypeOK
<1>4. /\ Stream(JournalPayload) /\ size < RowsPerShard /\ ~finishing /\ at = "tokens"
  BY <1>1 DEF IInv, Memory, Working
<1>5. Streamed
  BY <1>3, <1>4, PayloadStreamed
<1>6. /\ batch \in Nat /\ batch >= 1 /\ batch * SeqLen + 1 <= Len(buf) /\ batch + size <= RowsPerShard
  BY <1>1, <1>3, <1>4, BatchSize
<1> HIDE DEF available, room, batch
<1>7. /\ digest' = Ref(n, size + batch)
      /\ Cardinality(labels) = Cardinality({w \in (1..batch) \X (2..SeqLen + 1) :
                                              (rows + w[1] - 1) * SeqLen + w[2] - 1 \in DocStarts})
      /\ buf' \in Seq(Nat) /\ buf' # <<>>
      /\ (rows + batch) * SeqLen + Len(buf') = rows * SeqLen + Len(buf)
      /\ buf' = [k \in 1..Len(buf') |-> (rows + batch) * SeqLen + k - 1]
  BY <1>1, <1>6, BatchFacts
<1> HIDE DEF labels, n, size
<1>8. /\ digest' \in Seq(Seq(Nat)) /\ Len(digest') = size + batch /\ size + batch \in Nat
      /\ digest' # <<>>
  <2>1. size + batch \in Nat /\ size + batch # 0
    BY <1>3, <1>6
  <2> QED BY <1>3, <1>7, <2>1, RefFacts
<1>9. /\ masked' = Cardinality(Boundaries(rows + batch)) /\ masked' \in Nat
  <2>1. masked = Cardinality(Boundaries(rows))
    BY <1>5 DEF Streamed
  <2>2. Cardinality(Boundaries(rows + batch)) = Cardinality(Boundaries(rows)) + Cardinality(labels)
    BY <1>3, <1>6, <1>7, BoundariesGrow
  <2>3. Cardinality(Boundaries(rows + batch)) \in Nat
    <3>1. Boundaries(rows + batch) \in SUBSET (1..NumDocs - 1) /\ NumDocs - 1 \in Int
      BY Dimensions DEF Boundaries
    <3>2. IsFiniteSet(1..NumDocs - 1)
      BY <3>1, FS_Interval
    <3> QED BY <3>1, <3>2, FS_Subset, FS_CardinalityType
  <2> QED BY <1>1, <2>1, <2>2, <2>3
<1>10. pc' \in {"seal", "drain"}
  BY <1>1
<1>11. OpenFiles = parts /\ DOMAIN dir = Sealed \cup parts /\ SealedHold
       /\ \A p \in parts : dir[p].rows = digest
  BY <1>1, <1>2, <1>4 DEF IInv, Directory, Working, OpenFiles
<1>12. parts = {Path("tokens", n, "part"), Path("starts", n, "part")}
  BY DEF Part, n
<1> HIDE DEF new, parts
<1>13. ASSUME NEW p \in parts
       PROVE  p \in DOMAIN dir /\ p[2] = n /\ dir'[p] = [rows |-> digest', synced |-> dir[p].synced]
  <2>1. p \in DOMAIN dir /\ dir[p].rows = digest
    BY <1>11
  <2>2. p[2] = n
    BY <1>12 DEF Path
  <2>3. dir[p] \in Files
    BY <2>1 DEF IInv, Placed
  <2>4. dir'[p] = [dir[p] EXCEPT !.rows = @ \o new]
    BY <1>1, <2>1
  <2>5. [dir[p] EXCEPT !.rows = @ \o new] = [rows |-> dir[p].rows \o new, synced |-> dir[p].synced]
    <3> DEFINE f == dir[p]
               x == f.rows \o new
    <3>1. f \in [rows : Seq(Seq(Nat)), synced : Nat]
      BY <2>3 DEF Files
    <3> HIDE DEF f, x
    <3>2. [f EXCEPT !.rows = x] = [rows |-> x, synced |-> f.synced]
      BY <3>1
    <3> QED BY <3>2 DEF f, x
  <2> QED BY <1>1, <2>1, <2>2, <2>4, <2>5
<1>14. DOMAIN dir' = DOMAIN dir /\ \A p \in DOMAIN dir \ parts : dir'[p] = dir[p]
  BY <1>1
<1>15. ASSUME NEW p \in DOMAIN dir' PROVE Placed(p, dir'[p]) /\ dir[p].synced <= dir'[p].synced
  <2>1. Placed(p, dir[p])
    BY <1>14, <1>15 DEF IInv
  <2>2. dir[p].synced \in Nat /\ dir[p].synced <= Len(dir[p].rows)
    BY <2>1 DEF Placed, Files
  <2>3. CASE p \in parts
    <3>1. dir[p].rows = digest
      BY <1>11, <2>3
    <3>2. dir[p].synced <= size + batch
      BY <1>3, <1>6, <2>2, <3>1 DEF size
    <3>3. [rows |-> digest', synced |-> dir[p].synced] \in Files
      BY <1>8, <2>2 DEF Files
    <3>4. dir'[p] \in Files /\ dir'[p].rows = digest' /\ dir'[p].synced = dir[p].synced /\ p[2] = n
      BY <1>13, <2>3, <3>3
    <3>5. size + batch <= RowsPerShard
      BY <1>3, <1>6, Dimensions
    <3> QED BY <1>7, <1>8, <2>2, <3>2, <3>4, <3>5 DEF Placed
  <2>4. CASE p \notin parts
    BY <1>14, <2>1, <2>2, <2>4
  <2> QED BY <2>3, <2>4
<1>16. TypeOK'
  <2>1. rows' \in Nat
    BY <1>1, <1>3, <1>6
  <2>2. DOMAIN dir' \subseteq Kinds \X Nat \X {"part", "final"}
    BY <1>3, <1>14 DEF TypeOK
  <2>3. dirty' \in BOOLEAN
    BY <1>1, Zenon
  <2>4. pc' \in Labels
    BY <1>10 DEF Labels
  <2>5. UNCHANGED <<at, finishing, fed, documents, content, shards, opened, cursor,
                    journal, manifest, temps>>
    BY <1>1
  <2> QED BY <1>3, <1>7, <1>8, <1>9, <2>1, <2>2, <2>3, <2>4, <2>5 DEF TypeOK
<1>17. Published'
  BY <1>1, <1>2, <1>10 DEF Published
<1>18. Journaled'
  <2>1. /\ Rested(journal) /\ Backed(dir, journal) /\ journal.documents <= documents
        /\ Len(journal.shards) <= n /\ (Len(journal.shards) = n => Len(journal.open) <= size)
        /\ Len(journal.open) \in Nat
    BY <1>2 DEF IInv, Journaled, Journals, n, size
  <2>2. Backed(dir', journal)
    <3>1. \A p \in DOMAIN dir : Placed(p, dir[p]) /\ Placed(p, dir'[p]) /\ dir[p].synced <= dir'[p].synced
      BY <1>14, <1>15 DEF IInv
    <3> QED BY <1>2, <1>14, <2>1, <3>1, BackedGrows
  <2>3. Len(journal.shards) = n => Len(journal.open) <= Len(digest')
    BY <1>3, <1>6, <1>8, <2>1
  <2> QED BY <1>1, <1>2, <1>10, <2>1, <2>2, <2>3 DEF Journaled, Working, n
<1>19. Streamed'
  <2>1. digest' = Ref(n, Len(digest')) /\ Len(digest') <= RowsPerShard
    <3>1. digest' = Ref(n, Len(digest'))
      BY <1>7, <1>8
    <3>2. Len(digest') <= RowsPerShard
      BY <1>3, <1>6, <1>8, Dimensions
    <3> QED BY <3>1, <3>2
  <2>2. rows' = n * RowsPerShard + Len(digest')
    <3>1. rows = n * RowsPerShard + size
      BY <1>5 DEF Streamed, n, size
    <3>2. n * RowsPerShard \in Nat
      BY <1>3, Dimensions
    <3> QED BY <1>1, <1>3, <1>6, <1>8, <3>1, <3>2
  <2>3. rows' * SeqLen + Len(buf') = DocEnd[documents]
    BY <1>1, <1>5, <1>7 DEF Streamed
  <2>4. buf' = [k \in 1..Len(buf') |-> rows' * SeqLen + k - 1]
    BY <1>1, <1>7
  <2> QED BY <1>1, <1>5, <1>7, <1>9, <2>1, <2>2, <2>3, <2>4 DEF Streamed, n
<1>20. Stream(JournalPayload)'
  <2>1. fed' \in 0..NumDocs
    BY <1>16 DEF TypeOK
  <2> QED BY <1>19, <2>1 DEF Stream, JournalPayload, Streamed
<1>21. Memory'
  <2>1. CASE pc' = "seal"
    <3>1. Len(digest') = RowsPerShard
      BY <1>1, <1>8, <2>1
    <3> QED BY <1>1, <1>4, <1>8, <1>20, <2>1, <3>1 DEF Memory, Working, Publishing
  <2>2. CASE pc' = "drain"
    <3>1. Len(digest') < RowsPerShard
      <4>1. size + batch # RowsPerShard
        BY <1>1, <2>2
      <4> QED BY <1>3, <1>6, <1>8, <4>1, Dimensions
    <3> QED BY <1>1, <1>4, <1>8, <1>20, <2>2, <3>1 DEF Memory, Working, Publishing
  <2> QED BY <1>10, <2>1, <2>2
<1>22. Directory'
  <2>1. OpenFiles' = parts /\ Sealed' = Sealed
    BY <1>1, <1>4, <1>10 DEF OpenFiles, Part, Sealed, parts
  <2>2. SealedHold'
    <3> SUFFICES ASSUME NEW k \in Kinds, NEW i \in 1..Len(shards)
                 PROVE  /\ Path(k, i - 1, "final") \in DOMAIN dir'
                        /\ dir'[Path(k, i - 1, "final")].rows = shards[i]
                        /\ dir'[Path(k, i - 1, "final")].synced = Len(shards[i])
      BY <1>1 DEF SealedHold, Exists
    <3>1. Path(k, i - 1, "final") \notin parts
      BY <1>12, Paths
    <3>2. /\ Path(k, i - 1, "final") \in DOMAIN dir
          /\ dir[Path(k, i - 1, "final")].rows = shards[i]
          /\ dir[Path(k, i - 1, "final")].synced = Len(shards[i])
      BY <1>11 DEF SealedHold, Exists
    <3> QED BY <1>14, <3>1, <3>2
  <2>3. ASSUME NEW p \in parts PROVE dir'[p].rows = digest'
    <3>1. dir'[p] = [rows |-> digest', synced |-> dir[p].synced]
      BY <1>13
    <3> QED BY <3>1
  <2>4. DOMAIN dir' = Sealed' \cup OpenFiles'
    BY <1>11, <1>14, <2>1
  <2> QED BY <1>1, <1>10, <2>1, <2>2, <2>3, <2>4 DEF Directory, Working, Publishing
<1>23. Temporaries'
  BY <1>1, <1>10 DEF IInv, Temporaries
<1> QED BY <1>10, <1>15, <1>16, <1>17, <1>18, <1>21, <1>22, <1>23 DEF IInv
-----------------------------------------------------------------------------
(* A resume finds what it checks for.                                       *)

\* Restarting a finished construction.
LEMMA ResumeFinishedStep == ASSUME IInv, ResumeFinished PROVE IInv'
<1>1. pc = "boot" /\ manifest # None /\ manifest \in Manifests
  BY DEF ResumeFinished, IInv, TypeOK
<1>2. /\ temps = {} /\ manifest.cursor \in 0..NumDocs
      /\ DOMAIN dir = {Path(k, i - 1, "final") : k \in Kinds, i \in 1..Len(manifest.shards)}
      /\ \A k \in Kinds : \A i \in 1..Len(manifest.shards) :
            dir[Path(k, i - 1, "final")].rows = manifest.shards[i]
  BY <1>1 DEF IInv, Published, Temporaries, TypeOK
<1>3. FinishedIntact
  BY <1>2 DEF FinishedIntact
<1>4. /\ documents' = manifest.documents /\ content' = manifest.content
      /\ rows' = manifest.rows /\ masked' = manifest.masked
      /\ shards' = manifest.shards /\ cursor' = manifest.cursor
      /\ fed' = manifest.cursor /\ journal' = None /\ pc' = "closed"
      /\ UNCHANGED <<at, finishing, buf, digest, opened, dirty, dir, manifest, temps, faults>>
  BY <1>1, <1>3 DEF ResumeFinished, Goto
<1>5. TypeOK' /\ \A p \in DOMAIN dir' : Placed(p, dir'[p])
  <2>1. manifest.documents \in Nat /\ manifest.content \in Nat /\ manifest.rows \in Nat
        /\ manifest.masked \in Nat /\ manifest.shards \in Seq(Seq(Seq(Nat)))
    BY <1>1 DEF Manifests
  <2> QED BY <1>2, <1>4, <2>1 DEF IInv, TypeOK, Labels
<1>6. Published'
  BY <1>1, <1>4 DEF IInv, Published
<1>7. Journaled'
  BY <1>1, <1>4 DEF Journaled
<1>8. Memory'
  BY <1>1, <1>4 DEF IInv, Memory, Working, Publishing
<1>9. Directory' /\ Temporaries'
  BY <1>1, <1>2, <1>4 DEF Directory, Temporaries
<1> QED BY <1>4, <1>5, <1>6, <1>7, <1>8, <1>9 DEF IInv

\* Restarting from a journal: the committed shards are there and the counters
\* agree; only a manifest temporary of a killed finish() can be in the way.
LEMMA ResumeJournalStep == ASSUME IInv, ResumeJournal PROVE IInv'
<1>1. /\ pc = "boot" /\ manifest = None /\ journal # None /\ journal \in Journals
      /\ at' = "tokens"
      /\ UNCHANGED <<finishing, opened, dirty, dir, journal, manifest, temps, faults>>
  BY DEF ResumeJournal, IInv, TypeOK, disk
<1>2. Rested(journal) /\ Backed(dir, journal) /\ Stream(journal)
  BY <1>1 DEF IInv, Journaled, Rested
<1>3. /\ journal.cursor \in 0..NumDocs /\ journal.documents \in Nat /\ journal.content \in Nat
      /\ journal.rows \in Nat /\ journal.masked \in Nat /\ journal.carry \in Seq(Nat)
      /\ journal.shards \in Seq(Seq(Seq(Nat))) /\ journal.open \in Seq(Seq(Nat))
      /\ journal = [cursor |-> journal.cursor, documents |-> journal.documents,
                    content |-> journal.content, rows |-> journal.rows, masked |-> journal.masked,
                    carry |-> journal.carry, shards |-> journal.shards, open |-> journal.open]
  BY <1>1, <1>2 DEF Journals, Stream
<1>4. CommittedIntact(journal)
  <2>1. \A k \in Kinds : \A i \in 1..Len(journal.shards) :
              /\ Path(k, i - 1, "final") \in DOMAIN dir /\ Path(k, i - 1, "part") \notin DOMAIN dir
              /\ dir[Path(k, i - 1, "final")].rows = journal.shards[i]
              /\ Len(journal.shards[i]) = RowsPerShard
    BY <1>1, <1>2, BackedHolds DEF IInv
  <2>2. \E k \in Kinds : TRUE
    BY DEF Kinds
  <2> QED BY <2>1, <2>2 DEF CommittedIntact, Exists
<1>5. CountersConsistent(journal)
  BY <1>2 DEF CountersConsistent, Rested, Stream
<1>6. at = "tokens" /\ ~opened /\ ~dirty /\ ~finishing /\ cursor = 0 /\ fed = 0
  BY <1>1 DEF IInv, Memory
<1>7. CASE temps = {}
  <2>1. /\ buf' = journal.carry
        /\ documents' = journal.documents /\ content' = journal.content
        /\ rows' = journal.rows /\ masked' = journal.masked
        /\ shards' = journal.shards /\ digest' = journal.open
        /\ cursor' = journal.cursor /\ fed' = journal.cursor
        /\ pc' = IF journal.open = <<>> THEN "sweep" ELSE "restore"
    BY <1>1, <1>4, <1>5, <1>7 DEF ResumeJournal, Goto
  <2>2. pc' \in {"sweep", "restore"}
    BY <2>1
  <2>3. JournalPayload' = journal
    BY <1>3, <2>1 DEF JournalPayload
  <2>4. TypeOK' /\ \A p \in DOMAIN dir' : Placed(p, dir'[p])
    <3>1. pc' \in Labels /\ at' \in Kinds
      BY <1>1, <2>2 DEF Labels, Kinds
    <3> QED BY <1>1, <1>3, <2>1, <3>1 DEF IInv, TypeOK
  <2>5. Published' /\ Journaled'
    BY <1>1, <1>2, <2>2, <2>3 DEF Published, Journaled, Working
  <2>6. Memory'
    BY <1>1, <1>2, <1>6, <2>1, <2>2, <2>3 DEF Memory, Working, Publishing
  <2>7. Directory'
    <3>1. Kept' \subseteq DOMAIN dir'
      <4>1. Kept' = {Path(k, i - 1, "final") : k \in Kinds, i \in 1..Len(journal.shards)}
        BY <1>1, <1>6, <2>1 DEF Kept
      <4>2. \A k \in Kinds : \A i \in 1..Len(journal.shards) : Path(k, i - 1, "final") \in DOMAIN dir
        BY <1>4 DEF CommittedIntact, Exists
      <4> QED BY <1>1, <4>1, <4>2
    <3> QED BY <1>1, <1>6, <2>2, <3>1 DEF Directory, Working, Publishing
  <2>8. Temporaries'
    BY <1>1, <1>7 DEF Temporaries
  <2> QED BY <2>2, <2>4, <2>5, <2>6, <2>7, <2>8 DEF IInv
<1>8. CASE temps # {}
  <2>1. pc' = "refused" /\ UNCHANGED <<buf, documents, content, rows, masked, shards, digest, cursor, fed>>
    BY <1>8 DEF ResumeJournal, Goto
  <2>2. ManifestTempSurvives
    BY <1>1, <1>8 DEF IInv, Temporaries, TypeOK
  <2>3. TypeOK' /\ \A p \in DOMAIN dir' : Placed(p, dir'[p])
    BY <1>1, <2>1 DEF IInv, TypeOK, Labels, Kinds
  <2>4. Published' /\ Journaled'
    BY <1>1, <1>2, <2>1 DEF Published, Journaled, Working
  <2>5. Memory' /\ Directory'
    BY <1>1, <1>6, <2>1 DEF Memory, Directory, Working, Publishing
  <2>6. Temporaries'
    BY <1>1, <2>1, <2>2 DEF IInv, Temporaries
  <2> QED BY <2>2, <2>3, <2>4, <2>5, <2>6 DEF IInv
<1> QED BY <1>7, <1>8

\* The open shard of a journal has one candidate, and it begins with the rows
\* the journal vouches for.
LEMMA OneCandidate ==
    ASSUME IInv, pc = "restore"
    PROVE  LET n == Len(shards)
           IN  /\ n \in Nat /\ manifest = None /\ journal # None /\ journal = JournalPayload
               /\ \E place, other \in {"part", "final"} :
                     /\ place # other
                     /\ Path(at, n, place) \in DOMAIN dir /\ Path(at, n, other) \notin DOMAIN dir
                     /\ Starts(digest, dir[Path(at, n, place)].rows)
<1> DEFINE n == Len(shards)
<1>1. manifest = None /\ journal # None /\ journal = JournalPayload /\ digest # <<>>
  BY DEF IInv, Published, Journaled, Memory
<1>2. /\ n \in Nat /\ Len(digest) \in Nat /\ at \in Kinds
      /\ journal.shards = shards /\ journal.open = digest
  BY <1>1 DEF IInv, TypeOK, JournalPayload
<1>3. Streamed /\ Backed(dir, journal)
  BY <1>1, PayloadStreamed DEF IInv, Memory, Journaled
<1>4. PICK place \in {"part", "final"}, other \in {"part", "final"} :
         /\ place # other
         /\ Path(at, n, place) \in DOMAIN dir /\ Path(at, n, other) \notin DOMAIN dir
         /\ dir[Path(at, n, place)].synced >= Len(digest)
  BY <1>1, <1>2, <1>3 DEF Backed
<1> DEFINE p == Path(at, n, place)
<1>5. /\ dir[p].rows = Ref(n, Len(dir[p].rows)) /\ dir[p].synced <= Len(dir[p].rows)
      /\ dir[p].synced \in Nat /\ Len(dir[p].rows) \in Nat
  <2>1. p[2] = n
    BY DEF Path
  <2>2. Placed(p, dir[p])
    BY <1>4 DEF IInv
  <2> QED BY <2>1, <2>2 DEF Placed, Files
<1>6. Starts(digest, dir[p].rows)
  <2>1. digest = Ref(n, Len(digest))
    BY <1>3 DEF Streamed
  <2>2. Len(digest) <= Len(dir[p].rows)
    BY <1>2, <1>4, <1>5
  <2>3. Starts(Ref(n, Len(digest)), Ref(n, Len(dir[p].rows)))
    <3> DEFINE a == Len(digest)
               b == Len(dir[p].rows)
    <3>1. a \in Nat /\ b \in Nat /\ a <= b
      BY <1>2, <1>5, <2>2
    <3> HIDE DEF a, b, n
    <3>2. Starts(Ref(n, a), Ref(n, b))
      BY <1>2, <3>1, RefPrefix
    <3> QED BY <3>2 DEF a, b, n
  <2> QED BY <1>5, <2>1, <2>3
<1> QED BY <1>1, <1>2, <1>4, <1>6

\* The open shard's file is found, once, and goes back to its part name.
LEMMA RestorePartStep == ASSUME IInv, RestorePart PROVE IInv'
<1> DEFINE n == Len(shards)
           part == Path(at, n, "part")
           final == Path(at, n, "final")
<1>1. /\ pc = "restore"
      /\ UNCHANGED <<at, finishing, fed, buf, documents, content, rows, masked, shards, digest,
                     opened, dirty, cursor, journal, manifest, temps, faults>>
  BY DEF RestorePart, memory
<1>2. n \in Nat /\ manifest = None /\ journal # None /\ journal = JournalPayload
  BY <1>1, OneCandidate
<1>3. PICK place \in {"part", "final"}, other \in {"part", "final"} :
         /\ place # other
         /\ Path(at, n, place) \in DOMAIN dir /\ Path(at, n, other) \notin DOMAIN dir
         /\ Starts(digest, dir[Path(at, n, place)].rows)
  BY <1>1, OneCandidate
<1>4. Candidates(at) = {Path(at, n, place)}
  <2>1. Candidates(at) = {p \in {part, final} : p \in DOMAIN dir}
    BY DEF Candidates, Part, Final, Exists
  <2>2. {part, final} = {Path(at, n, place), Path(at, n, other)}
    BY <1>3
  <2> HIDE DEF part, final
  <2> QED BY <1>3, <2>1, <2>2
<1>5. Cardinality(Candidates(at)) = 1
  BY <1>4, FS_Singleton
<1>6. /\ pc' = "truncate"
      /\ dir' = IF part \in DOMAIN dir THEN dir ELSE Rename(dir, final, part)
  BY <1>3, <1>4, <1>5 DEF RestorePart, Goto, Exists, Part, Final
<1>7. part # final
  BY Paths
<1>8. /\ part \in DOMAIN dir' /\ final \notin DOMAIN dir' /\ dir'[part] = dir[Path(at, n, place)]
      /\ DOMAIN dir' = (DOMAIN dir \ {final}) \cup {part}
      /\ \A p \in DOMAIN dir \ {final, part} : dir'[p] = dir[p]
  <2>1. CASE place = "part"
    <3>1. part \in DOMAIN dir /\ final \notin DOMAIN dir /\ Path(at, n, place) = part
      BY <1>3, <2>1
    <3> HIDE DEF part, final
    <3> QED BY <1>6, <3>1
  <2>2. CASE place = "final"
    <3>1. part \notin DOMAIN dir /\ final \in DOMAIN dir /\ Path(at, n, place) = final
      BY <1>3, <2>2
    <3> HIDE DEF part, final
    <3>2. dir' = Rename(dir, final, part)
      BY <1>6, <3>1
    <3> QED BY <1>7, <3>1, <3>2 DEF Rename, Put, Restrict
  <2> QED BY <2>1, <2>2
<1>9. at \in Kinds
  BY DEF IInv, TypeOK
<1>10. ASSUME NEW p \in DOMAIN dir' PROVE Placed(p, dir'[p])
  <2>1. CASE p = part
    <3>1. Placed(Path(at, n, place), dir[Path(at, n, place)])
      BY <1>3 DEF IInv
    <3>2. part[2] = n /\ Path(at, n, place)[2] = n
      BY DEF Path
    <3> QED BY <1>8, <2>1, <3>1, <3>2 DEF Placed
  <2>2. CASE p # part
    <3> HIDE DEF part, final
    <3>1. p \in DOMAIN dir /\ dir'[p] = dir[p]
      BY <1>7, <1>8, <1>10, <2>2
    <3> QED BY <3>1 DEF IInv
  <2> QED BY <2>1, <2>2
<1>11. TypeOK'
  <2>1. part \in Kinds \X Nat \X {"part", "final"}
    BY <1>2, <1>9 DEF Path
  <2>2. DOMAIN dir' \subseteq Kinds \X Nat \X {"part", "final"}
    BY <1>8, <2>1 DEF IInv, TypeOK
  <2> QED BY <1>1, <1>6, <2>2 DEF IInv, TypeOK, Labels
<1>12. Backed(dir', journal)
  <2>1. Backed(dir, journal) /\ journal \in Journals /\ Len(journal.shards) = n
    BY <1>2 DEF IInv, Journaled, TypeOK, JournalPayload
  <2>2. CASE part \in DOMAIN dir
    BY <1>6, <2>1, <2>2
  <2>3. CASE part \notin DOMAIN dir
    <3>1. final \in DOMAIN dir
      BY <1>3, <2>3
    <3>2. Len(journal.shards) <= n
      BY <1>2, <2>1
    <3>3. Backed(Rename(dir, final, part), journal)
      BY <1>2, <1>9, <2>1, <2>3, <3>1, <3>2, BackedMoved
    <3> QED BY <1>6, <2>3, <3>3
  <2> QED BY <2>2, <2>3
<1>13. JournalPayload' = JournalPayload
  BY <1>1 DEF JournalPayload
<1>14. Published'
  BY <1>1, <1>2, <1>6 DEF Published
<1>15. Journaled'
  BY <1>1, <1>2, <1>6, <1>12, <1>13 DEF IInv, Journaled, Working
<1>16. Memory'
  BY <1>1, <1>6, <1>13 DEF IInv, Memory, Working, Publishing
<1>17. Directory'
  <2>1. Exists(Part(at))' /\ ~Exists(Final(at))' /\ Starts(digest, dir'[part].rows)
    BY <1>1, <1>3, <1>8 DEF Exists, Part, Final
  <2>2. ASSUME at = "starts"
        PROVE  /\ Path("tokens", n, "part") \in DOMAIN dir' /\ Path("tokens", n, "final") \notin DOMAIN dir'
               /\ dir'[Path("tokens", n, "part")] = [rows |-> digest, synced |-> Len(digest)]
    <3>1. /\ Path("tokens", n, "part") \in DOMAIN dir /\ Path("tokens", n, "final") \notin DOMAIN dir
          /\ dir[Path("tokens", n, "part")] = [rows |-> digest, synced |-> Len(digest)]
      BY <1>1, <1>2, <2>2 DEF IInv, Directory, Exists, Part, Final
    <3>2. Path("tokens", n, "part") \notin {part, final} /\ Path("tokens", n, "final") \notin {part, final}
      BY <2>2, Paths
    <3> HIDE DEF part, final
    <3> QED BY <1>8, <3>1, <3>2
  <2>3. /\ pc' = "truncate" /\ at' = at /\ digest' = digest /\ shards' = shards
    BY <1>1, <1>6
  <2> QED BY <2>1, <2>2, <2>3 DEF Directory, Working, Publishing, Exists, Part, Final
<1>18. Temporaries'
  BY <1>1, <1>6 DEF IInv, Temporaries
<1> QED BY <1>6, <1>10, <1>11, <1>14, <1>15, <1>16, <1>17, <1>18 DEF IInv
\* A part is cut back to the journaled rows and synced.
LEMMA TruncatePartStep == ASSUME IInv, TruncatePart PROVE IInv'
<1> DEFINE n == Len(shards)
           part == Path(at, n, "part")
           final == Path(at, n, "final")
           file == [rows |-> digest, synced |-> Len(digest)]
<1>1. /\ pc = "truncate" /\ dir' = [dir EXCEPT ![part] = file]
      /\ at' = (IF at = "tokens" THEN "starts" ELSE "tokens")
      /\ (at = "tokens" => pc' = "restore" /\ opened' = opened)
      /\ (at # "tokens" => pc' = "sweep" /\ opened' = TRUE)
      /\ UNCHANGED <<finishing, fed, buf, documents, content, rows, masked, shards, digest,
                     dirty, cursor, journal, manifest, temps, faults>>
  BY DEF TruncatePart, Goto, Part
<1>2. /\ manifest = None /\ journal # None /\ journal = JournalPayload /\ journal \in Journals
      /\ Backed(dir, journal) /\ Rested(journal) /\ n \in Nat /\ at \in Kinds
      /\ digest \in Seq(Seq(Nat)) /\ Len(digest) \in Nat
  BY <1>1 DEF IInv, Published, Journaled, TypeOK
<1>3. /\ Rested(JournalPayload) /\ digest # <<>> /\ ~opened /\ ~dirty /\ ~finishing
  BY <1>1 DEF IInv, Memory, Working
<1>4. part \in DOMAIN dir /\ final \notin DOMAIN dir
  BY <1>1, <1>2 DEF IInv, Directory, Exists, Part, Final
<1>5. file.rows = digest /\ file.synced = Len(digest) /\ file \in Files
  BY <1>2 DEF Files
<1> HIDE DEF file
<1>6. /\ DOMAIN dir' = DOMAIN dir /\ dir'[part] = file
      /\ \A p \in DOMAIN dir \ {part} : dir'[p] = dir[p]
  <2> HIDE DEF part
  <2> QED BY <1>1, <1>4
<1>7. ASSUME NEW p \in DOMAIN dir' PROVE Placed(p, dir'[p])
  <2>1. CASE p = part
    <3>1. p[2] = n
      BY <2>1 DEF Path
    <3>2. digest = Ref(n, Len(digest)) /\ Len(digest) <= RowsPerShard
      BY <1>3, PayloadStreamed DEF IInv, Streamed
    <3> QED BY <1>2, <1>5, <1>6, <2>1, <3>1, <3>2 DEF Placed
  <2>2. CASE p # part
    <3> HIDE DEF part
    <3> QED BY <1>6, <1>7, <2>2 DEF IInv
  <2> QED BY <2>1, <2>2
<1>8. pc' \in {"restore", "sweep"} /\ at' \in Kinds /\ opened' \in BOOLEAN
  <2>1. pc' \in {"restore", "sweep"} /\ at' \in Kinds
    BY <1>1 DEF Kinds
  <2>2. opened' = opened \/ opened' = TRUE
    BY <1>1
  <2>3. opened \in BOOLEAN
    BY DEF IInv, TypeOK
  <2>4. opened' \in BOOLEAN
    BY <2>2, <2>3, Zenon
  <2> QED BY <2>1, <2>4
<1>9. TypeOK'
  BY <1>1, <1>6, <1>8 DEF IInv, TypeOK, Labels
<1>10. Published'
  BY <1>1, <1>2, <1>8 DEF Published
<1>11. journal.shards = shards /\ journal.open = digest /\ JournalPayload' = JournalPayload
  BY <1>1, <1>2 DEF JournalPayload
<1>12. Backed(dir', journal)
  <2>1. ASSUME NEW k \in Kinds, NEW i \in 0..n - 1
        PROVE  /\ Path(k, i, "final") \in DOMAIN dir' /\ Path(k, i, "part") \notin DOMAIN dir'
               /\ dir'[Path(k, i, "final")].synced = RowsPerShard
    <3>1. Path(k, i, "final") # part
      BY Paths
    <3>2. /\ Path(k, i, "final") \in DOMAIN dir /\ Path(k, i, "part") \notin DOMAIN dir
          /\ dir[Path(k, i, "final")].synced = RowsPerShard
      BY <1>2, <1>11 DEF Backed
    <3> HIDE DEF part
    <3> QED BY <1>6, <3>1, <3>2
  <2>2. ASSUME NEW k \in Kinds
        PROVE  \E place, other \in {"part", "final"} :
             /\ place # other
             /\ Path(k, n, place) \in DOMAIN dir' /\ Path(k, n, other) \notin DOMAIN dir'
             /\ dir'[Path(k, n, place)].synced >= Len(digest)
    <3>1. CASE k = at
      <4>1. Path(k, n, "part") = part /\ Path(k, n, "final") = final
        BY <3>1
      <4>2. Len(digest) >= Len(digest)
        BY <1>2
      <4> HIDE DEF part, final
      <4> QED BY <1>4, <1>5, <1>6, <4>1, <4>2
    <3>2. CASE k # at
      <4>1. PICK place \in {"part", "final"}, other \in {"part", "final"} :
             /\ place # other
             /\ Path(k, n, place) \in DOMAIN dir /\ Path(k, n, other) \notin DOMAIN dir
             /\ dir[Path(k, n, place)].synced >= Len(digest)
        BY <1>2, <1>3, <1>11 DEF Backed
      <4>2. Path(k, n, place) # part
        BY <3>2, Paths
      <4>3. /\ Path(k, n, place) \in DOMAIN dir' /\ Path(k, n, other) \notin DOMAIN dir'
            /\ dir'[Path(k, n, place)] = dir[Path(k, n, place)]
        <5> HIDE DEF part
        <5> QED BY <1>6, <4>1, <4>2
      <4> QED BY <4>1, <4>3
    <3> QED BY <3>1, <3>2
  <2> QED BY <1>11, <2>1, <2>2 DEF Backed
<1>13. Journaled'
  BY <1>1, <1>2, <1>8, <1>11, <1>12 DEF Journaled, Working
<1>14. Memory'
  <2>1. Stream(JournalPayload)
    BY <1>3 DEF Rested
  <2>2. pc' = "sweep" => at' = "tokens" /\ opened'
    BY <1>1
  <2>3. pc' = "restore" => ~opened'
    BY <1>1, <1>3
  <2> QED BY <1>1, <1>3, <1>8, <1>11, <2>1, <2>2, <2>3 DEF Memory, Working, Publishing
<1>15. Directory'
  <2>1. CASE at = "tokens"
    <3>1. pc' = "restore" /\ at' = "starts"
      BY <1>1, <2>1
    <3>2. Part("tokens")' = part /\ Final("tokens")' = final
      BY <1>1, <2>1 DEF Part, Final
    <3>3. /\ Exists(Part("tokens"))' /\ ~Exists(Final("tokens"))'
          /\ dir'[Part("tokens")'] = [rows |-> digest', synced |-> Len(digest')]
      BY <1>1, <1>4, <1>6, <3>2 DEF Exists, file
    <3> QED BY <3>1, <3>3 DEF Directory, Working, Publishing
  <2>2. CASE at = "starts"
    <3>1. pc' = "sweep" /\ opened'
      BY <1>1, <2>2
    <3> DEFINE first == Path("tokens", n, "part")
    <3>2. first \in DOMAIN dir /\ dir[first] = [rows |-> digest, synced |-> Len(digest)]
      BY <1>1, <1>2, <2>2 DEF IInv, Directory, Exists, Part, Final
    <3>3. first # part
      BY <2>2, Paths
    <3>4. /\ first \in DOMAIN dir' /\ part \in DOMAIN dir'
          /\ dir'[first] = file /\ dir'[part] = file
      <4> HIDE DEF first, part
      <4> QED BY <1>4, <1>6, <3>2, <3>3 DEF file
    <3>5. \A k \in Kinds : Part(k)' \in {first, part}
      BY <1>1, <2>2 DEF Part, Kinds
    <3>6. \A k \in Kinds : \A i \in 1..n : Path(k, i - 1, "final") \in DOMAIN dir
      BY <1>2, <1>11, BackedHolds DEF IInv
    <3>7. Kept' \subseteq DOMAIN dir'
      <4>1. \A p \in Kept' : (\E k \in Kinds : \E i \in 1..n : p = Path(k, i - 1, "final"))
                             \/ (\E k \in Kinds : p = Part(k)')
        BY <1>1 DEF Kept, Part
      <4> HIDE DEF first, part
      <4> QED BY <1>6, <3>4, <3>5, <3>6, <4>1
    <3>8. \A k \in Kinds : dir'[Part(k)'] = [rows |-> digest', synced |-> Len(digest')]
      <4> HIDE DEF first, part
      <4> QED BY <1>1, <3>4, <3>5 DEF file
    <3> QED BY <3>1, <3>7, <3>8 DEF Directory, Working, Publishing
  <2> QED BY <1>2, <2>1, <2>2 DEF Kinds
<1>16. Temporaries'
  BY <1>1, <1>8 DEF IInv, Temporaries
<1> QED BY <1>7, <1>8, <1>9, <1>10, <1>13, <1>14, <1>15, <1>16 DEF IInv

\* Nothing the journal vouches for is swept.
LEMMA SweepOneStep == ASSUME IInv, SweepOne PROVE IInv'
<1> DEFINE n == Len(shards)
<1>1. /\ pc = "sweep" /\ pc' = "sweep"
      /\ UNCHANGED <<at, finishing, fed, buf, documents, content, rows, masked, shards, digest,
                     opened, dirty, cursor, journal, manifest, temps, faults>>
  BY DEF SweepOne, memory
<1>2. PICK gone \in DOMAIN dir \ Kept : dir' = Restrict(dir, DOMAIN dir \ {gone})
  BY DEF SweepOne
<1>3. DOMAIN dir' = DOMAIN dir \ {gone} /\ \A p \in DOMAIN dir' : dir'[p] = dir[p]
  BY <1>2 DEF Restrict
<1>4. /\ manifest = None /\ journal # None /\ journal = JournalPayload /\ journal \in Journals
      /\ Backed(dir, journal) /\ Rested(journal) /\ n \in Nat
  BY <1>1 DEF IInv, Published, Journaled, TypeOK
<1>5. /\ Kept \subseteq DOMAIN dir /\ (opened <=> digest # <<>>)
      /\ opened => \A k \in Kinds : dir[Part(k)] = [rows |-> digest, synced |-> Len(digest)]
  BY <1>1, <1>4 DEF IInv, Memory, Directory
<1>6. Kept \subseteq DOMAIN dir' /\ Kept' = Kept
  BY <1>1, <1>2, <1>3, <1>5 DEF Kept, Part
<1>7. TypeOK' /\ \A p \in DOMAIN dir' : Placed(p, dir'[p])
  <2>1. DOMAIN dir' \subseteq Kinds \X Nat \X {"part", "final"}
    BY <1>3 DEF IInv, TypeOK
  <2> QED BY <1>1, <1>3, <2>1 DEF IInv, TypeOK
<1>8. journal.shards = shards /\ journal.open = digest /\ JournalPayload' = JournalPayload
  BY <1>1, <1>4 DEF JournalPayload
<1>9. Backed(dir', journal)
  <2>1. ASSUME NEW k \in Kinds, NEW i \in 0..n - 1
        PROVE  /\ Path(k, i, "final") \in DOMAIN dir' /\ Path(k, i, "part") \notin DOMAIN dir'
               /\ dir'[Path(k, i, "final")].synced = RowsPerShard
    <3>1. /\ Path(k, i, "final") \in DOMAIN dir /\ Path(k, i, "part") \notin DOMAIN dir
          /\ dir[Path(k, i, "final")].synced = RowsPerShard
      BY <1>4, <1>8 DEF Backed
    <3>2. Path(k, i, "final") \in Kept
      <4>1. i + 1 \in 1..n /\ (i + 1) - 1 = i
        BY <1>4
      <4> QED BY <4>1 DEF Kept
    <3> QED BY <1>3, <1>6, <3>1, <3>2
  <2>2. ASSUME digest # <<>>, NEW k \in Kinds
        PROVE  \E place, other \in {"part", "final"} :
             /\ place # other
             /\ Path(k, n, place) \in DOMAIN dir' /\ Path(k, n, other) \notin DOMAIN dir'
             /\ dir'[Path(k, n, place)].synced >= Len(digest)
    <3>1. PICK place \in {"part", "final"}, other \in {"part", "final"} :
             /\ place # other
             /\ Path(k, n, place) \in DOMAIN dir /\ Path(k, n, other) \notin DOMAIN dir
             /\ dir[Path(k, n, place)].synced >= Len(digest)
      BY <1>4, <1>8, <2>2 DEF Backed
    <3>2. Path(k, n, "part") \in Kept
      BY <1>5, <2>2 DEF Kept, Part
    <3>3. place = "part"
      BY <1>5, <3>1, <3>2
    <3> QED BY <1>3, <1>6, <3>1, <3>2, <3>3
  <2> QED BY <1>8, <2>1, <2>2 DEF Backed
<1>10. Published'
  BY <1>1, <1>4 DEF Published
<1>11. Journaled'
  BY <1>1, <1>4, <1>8, <1>9 DEF Journaled, Working
<1>12. Memory'
  BY <1>1, <1>8 DEF IInv, Memory, Working, Publishing
<1>13. Directory'
  <2>1. opened => \A k \in Kinds : dir'[Part(k)] = [rows |-> digest, synced |-> Len(digest)]
    <3>1. opened => \A k \in Kinds : Part(k) \in Kept
      BY DEF Kept
    <3> QED BY <1>3, <1>5, <1>6, <3>1
  <2>2. \A k \in Kinds : Part(k)' = Part(k)
    BY <1>1 DEF Part
  <2> QED BY <1>1, <1>6, <2>1, <2>2 DEF Directory, Working, Publishing
<1>14. Temporaries'
  BY <1>1 DEF IInv, Temporaries
<1> QED BY <1>1, <1>7, <1>10, <1>11, <1>12, <1>13, <1>14 DEF IInv

-----------------------------------------------------------------------------
(* Death, and the rest.                                                     *)

\* A killed process leaves every file with its stable rows and some of the
\* later ones.
LEMMA CrashStep == ASSUME IInv, Crash PROVE IInv'
<1> DEFINE lose(p, gone) ==
             LET kept == Len(dir[p].rows) - gone
             IN  [dir[p] EXCEPT !.rows =
                    SubSeq(@, 1, IF kept > dir[p].synced THEN kept ELSE dir[p].synced)]
<1>1. /\ pc \notin {"down", "refused"} /\ pc' = "down" /\ at' = "tokens" /\ finishing' = FALSE
      /\ fed' = 0 /\ buf' = <<>> /\ documents' = 0 /\ content' = 0 /\ rows' = 0 /\ masked' = 0
      /\ shards' = <<>> /\ digest' = <<>> /\ opened' = FALSE /\ dirty' = FALSE /\ cursor' = 0
      /\ temps' \in {{}, IF ManifestTempSurvives THEN temps ELSE temps \ {"manifest"}}
      /\ UNCHANGED <<journal, manifest>>
  BY DEF Crash, Fresh, Goto
<1>2. PICK lost \in [Kinds -> 0..RowsPerShard] : dir' = [p \in DOMAIN dir |-> lose(p, lost[p[1]])]
  BY DEF Crash
<1>3. DOMAIN dir' = DOMAIN dir /\ \A p \in DOMAIN dir : dir'[p] = lose(p, lost[p[1]])
  <2> HIDE DEF lose
  <2> QED BY <1>2
<1>4. temps' \subseteq temps /\ ("manifest" \in temps' => ManifestTempSurvives)
  BY <1>1
<1>5. ASSUME NEW p \in DOMAIN dir
      PROVE  /\ Placed(p, dir'[p]) /\ dir'[p].synced = dir[p].synced
             /\ dir[p].synced = Len(dir[p].rows) => dir'[p].rows = dir[p].rows
  <2> DEFINE all == Len(dir[p].rows)
             kept == all - lost[p[1]]
             m == IF kept > dir[p].synced THEN kept ELSE dir[p].synced
             f == dir[p]
             i == p[2]
  <2>1. /\ f \in Files /\ f.rows = Ref(i, all) /\ f.synced <= all /\ all <= RowsPerShard
        /\ f.synced \in Nat /\ all \in Nat
    BY <1>5 DEF IInv, Placed, Files
  <2>2. p[1] \in Kinds /\ i \in Nat
    BY <1>5 DEF IInv, TypeOK
  <2>3. lost[p[1]] \in Nat
    BY <2>2, Dimensions
  <2>4. m \in Nat /\ m <= all /\ f.synced <= m /\ (f.synced = all => m = all)
    <3> HIDE DEF all, f
    <3> QED BY <2>1, <2>3 DEF f
  <2>5. dir'[p] = [f EXCEPT !.rows = SubSeq(@, 1, m)]
    BY <1>3, <1>5
  <2>6. [f EXCEPT !.rows = SubSeq(@, 1, m)] = [rows |-> SubSeq(f.rows, 1, m), synced |-> f.synced]
    <3> DEFINE x == SubSeq(f.rows, 1, m)
    <3>1. f \in [rows : Seq(Seq(Nat)), synced : Nat]
      BY <2>1 DEF Files
    <3> HIDE DEF f, x
    <3>2. [f EXCEPT !.rows = x] = [rows |-> x, synced |-> f.synced]
      BY <3>1
    <3> QED BY <3>2 DEF x
  <2> HIDE DEF f, all, m, i
  <2>7. SubSeq(f.rows, 1, m) = Ref(i, m)
    <3>1. SubSeq(Ref(i, all), 1, m) = Ref(i, m)
      BY <2>1, <2>2, <2>4, RefPrefix
    <3>2. f.rows = Ref(i, all)
      BY <2>1
    <3> QED BY <3>1, <3>2
  <2>8. dir'[p] = [rows |-> Ref(i, m), synced |-> f.synced]
    BY <2>5, <2>6, <2>7
  <2>9. Ref(i, m) \in Seq(Seq(Nat)) /\ Len(Ref(i, m)) = m
    BY <2>2, <2>4, RefFacts
  <2>10. dir'[p].rows = Ref(i, m) /\ dir'[p].synced = f.synced /\ dir'[p] \in Files
    BY <2>1, <2>8, <2>9 DEF Files
  <2>11. m <= RowsPerShard
    BY <2>1, <2>4, Dimensions
  <2>12. Placed(p, dir'[p])
    BY <2>4, <2>9, <2>10, <2>11 DEF Placed, i
  <2>13. f.synced = all => dir'[p].rows = f.rows
    BY <2>1, <2>4, <2>10
  <2> QED BY <2>10, <2>12, <2>13 DEF f, all
<1> HIDE DEF lose
<1>6. TypeOK'
  <2>1. temps' \subseteq {"journal", "manifest"}
    BY <1>4 DEF IInv, TypeOK
  <2>2. opened' \in BOOLEAN /\ dirty' \in BOOLEAN /\ finishing' \in BOOLEAN
    BY <1>1, Zenon
  <2>3. 0 \in 0..NumDocs /\ 0 \in Nat
    BY Dimensions
  <2>4. DOMAIN dir' \subseteq Kinds \X Nat \X {"part", "final"}
    BY <1>3 DEF IInv, TypeOK
  <2>5. pc' \in Labels /\ at' \in Kinds
    BY <1>1 DEF Labels, Kinds
  <2>6. buf' \in Seq(Nat) /\ shards' \in Seq(Seq(Seq(Nat))) /\ digest' \in Seq(Seq(Nat))
    BY <1>1
  <2>7. journal' \in Journals \cup {None} /\ manifest' \in Manifests \cup {None}
    BY <1>1 DEF IInv, TypeOK
  <2> QED BY <1>1, <2>1, <2>2, <2>3, <2>4, <2>5, <2>6, <2>7 DEF TypeOK
<1>7. \A p \in DOMAIN dir' : Placed(p, dir'[p])
  BY <1>3, <1>5
<1>8. Published'
  <2>1. CASE manifest = None
    BY <1>1, <2>1 DEF Published
  <2>2. CASE manifest # None
    <3>1. /\ temps' \subseteq {"journal"}
          /\ manifest.cursor \in 0..NumDocs /\ manifest.documents = NumDocs
          /\ Whole(manifest.shards, manifest.rows)
          /\ manifest.masked = Cardinality(Boundaries(manifest.rows))
          /\ DOMAIN dir = {Path(k, i - 1, "final") : k \in Kinds, i \in 1..Len(manifest.shards)}
      BY <1>4, <2>2 DEF IInv, Published
    <3>2. ASSUME NEW k \in Kinds, NEW i \in 1..Len(manifest.shards)
          PROVE  LET f == dir'[Path(k, i - 1, "final")]
                 IN  f.rows = manifest.shards[i] /\ f.synced = Len(f.rows)
      <4> DEFINE p == Path(k, i - 1, "final")
      <4>1. p \in DOMAIN dir
        BY <3>1
      <4>2. dir[p].rows = manifest.shards[i] /\ dir[p].synced = Len(dir[p].rows)
        BY <2>2 DEF IInv, Published
      <4> QED BY <1>5, <4>1, <4>2
    <3> QED BY <1>1, <1>3, <3>1, <3>2 DEF Published
  <2> QED BY <2>1, <2>2
<1>9. Journaled'
  <2>1. CASE journal # None
    <3>1. journal \in Journals /\ Rested(journal) /\ (manifest = None => Backed(dir, journal))
      BY <2>1 DEF IInv, TypeOK, Journaled
    <3>2. manifest = None => Backed(dir', journal)
      <4>1. ASSUME NEW p \in DOMAIN dir
            PROVE  Placed(p, dir[p]) /\ Placed(p, dir'[p]) /\ dir[p].synced <= dir'[p].synced
        <5>1. Placed(p, dir[p])
          BY <4>1 DEF IInv
        <5>2. dir[p].synced \in Nat
          BY <5>1 DEF Placed, Files
        <5>3. Placed(p, dir'[p]) /\ dir'[p].synced = dir[p].synced
          BY <1>5
        <5> QED BY <5>1, <5>2, <5>3
      <4> QED BY <1>3, <3>1, <4>1, BackedGrows
    <3> QED BY <1>1, <2>1, <3>1, <3>2 DEF Journaled, Working
  <2>2. CASE journal = None /\ manifest = None
    <3>1. dir = <<>> /\ "manifest" \notin temps
      BY <2>2 DEF IInv, Journaled
    <3>2. dir' = [p \in {} |-> lose(p, lost[p[1]])]
      BY <1>2, <3>1
    <3>3. dir' = <<>>
      BY <3>2
    <3> QED BY <1>1, <1>4, <2>2, <3>1, <3>3 DEF Journaled
  <2>3. CASE journal = None /\ manifest # None
    BY <1>1, <2>3 DEF Journaled
  <2> QED BY <2>1, <2>2, <2>3
<1>10. Memory'
  BY <1>1 DEF Memory, Working, Publishing
<1>11. Directory' /\ Temporaries'
  BY <1>1, <1>4 DEF Directory, Temporaries, Working, Publishing
<1> QED BY <1>1, <1>6, <1>7, <1>8, <1>9, <1>10, <1>11 DEF IInv

\* A step that changes nothing changes nothing.
LEMMA StutterStep == ASSUME IInv, UNCHANGED vars PROVE IInv'
<1>1. UNCHANGED <<pc, at, finishing, fed, buf, documents, content, rows, masked, shards, digest,
                  opened, dirty, cursor, dir, journal, manifest, temps, faults>>
  BY DEF vars, memory, disk
<1>2. TypeOK' /\ \A p \in DOMAIN dir' : Placed(p, dir'[p])
  BY <1>1 DEF IInv, TypeOK
<1>3. Published' /\ Journaled'
  BY <1>1 DEF IInv, Published, Journaled, JournalPayload
<1>4. Memory'
  BY <1>1 DEF IInv, Memory, JournalPayload, RowReady
<1>5. Directory' /\ Temporaries'
  BY <1>1 DEF IInv, Directory, Temporaries, OpenFiles, Sealed, SealedHold, Part, Final, Exists, Kept
<1> QED BY <1>1, <1>2, <1>3, <1>4, <1>5 DEF IInv

\* The invariant holds before the first construction.
LEMMA InitInvariant == Init => IInv
<1> SUFFICES ASSUME Init PROVE IInv
  OBVIOUS
<1>1. TypeOK
  <2>1. finishing \in BOOLEAN /\ opened \in BOOLEAN /\ dirty \in BOOLEAN
    BY Zenon DEF Init
  <2>2. DOMAIN dir = {}
    BY DEF Init
  <2>3. 0 \in 0..NumDocs
    BY Dimensions
  <2> QED BY <2>1, <2>2, <2>3 DEF Init, TypeOK, Labels, Kinds
<1>2. \A p \in DOMAIN dir : Placed(p, dir[p])
  <2>1. DOMAIN dir = {}
    BY DEF Init
  <2> QED BY <2>1
<1>3. Published /\ Journaled /\ Memory /\ Directory /\ Temporaries /\ pc # "refused"
  BY DEF Init, Published, Journaled, Memory, Directory, Temporaries, Working, Publishing
<1> QED BY <1>1, <1>2, <1>3 DEF IInv

\* Every step keeps the invariant.
LEMMA NextInvariant == IInv /\ [Next]_vars => IInv'
<1> SUFFICES ASSUME IInv, [Next]_vars PROVE IInv'
  OBVIOUS
<1>1. CASE Boot
  BY <1>1, StartStep, BootFreshStep, ResumeFinishedStep, ResumeJournalStep, RestorePartStep,
     TruncatePartStep, SweepOneStep, SweepDoneStep DEF Boot
<1>2. CASE Caller
  BY <1>2, AddDocumentStep, CheckpointStep, FinishStep DEF Caller
<1>3. CASE Drain
  <2>1. CASE SealRename
    <3>1. at \in {"tokens", "starts"}
      BY DEF IInv, TypeOK, Kinds
    <3> QED BY <2>1, <3>1, SealRenameTokens, SealRenameStarts
  <2> QED BY <1>3, <2>1, CreatePartsStep, WriteBatchStep, DrainedStep, SealSyncStep DEF Drain
<1>4. CASE Journal
  BY <1>4, SyncOpenShardStep, WriteJournalTemporaryStep, ReplaceJournalStep, JournalWrittenStep
     DEF Journal
<1>5. CASE Publication
  BY <1>5, WriteManifestTemporaryStep, ReplaceManifestStep, UnlinkJournalStep DEF Publication
<1>6. CASE JournalRaises
  BY <1>6, JournalRaisesStep
<1>7. CASE Crash
  BY <1>7, CrashStep
<1>8. CASE Closed \/ UNCHANGED vars
  BY <1>8, StutterStep DEF Closed
<1> QED BY <1>1, <1>2, <1>3, <1>4, <1>5, <1>6, <1>7, <1>8 DEF Next, Progress
-----------------------------------------------------------------------------
(* The reference packing, and what commits say of it.                       *)

\* The shards of the reference: full ones, the last as long as what is left.
LEMMA PackingShards ==
    LET total == Promise!RowsIn(DocEnd[NumDocs])
        reference == Promise!Packing(NumDocs)
    IN  /\ total \in Nat /\ Promise!ShardsFor(total) \in Nat
        /\ reference \in Seq(Seq(Seq(Nat))) /\ Len(reference) = Promise!ShardsFor(total)
        /\ \A s \in 1..Len(reference) :
              /\ total - (s - 1) * RowsPerShard \in Nat
              /\ reference[s] = Ref(s - 1, IF s * RowsPerShard < total THEN RowsPerShard
                                           ELSE total - (s - 1) * RowsPerShard)
<1> DEFINE T == DocEnd[NumDocs]
           total == Promise!RowsIn(T)
           count == Promise!ShardsFor(total)
           size(s) == IF s * RowsPerShard < total THEN RowsPerShard ELSE total - (s - 1) * RowsPerShard
           reference == Promise!Packing(NumDocs)
<1>1. /\ T \in Nat /\ SeqLen \in Nat /\ SeqLen >= 2 /\ RowsPerShard \in Nat /\ RowsPerShard > 0
  BY Dimensions
<1>2. total \in Nat
  <2> HIDE DEF T
  <2>1. CASE T = 0
    BY <2>1 DEF Promise!RowsIn
  <2>2. CASE T # 0
    <3>1. T - 1 \in Nat
      BY <1>1, <2>2
    <3>2. (T - 1) \div SeqLen \in Nat
      BY <1>1, <3>1
    <3> QED BY <2>2, <3>2 DEF Promise!RowsIn
  <2> QED BY <2>1, <2>2
<1> HIDE DEF total
<1>3. count \in Nat /\ count * RowsPerShard <= total + RowsPerShard - 1
  <2> DEFINE x == total + RowsPerShard - 1
             q == x \div RowsPerShard
             m == x % RowsPerShard
  <2>1. x \in Nat
    BY <1>1, <1>2
  <2>2. count = q
    BY DEF Promise!ShardsFor
  <2> HIDE DEF x
  <2>3. q \in Nat /\ m \in 0..RowsPerShard - 1 /\ x = q * RowsPerShard + m
    BY <1>1, <2>1
  <2> HIDE DEF q, m, count
  <2>4. q * RowsPerShard \in Nat
    BY <1>1, <2>3
  <2>5. q * RowsPerShard <= x
    BY <1>1, <2>3, <2>4
  <2> QED BY <2>2, <2>3, <2>5 DEF x
<1> HIDE DEF count
<1>4. ASSUME NEW s \in 1..count
      PROVE  /\ size(s) \in Nat /\ total - (s - 1) * RowsPerShard \in Nat
             /\ Promise!RowRange((s - 1) * RowsPerShard,
                                 IF s * RowsPerShard < total THEN s * RowsPerShard ELSE total)
                  = Ref(s - 1, size(s))
  <2> DEFINE low == (s - 1) * RowsPerShard
             high == s * RowsPerShard
  <2>1. high = low + RowsPerShard /\ low \in Nat /\ high \in Nat
    <3>1. s \in Nat /\ s - 1 \in Nat
      BY <1>3
    <3>2. low \in Nat /\ high \in Nat
      BY <1>1, <3>1
    <3>3. high = low + RowsPerShard
      BY <1>1, <3>1
    <3> QED BY <3>2, <3>3
  <2>2. high <= count * RowsPerShard
    <3>1. PICK e \in Nat : count = s + e
      <4>1. count - s \in Nat /\ count = s + (count - s)
        BY <1>3
      <4> QED BY <4>1
    <3>2. count * RowsPerShard = high + e * RowsPerShard /\ e * RowsPerShard \in Nat
      BY <1>1, <3>1
    <3> HIDE DEF high
    <3> QED BY <2>1, <3>2
  <2>3. low <= total - 1
    <3>1. count * RowsPerShard \in Nat
      BY <1>1, <1>3
    <3> HIDE DEF low, high
    <3> QED BY <1>1, <1>2, <1>3, <2>1, <2>2, <3>1
  <2>4. total - low \in Nat /\ size(s) \in Nat
    <3>1. total - low \in Nat
      <4> HIDE DEF low
      <4> QED BY <1>2, <2>1, <2>3
    <3> QED BY <1>1, <3>1
  <2>5. (IF high < total THEN high ELSE total) - low = size(s)
    <3>1. CASE high < total
      <4>1. high - low = RowsPerShard
        <5> HIDE DEF low, high
        <5> QED BY <1>1, <2>1
      <4> QED BY <3>1, <4>1
    <3>2. CASE ~(high < total)
      BY <3>2
    <3> QED BY <3>1, <3>2
  <2> DEFINE end == IF high < total THEN high ELSE total
  <2>6. Promise!RowRange(low, end) = [k \in 1..end - low |-> Promise!Row(low + k - 1)]
    BY DEF Promise!RowRange
  <2>7. Ref(s - 1, size(s)) = [k \in 1..size(s) |-> Promise!Row(low + k - 1)]
    BY DEF Ref
  <2> HIDE DEF size, end
  <2> QED BY <2>4, <2>5, <2>6, <2>7 DEF end
<1>5. reference = [s \in 1..count |-> Ref(s - 1, size(s))]
  <2>1. reference = [s \in 1..count |->
            Promise!RowRange((s - 1) * RowsPerShard,
                             IF s * RowsPerShard < total THEN s * RowsPerShard ELSE total)]
    BY DEF Promise!Packing, total, count
  <2> HIDE DEF size
  <2> QED BY <1>4, <2>1
<1>6. \A s \in 1..count : Ref(s - 1, size(s)) \in Seq(Seq(Nat))
  <2>1. \A s \in 1..count : s - 1 \in Nat /\ size(s) \in Nat
    BY <1>3, <1>4
  <2> HIDE DEF size
  <2> QED BY <2>1, RefFacts
<1>7. /\ reference \in Seq(Seq(Seq(Nat))) /\ Len(reference) = count
      /\ \A s \in 1..count : reference[s] = Ref(s - 1, size(s))
  <2> HIDE DEF size, reference
  <2> QED BY <1>3, <1>5, <1>6
<1> QED BY <1>2, <1>3, <1>4, <1>7 DEF count, total

\* Shards that hold every row of the source are the reference packing.
LEMMA WholeIsPacking ==
    ASSUME NEW ss \in Seq(Seq(Seq(Nat))), NEW n, Whole(ss, n)
    PROVE  ss = Promise!Packing(NumDocs)
<1> DEFINE reference == Promise!Packing(NumDocs)
           total == Promise!RowsIn(DocEnd[NumDocs])
<1>1. /\ reference \in Seq(Seq(Seq(Nat))) /\ Len(reference) = Promise!ShardsFor(total)
      /\ \A s \in 1..Len(reference) :
            reference[s] = Ref(s - 1, IF s * RowsPerShard < total THEN RowsPerShard
                                      ELSE total - (s - 1) * RowsPerShard)
  BY PackingShards
<1>2. /\ Len(ss) = Len(reference)
      /\ \A s \in 1..Len(ss) :
            ss[s] = Ref(s - 1, IF s * RowsPerShard < total THEN RowsPerShard
                               ELSE total - (s - 1) * RowsPerShard)
  BY <1>1 DEF Whole
<1> HIDE DEF reference, total
<1>3. \A s \in 1..Len(ss) : ss[s] = reference[s]
  BY <1>1, <1>2
<1> QED BY <1>1, <1>2, <1>3, SeqEqual DEF reference

\* The rows of a journal are rows of the whole source.
LEMMA JournalRows ==
    ASSUME NEW j \in Journals, Rested(j)
    PROVE  j.rows <= Promise!RowsIn(DocEnd[NumDocs])
<1> DEFINE T == DocEnd[NumDocs]
           end == DocEnd[j.documents]
           product == j.rows * SeqLen
           carry == Len(j.carry)
<1>1. /\ j.documents \in 0..NumDocs /\ product + carry = end /\ j.rows \in Nat /\ carry \in Nat
      /\ (j.carry = <<>> => j.documents = 0) /\ j.carry \in Seq(Nat)
  BY DEF Journals, Rested, Stream
<1>2. T \in Nat /\ end \in Nat /\ end <= T /\ SeqLen \in Nat /\ SeqLen >= 2 /\ DocEnd[0] = 0
  <2>1. j.documents < NumDocs => end + 2 <= T
    BY <1>1, Dimensions
  <2>2. j.documents = NumDocs \/ j.documents < NumDocs
    BY <1>1, Dimensions
  <2>3. T \in Nat /\ end \in Nat
    BY <1>1, Dimensions
  <2>4. end <= T
    BY <2>1, <2>2, <2>3
  <2> QED BY <2>3, <2>4, Dimensions
<1>3. product \in Nat
  BY <1>1, <1>2
<1>4. CASE j.carry = <<>>
  <2>1. product = 0
    BY <1>1, <1>2, <1>3, <1>4
  <2>2. j.rows = 0
    BY <1>1, <1>2, <2>1
  <2> QED BY <2>2, PackingShards
<1>5. CASE j.carry # <<>>
  <2>1. carry >= 1
    BY <1>1, <1>5
  <2> HIDE DEF product, carry, end, T
  <2>2. T - 1 \in Nat /\ product <= T - 1 /\ T # 0
    BY <1>1, <1>2, <1>3, <2>1
  <2> DEFINE x == T - 1
             q == x \div SeqLen
             m == x % SeqLen
  <2>3. x \in Nat
    BY <2>2
  <2> HIDE DEF x
  <2>4. q \in Nat /\ m \in 0..SeqLen - 1 /\ x = q * SeqLen + m
    BY <1>2, <2>3
  <2>5. Promise!RowsIn(T) = q
    BY <2>2 DEF Promise!RowsIn, x
  <2> HIDE DEF q, m
  <2>6. j.rows <= q
    <3>1. SUFFICES ASSUME j.rows > q PROVE FALSE
      BY <1>1, <2>4
    <3>2. PICK e \in Nat : j.rows = q + 1 + e
      <4>1. j.rows - (q + 1) \in Nat /\ j.rows = q + 1 + (j.rows - (q + 1))
        BY <1>1, <2>4, <3>1
      <4> QED BY <4>1
    <3>3. j.rows * SeqLen = q * SeqLen + SeqLen + e * SeqLen
      BY <1>2, <2>4, <3>2
    <3>4. q * SeqLen \in Nat /\ e * SeqLen \in Nat /\ product = j.rows * SeqLen
      BY <1>2, <2>4, <3>2 DEF product
    <3>5. product <= x
      BY <2>2 DEF x
    <3> QED BY <1>2, <1>3, <2>3, <2>4, <3>3, <3>4, <3>5
  <2> QED BY <2>5, <2>6 DEF T
<1> QED BY <1>4, <1>5

\* There are shards enough for the rows: n full ones and l rows more among them.
LEMMA ShardsCover ==
    ASSUME NEW n \in Nat, NEW l \in Nat, NEW total \in Nat, n * RowsPerShard + l <= total
    PROVE  n <= Promise!ShardsFor(total) /\ (l > 0 => n < Promise!ShardsFor(total))
<1> DEFINE x == total + RowsPerShard - 1
           q == x \div RowsPerShard
           m == x % RowsPerShard
<1>1. RowsPerShard \in Nat /\ RowsPerShard > 0
  BY Dimensions
<1>2. x \in Nat
  BY <1>1
<1>3. Promise!ShardsFor(total) = q
  BY DEF Promise!ShardsFor
<1> HIDE DEF x
<1>4. q \in Nat /\ m \in 0..RowsPerShard - 1 /\ x = q * RowsPerShard + m
  BY <1>1, <1>2
<1> HIDE DEF q, m
<1>5. q * RowsPerShard \in Nat /\ n * RowsPerShard \in Nat
  BY <1>1, <1>4
<1>6. q * RowsPerShard >= total
  BY <1>1, <1>4, <1>5 DEF x
<1>7. n <= q
  <2>1. SUFFICES ASSUME n > q PROVE FALSE
    BY <1>4
  <2>2. PICK e \in Nat : n = q + 1 + e
    <3>1. n - (q + 1) \in Nat /\ n = q + 1 + (n - (q + 1))
      BY <1>4, <2>1
    <3> QED BY <3>1
  <2>3. n * RowsPerShard = q * RowsPerShard + RowsPerShard + e * RowsPerShard
    BY <1>1, <1>4, <2>2
  <2>4. e * RowsPerShard \in Nat
    BY <1>1, <2>2
  <2> QED BY <1>1, <1>5, <1>6, <2>3, <2>4
<1>8. l > 0 => n # q
  <2>1. SUFFICES ASSUME l > 0, n = q PROVE FALSE
    OBVIOUS
  <2>2. n * RowsPerShard = q * RowsPerShard
    BY <2>1
  <2> QED BY <1>5, <1>6, <2>1, <2>2
<1> QED BY <1>3, <1>4, <1>7, <1>8

\* What a journal commits is a prefix of the reference packing.
LEMMA JournalIsPrefix ==
    ASSUME NEW j \in Journals, Rested(j)
    PROVE  /\ Starts(j.shards, Promise!Packing(NumDocs))
           /\ j.open # <<>> => Starts(j.open, Promise!Packing(NumDocs)[Len(j.shards) + 1])
<1> DEFINE total == Promise!RowsIn(DocEnd[NumDocs])
           reference == Promise!Packing(NumDocs)
           n == Len(j.shards)
           l == Len(j.open)
           size(s) == IF s * RowsPerShard < total THEN RowsPerShard
                      ELSE total - (s - 1) * RowsPerShard
<1>1. /\ total \in Nat /\ reference \in Seq(Seq(Seq(Nat)))
      /\ Len(reference) = Promise!ShardsFor(total)
      /\ \A s \in 1..Len(reference) :
            total - (s - 1) * RowsPerShard \in Nat /\ reference[s] = Ref(s - 1, size(s))
  BY PackingShards
<1>2. /\ n \in Nat /\ l \in Nat /\ l <= RowsPerShard /\ j.rows \in Nat
      /\ j.rows = n * RowsPerShard + l /\ j.open = Ref(n, l)
      /\ j.shards \in Seq(Seq(Seq(Nat))) /\ j.open \in Seq(Seq(Nat))
      /\ \A s \in 1..n : j.shards[s] = Ref(s - 1, RowsPerShard)
  BY DEF Journals, Rested, Stream
<1>3. j.rows <= total
  BY JournalRows
<1>4. RowsPerShard \in Nat /\ RowsPerShard > 0
  BY Dimensions
<1> HIDE DEF total, reference, size, n, l
<1>5. n * RowsPerShard + l <= total /\ n * RowsPerShard \in Nat
  BY <1>2, <1>3, <1>4
<1>6. n <= Len(reference) /\ (l > 0 => n < Len(reference))
  BY <1>1, <1>2, <1>5, ShardsCover
<1>7. \A s \in 1..n : j.shards[s] = reference[s]
  <2>1. SUFFICES ASSUME NEW s \in 1..n PROVE j.shards[s] = reference[s]
    OBVIOUS
  <2>2. s \in 1..Len(reference)
    BY <1>1, <1>2, <1>6
  <2>3. size(s) = RowsPerShard
    <3>1. PICK e \in Nat : n = s + e
      <4>1. n - s \in Nat /\ n = s + (n - s)
        BY <1>2
      <4> QED BY <4>1
    <3>2. /\ n * RowsPerShard = s * RowsPerShard + e * RowsPerShard
          /\ e * RowsPerShard \in Nat /\ s * RowsPerShard \in Nat
          /\ s * RowsPerShard = (s - 1) * RowsPerShard + RowsPerShard
          /\ (s - 1) * RowsPerShard \in Nat
      BY <1>4, <3>1
    <3>3. s * RowsPerShard <= total
      BY <1>1, <1>2, <1>5, <3>2, SMTT(40)
    <3>4. CASE s * RowsPerShard < total
      BY <3>4 DEF size
    <3>5. CASE ~(s * RowsPerShard < total)
      <4>1. s * RowsPerShard = total
        BY <1>1, <3>2, <3>3, <3>5
      <4>2. total - (s - 1) * RowsPerShard = RowsPerShard
        BY <1>1, <1>4, <3>2, <4>1
      <4> QED BY <3>5, <4>2 DEF size
    <3> QED BY <3>4, <3>5
  <2> QED BY <1>1, <1>2, <2>2, <2>3
<1>8. Starts(j.shards, reference)
  <2> DEFINE first == SubSeq(reference, 1, n)
             committed == j.shards
  <2>1. /\ first \in Seq(Seq(Seq(Nat))) /\ Len(first) = n
        /\ \A s \in 1..n : first[s] = reference[s]
    BY <1>1, <1>2, <1>6
  <2>2. /\ committed \in Seq(Seq(Seq(Nat))) /\ Len(committed) = n
        /\ \A s \in 1..n : committed[s] = reference[s]
    BY <1>2, <1>7 DEF n
  <2> HIDE DEF first, committed
  <2>3. first = committed
    BY <2>1, <2>2, SeqEqual
  <2> QED BY <1>6, <2>3 DEF Starts, n, first, committed
<1>9. ASSUME j.open # <<>> PROVE Starts(j.open, reference[n + 1])
  <2>1. l > 0
    BY <1>2, <1>9 DEF l
  <2>2. n + 1 \in 1..Len(reference) /\ n + 1 - 1 = n
    BY <1>1, <1>2, <1>6, <2>1
  <2> DEFINE last == n + 1
  <2>3. reference[last] = Ref(n, size(last)) /\ total - n * RowsPerShard \in Nat
    <3>1. last \in 1..Len(reference) /\ last - 1 = n
      BY <1>2, <2>2 DEF last
    <3> HIDE DEF last
    <3>2. reference[last] = Ref(last - 1, size(last)) /\ total - (last - 1) * RowsPerShard \in Nat
      BY <1>1, <3>1
    <3> QED BY <3>1, <3>2
  <2>4. size(n + 1) \in Nat /\ l <= size(n + 1)
    <3>1. CASE (n + 1) * RowsPerShard < total
      BY <1>2, <1>4, <3>1 DEF size
    <3>2. CASE ~((n + 1) * RowsPerShard < total)
      <4>1. size(n + 1) = total - (n + 1 - 1) * RowsPerShard
        BY <1>1, <1>2, <1>4, <3>2 DEF size
      <4>2. size(n + 1) = total - n * RowsPerShard
        BY <2>2, <4>1
      <4> QED BY <1>1, <1>2, <1>5, <2>3, <4>2
    <3> QED BY <3>1, <3>2
  <2>5. Starts(Ref(n, l), Ref(n, size(n + 1)))
    BY <1>2, <2>4, RefPrefix
  <2> QED BY <1>2, <2>3, <2>5
<1> QED BY <1>8, <1>9 DEF reference, n

\* Published files hold the reference packing.
LEMMA ManifestIsReference ==
    ASSUME NEW m \in Manifests, NEW d, Whole(m.shards, m.rows),
           \A k \in Kinds : \A i \in 1..Len(m.shards) :
              d[Path(k, i - 1, "final")].rows = m.shards[i]
    PROVE  /\ m.shards = Promise!Packing(NumDocs)
           /\ [s \in 1..Len(m.shards) |-> d[Path("tokens", s - 1, "final")].rows]
                = Promise!Packing(NumDocs)
<1> DEFINE reference == Promise!Packing(NumDocs)
<1>1. m.shards \in Seq(Seq(Seq(Nat)))
  BY DEF Manifests
<1>2. m.shards = reference
  BY <1>1, WholeIsPacking
<1>3. \A s \in 1..Len(m.shards) : d[Path("tokens", s - 1, "final")].rows = m.shards[s]
  BY DEF Kinds
<1>4. reference = [s \in 1..Len(reference) |-> reference[s]]
  <2>1. reference \in Seq(Seq(Seq(Nat)))
    BY <1>1, <1>2
  <2> HIDE DEF reference
  <2> QED BY <2>1
<1> HIDE DEF reference
<1> QED BY <1>2, <1>3, <1>4 DEF reference

\* What commits say holds in every state of the invariant.
LEMMA CommitsFollow == IInv => CommitsHold
<1> SUFFICES ASSUME IInv PROVE CommitsHold
  OBVIOUS
<1>1. ASSUME journal # None PROVE journal \in Journals /\ Rested(journal)
  BY <1>1 DEF IInv, TypeOK, Journaled
<1>2. ASSUME manifest # None
      PROVE  /\ DOMAIN dir = {Path(k, i - 1, "final") :
                              k \in Kinds, i \in 1..Len(Promise!Packing(NumDocs))}
             /\ \A k \in Kinds : \A i \in 1..Len(Promise!Packing(NumDocs)) :
                   dir[Path(k, i - 1, "final")] =
                     [rows |-> Promise!Packing(NumDocs)[i],
                      synced |-> Len(Promise!Packing(NumDocs)[i])]
             /\ manifest.documents = NumDocs
             /\ manifest.masked = Cardinality(Boundaries(manifest.rows))
  <2>1. /\ manifest \in Manifests /\ Whole(manifest.shards, manifest.rows)
        /\ manifest.documents = NumDocs
        /\ manifest.masked = Cardinality(Boundaries(manifest.rows))
        /\ DOMAIN dir = {Path(k, i - 1, "final") : k \in Kinds, i \in 1..Len(manifest.shards)}
        /\ \A k \in Kinds : \A i \in 1..Len(manifest.shards) :
              /\ dir[Path(k, i - 1, "final")].rows = manifest.shards[i]
              /\ dir[Path(k, i - 1, "final")].synced = Len(manifest.shards[i])
    BY <1>2, SMTT(40) DEF IInv, TypeOK, Published
  <2>2. manifest.shards = Promise!Packing(NumDocs)
    BY <2>1, ManifestIsReference, SMTT(40)
  <2>3. \A p \in DOMAIN dir : dir[p] = [rows |-> dir[p].rows, synced |-> dir[p].synced]
    BY DEF IInv, Placed, Files
  <2>4. \A k \in Kinds : \A i \in 1..Len(manifest.shards) :
           dir[Path(k, i - 1, "final")] =
             [rows |-> manifest.shards[i], synced |-> Len(manifest.shards[i])]
    <3>1. SUFFICES ASSUME NEW k \in Kinds, NEW i \in 1..Len(manifest.shards)
                   PROVE  dir[Path(k, i - 1, "final")] =
                            [rows |-> manifest.shards[i], synced |-> Len(manifest.shards[i])]
      OBVIOUS
    <3> DEFINE p == Path(k, i - 1, "final")
    <3>2. p \in DOMAIN dir
      BY <2>1
    <3>3. dir[p].rows = manifest.shards[i] /\ dir[p].synced = Len(manifest.shards[i])
      BY <2>1
    <3> HIDE DEF p
    <3>4. dir[p] = [rows |-> manifest.shards[i], synced |-> Len(manifest.shards[i])]
      BY <2>3, <3>2, <3>3
    <3> QED BY <3>4 DEF p
  <2> QED BY <2>1, <2>2, <2>4
<1>3. PublishedIsReference
  <2>1. journal # None =>
          /\ Starts(journal.shards, Promise!Packing(NumDocs))
          /\ journal.open # <<>> =>
                Starts(journal.open, Promise!Packing(NumDocs)[Len(journal.shards) + 1])
    BY <1>1, JournalIsPrefix
  <2>2. manifest # None => manifest.masked = Cardinality({d \in 1..NumDocs - 1 :
                                              DocEnd[d] <= manifest.rows * SeqLen})
    BY <1>2 DEF Boundaries
  <2> QED BY <1>2, <2>1, <2>2 DEF PublishedIsReference
<1>4. CommittedRowsDurable
  <2>1. SUFFICES ASSUME journal # None, manifest = None, NEW k \in Kinds
                 PROVE  /\ \A i \in 1..Len(journal.shards) :
                              LET p == Path(k, i - 1, "final")
                              IN  Exists(p) /\ dir[p].synced = Len(journal.shards[i])
                        /\ journal.open # <<>> =>
                              \E place \in {"part", "final"} :
                                LET p == Path(k, Len(journal.shards), place)
                                IN  /\ Exists(p) /\ dir[p].synced >= Len(journal.open)
                                    /\ Starts(journal.open, dir[p].rows)
    BY DEF CommittedRowsDurable
  <2>2. journal \in Journals /\ Rested(journal) /\ Backed(dir, journal)
    BY <1>1, <2>1 DEF IInv, Journaled
  <2>3. \A p \in DOMAIN dir : Placed(p, dir[p])
    BY DEF IInv
  <2>4. \A i \in 1..Len(journal.shards) :
           /\ Path(k, i - 1, "final") \in DOMAIN dir
           /\ dir[Path(k, i - 1, "final")].synced = Len(journal.shards[i])
    <3>1. \A i \in 1..Len(journal.shards) :
             /\ Path(k, i - 1, "final") \in DOMAIN dir
             /\ dir[Path(k, i - 1, "final")].synced = RowsPerShard
             /\ Len(journal.shards[i]) = RowsPerShard
      BY <2>2, <2>3, BackedHolds
    <3> QED BY <3>1
  <2>5. ASSUME journal.open # <<>>
        PROVE  \E place \in {"part", "final"} :
                  /\ Path(k, Len(journal.shards), place) \in DOMAIN dir
                  /\ dir[Path(k, Len(journal.shards), place)].synced >= Len(journal.open)
                  /\ Starts(journal.open, dir[Path(k, Len(journal.shards), place)].rows)
    <3>1. PICK place \in {"part", "final"} :
             /\ Path(k, Len(journal.shards), place) \in DOMAIN dir
             /\ dir[Path(k, Len(journal.shards), place)].synced >= Len(journal.open)
      BY <2>2, <2>5 DEF Backed
    <3> DEFINE p == Path(k, Len(journal.shards), place)
               n == Len(journal.shards)
               l == Len(journal.open)
               f == dir[p]
    <3>2. n \in Nat /\ l \in Nat /\ journal.open = Ref(n, l)
      BY <2>2 DEF Journals, Rested, Stream
    <3>3. p[2] = n
      BY DEF Path
    <3>4. /\ f.rows \in Seq(Seq(Nat)) /\ f.synced \in Nat
          /\ f.rows = Ref(n, Len(f.rows)) /\ f.synced <= Len(f.rows)
      BY <2>3, <3>1, <3>3 DEF Placed, Files
    <3>5. f.synced >= l
      BY <3>1
    <3> HIDE DEF n, l, f
    <3>6. Len(f.rows) \in Nat /\ l <= Len(f.rows)
      BY <3>2, <3>4, <3>5
    <3>7. Starts(Ref(n, l), Ref(n, Len(f.rows)))
      BY <3>2, <3>6, RefPrefix
    <3>8. Starts(journal.open, f.rows)
      BY <3>2, <3>4, <3>7
    <3> QED BY <3>1, <3>8 DEF f
  <2> QED BY <2>4, <2>5 DEF Exists
<1> QED BY <1>3, <1>4 DEF CommitsHold

\* What a construction promises, in terms of its directory.
Committed == IF manifest # None THEN manifest.documents
             ELSE IF journal # None THEN journal.documents ELSE 0
InManifest == IF manifest = None THEN None
              ELSE [s \in 1..Len(manifest.shards) |->
                     dir[Path("tokens", s - 1, "final")].rows]

\* Once published, the promise is kept and nothing more happens to it.
LEMMA KeptPromise ==
    /\ IInv /\ manifest # None => Committed = NumDocs /\ InManifest = Promise!Packing(NumDocs)
    /\ IInv' /\ manifest' # None => Committed' = NumDocs /\ InManifest' = Promise!Packing(NumDocs)
<1>1. ASSUME IInv, manifest # None
      PROVE  Committed = NumDocs /\ InManifest = Promise!Packing(NumDocs)
  <2>1. /\ manifest \in Manifests /\ Whole(manifest.shards, manifest.rows)
        /\ manifest.documents = NumDocs
        /\ \A k \in Kinds : \A i \in 1..Len(manifest.shards) :
              dir[Path(k, i - 1, "final")].rows = manifest.shards[i]
    BY <1>1 DEF IInv, TypeOK, Published
  <2>2. [s \in 1..Len(manifest.shards) |-> dir[Path("tokens", s - 1, "final")].rows]
          = Promise!Packing(NumDocs)
    BY <2>1, ManifestIsReference
  <2> QED BY <1>1, <2>1, <2>2 DEF Committed, InManifest
<1>2. ASSUME IInv', manifest' # None
      PROVE  Committed' = NumDocs /\ InManifest' = Promise!Packing(NumDocs)
  <2>1. /\ manifest' \in Manifests /\ Whole(manifest'.shards, manifest'.rows)
        /\ manifest'.documents = NumDocs
        /\ \A k \in Kinds : \A i \in 1..Len(manifest'.shards) :
              dir'[Path(k, i - 1, "final")].rows = manifest'.shards[i]
    BY <1>2, SMTT(40) DEF IInv, TypeOK, Published
  <2>2. [s \in 1..Len(manifest'.shards) |-> dir'[Path("tokens", s - 1, "final")].rows]
          = Promise!Packing(NumDocs)
    BY <2>1, ManifestIsReference
  <2> QED BY <1>2, <2>1, <2>2 DEF Committed, InManifest
<1> QED BY <1>1, <1>2

\* A manifest stays, and a journal changes only where it is replaced.
LEMMA CommitPoints ==
    ASSUME IInv, [Next]_vars
    PROVE  /\ manifest # None => manifest' = manifest
           /\ manifest = None /\ manifest' = None =>
                 journal' = journal \/ (pc = "journal_replace" /\ journal' = JournalPayload)
<1>1. CASE Boot
  <2>1. CASE ResumeFinished
    BY <2>1 DEF ResumeFinished
  <2>2. CASE Start \/ BootFresh \/ ResumeJournal \/ RestorePart \/ TruncatePart \/ SweepOne \/ SweepDone
    BY <2>2 DEF Start, BootFresh, ResumeJournal, RestorePart, TruncatePart, SweepOne, SweepDone, disk
  <2> QED BY <1>1, <2>1, <2>2 DEF Boot
<1>2. CASE Caller
  BY <1>2 DEF Caller, AddDocument, Checkpoint, Finish, disk
<1>3. CASE Drain
  BY <1>3 DEF Drain, CreateParts, WriteBatch, Drained, SealSync, SealRename, disk
<1>4. CASE Journal
  BY <1>4 DEF Journal, SyncOpenShard, WriteJournalTemporary, ReplaceJournal, JournalWritten, disk
<1>5. CASE Publication
  BY <1>5 DEF Publication, WriteManifestTemporary, ReplaceManifest, UnlinkJournal, IInv, Published
<1>6. CASE JournalRaises
  BY <1>6 DEF JournalRaises
<1>7. CASE Crash
  BY <1>7 DEF Crash
<1>8. CASE Closed \/ UNCHANGED vars
  BY <1>8 DEF Closed, vars, disk
<1> QED BY <1>1, <1>2, <1>3, <1>4, <1>5, <1>6, <1>7, <1>8 DEF Next, Progress

\* Every step of a construction is a step of its promise: a longer prefix is
\* committed, the whole is published, or nothing that the promise sees happens.
LEMMA PromiseStep == IInv /\ IInv' /\ [Next]_vars => [Promise!Next]_(Promise!avars)
<1> SUFFICES ASSUME IInv, IInv', [Next]_vars PROVE [Promise!Next]_(Promise!avars)
  OBVIOUS
<1>1. CASE manifest # None
  <2>1. manifest' # None
    BY <1>1, CommitPoints
  <2>2. Committed = NumDocs /\ InManifest = Promise!Packing(NumDocs)
    BY <1>1, KeptPromise
  <2>3. Committed' = NumDocs /\ InManifest' = Promise!Packing(NumDocs)
    BY <2>1, KeptPromise
  <2> QED BY <2>2, <2>3 DEF Committed, InManifest, Promise!avars
<1>2. CASE manifest = None /\ manifest' # None
  <2>1. Committed' = NumDocs /\ InManifest' = Promise!Packing(NumDocs)
    BY <1>2, KeptPromise
  <2>2. InManifest = None
    BY <1>2 DEF InManifest
  <2>3. Promise!Publish
    BY <2>1, <2>2 DEF Committed, InManifest, Promise!Publish
  <2> QED BY <2>3 DEF Promise!Next
<1>3. CASE manifest = None /\ manifest' = None
  <2>1. InManifest = None /\ InManifest' = None
    BY <1>3 DEF InManifest
  <2>2. CASE journal' = journal
    <3>1. Committed' = Committed
      BY <1>3, <2>2 DEF Committed
    <3> QED BY <2>1, <3>1 DEF Committed, InManifest, Promise!avars
  <2>3. CASE pc = "journal_replace" /\ journal' = JournalPayload
    <3>1. Stream(JournalPayload) /\ documents \in Nat
      BY <2>3 DEF IInv, TypeOK, Memory, Working
    <3>2. documents \in 0..NumDocs
      BY <3>1 DEF Stream, JournalPayload
    <3>3. JournalPayload \in Journals
      BY DEF IInv, TypeOK, JournalPayload, Journals
    <3>4. journal' # None /\ Committed' = documents
      <4>1. journal' # None
        BY <2>3, <3>3, NoneAssumption
      <4>2. JournalPayload.documents = documents
        BY DEF JournalPayload
      <4> QED BY <1>3, <2>3, <4>1, <4>2 DEF Committed
    <3>5. Committed <= documents /\ Committed \in Nat
      <4>1. CASE journal = None
        BY <1>3, <3>2, <4>1 DEF Committed
      <4>2. CASE journal # None
        <5>1. journal \in Journals /\ journal.documents <= documents
          BY <1>3, <2>3, <4>2 DEF IInv, TypeOK, Journaled, Working
        <5>2. journal.documents \in Nat
          BY <5>1 DEF Journals
        <5> QED BY <1>3, <4>2, <5>1, <5>2 DEF Committed
      <4> QED BY <4>1, <4>2
    <3>6. documents \in Committed..NumDocs
      BY <3>2, <3>5, Dimensions
    <3>7. Promise!Commit
      BY <2>1, <3>4, <3>6 DEF Committed, InManifest, Promise!Commit
    <3> QED BY <3>7 DEF Promise!Next
  <2> QED BY <1>3, <2>2, <2>3, CommitPoints
<1> QED BY <1>1, <1>2, <1>3
-----------------------------------------------------------------------------
(* The theorems.                                                            *)

\* The invariant of a construction: whatever was interrupted, every file holds
\* the rows of its place and the journal is backed by stable storage.
THEOREM WriterInvariant == Spec => []IInv
<1>1. Init => IInv
  BY InitInvariant
<1>2. IInv /\ [Next]_vars => IInv'
  BY NextInvariant
<1> QED BY <1>1, <1>2, PTL DEF Spec

\* Unless a hard kill leaves the temporary of a manifest behind, no interruption
\* leaves a state that the checks of a resume reject.
THEOREM NeverRefused ==
    ASSUME ~ManifestTempSurvives
    PROVE  Spec => []ResumeNeverRefuses
<1>1. IInv => ResumeNeverRefuses
  BY DEF IInv, ResumeNeverRefuses
<1> QED BY <1>1, WriterInvariant, PTL

\* What a journal or a manifest vouches for is right and on stable storage.
THEOREM CommitsAlwaysHold == Spec => []CommitsHold
<1> QED BY CommitsFollow, WriterInvariant, PTL

\* The construction implements its promise.
THEOREM KeepsPromise == Spec => Promised
<1>1. Init => Promise!Init
  BY DEF Init, Promise!Init
<1> QED BY <1>1, WriterInvariant, PromiseStep, PTL DEF Spec, Promised, Promise!Spec
=============================================================================
