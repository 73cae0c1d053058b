------------------------------- MODULE Collection -------------------------------
(***************************************************************************)
(* What the collectors promise those who read the dataset root: archives   *)
(* are finalized once and never change, each is recorded after it exists,  *)
(* no document is in two of them, and a completion marker closes its       *)
(* source.  Pending files may come and go in a source that is still open.  *)
(***************************************************************************)
EXTENDS Integers, SequencesExt, FiniteSetsExt, Functions

CONSTANTS
    Shards,     \* Shards[source]: the source shards, each a sequence of rows
    Texts,      \* the English sources, named as their buckets
    Target,     \* Target[bucket] in tokens
    None

(* A row is a document where it stands in its source: [id, bucket, tokens, *)
(* text]; an archive is [bucket, index, rows].                             *)
Code == {"python", "other_code"}
Sources == {"stack"} \cup Texts
Buckets == Code \cup Texts
BucketsOf(s) == IF s = "stack" THEN Code ELSE {s}
RowsOf(s) == UNION {ToSet(shard) : shard \in ToSet(Shards[s])}
Rows == UNION {RowsOf(s) : s \in Sources}

ASSUME RowsAssumption ==
    /\ Texts \cap (Code \cup {"stack"}) = {} /\ IsFiniteSet(Texts)
    /\ \A s \in Sources :
         /\ Shards[s] \in Seq(Seq(RowsOf(s)))
         /\ \A r \in RowsOf(s) : r.bucket \in BucketsOf(s) /\ r.id \in Nat /\ r.tokens \in Nat
         /\ None \notin [BucketsOf(s) -> Nat]
         /\ \A k, l \in DOMAIN Shards[s] : \A i \in DOMAIN Shards[s][k], j \in DOMAIN Shards[s][l] :
               Shards[s][k][i] = Shards[s][l][j] => k = l /\ i = j

VARIABLES raw,       \* finalized archives
          ledger,    \* the archives described by quota records
          orphans,   \* buckets with a pending file that nothing refers to
          markers    \* completion marker of each source: the totals it states
collection == <<raw, ledger, orphans, markers>>

Name(a) == <<a.bucket, a.index>>
(* Tokens are counted one by one, each known by its row and its place.     *)
TokensIn(rows) == Cardinality(UNION {{r} \X (1..r.tokens) : r \in rows})
Tokens(archives, b) == TokensIn(UNION {a.rows : a \in {x \in archives : x.bucket = b}})
quota_status == [b \in Buckets |-> Tokens(ledger, b)]
Reached(totals, s) == \A b \in BucketsOf(s) : totals[b] >= Target[b]
Closed(b) == \E s \in Sources : b \in BucketsOf(s) /\ markers[s] # None

CollectionInit ==
    raw = {} /\ ledger = {} /\ orphans = {} /\ markers = [s \in Sources |-> None]

Finalize(a) ==
    /\ ~Closed(a.bucket) /\ a.rows # {}
    /\ \A f \in raw : Name(f) # Name(a) /\ f.rows \cap a.rows = {}
    /\ raw' = raw \cup {a}
    /\ UNCHANGED <<ledger, orphans, markers>>
Record(a) ==
    /\ a \in raw \ ledger
    /\ ledger' = ledger \cup {a}
    /\ UNCHANGED <<raw, orphans, markers>>
Close(s) ==
    /\ markers[s] = None /\ Reached(quota_status, s)
    /\ \A a \in raw \ ledger : a.bucket \notin BucketsOf(s)
    /\ markers' = [markers EXCEPT ![s] = [b \in BucketsOf(s) |-> quota_status[b]]]
    /\ UNCHANGED <<raw, ledger, orphans>>
LeavePending(bs) ==
    /\ \A b \in bs \ orphans : ~Closed(b)
    /\ orphans' = bs
    /\ UNCHANGED <<raw, ledger, markers>>

CollectionStep(archives, left) ==
    \/ \E a \in archives : Finalize(a) \/ Record(a)
    \/ \E s \in Sources : Close(s)
    \/ \E bs \in SUBSET left : LeavePending(bs)
=============================================================================
