------------------------------ MODULE Intake_proofs ------------------------------
(***************************************************************************)
(* Proofs about acquisition, for any archives, workers, faults and         *)
(* troubles.                                                               *)
(***************************************************************************)
EXTENDS Intake, FiniteSetTheorems, SequenceTheorems, WellFoundedInduction, TLAPS

-----------------------------------------------------------------------------
(* Counting.                                                               *)

\* A finite family of finite sets has a finite union.
LEMMA FiniteUnion ==
    ASSUME NEW S, IsFiniteSet(S), NEW f, \A x \in S : IsFiniteSet(f[x])
    PROVE  IsFiniteSet(UNION {f[x] : x \in S})
<1> DEFINE T == {f[x] : x \in S}
           g == [x \in S |-> f[x]]
<1>1. g \in Surjection(S, T)
  BY DEF Surjection
<1>2. IsFiniteSet(T)
  BY <1>1, FS_Surjection
<1> QED BY <1>2, FS_UNION

\* A set of numbers that is not empty has a least one.
LEMMA LeastNatural ==
    ASSUME NEW S, S \subseteq Nat, S # {}
    PROVE  \E n \in S : \A m \in S : n <= m
<1>1. \E n \in S : \A m \in S : <<m, n>> \notin OpToRel(<, Nat)
  BY NatLessThanWellFounded, WFMin
<1>2. PICK n \in S : \A m \in S : <<m, n>> \notin OpToRel(<, Nat)
  BY <1>1
<1>3. ASSUME NEW m \in S PROVE n <= m
  <2>1. m \in Nat /\ n \in Nat
    OBVIOUS
  <2>2. m < n => <<m, n>> \in OpToRel(<, Nat)
    BY <2>1 DEF OpToRel
  <2>3. <<m, n>> \notin OpToRel(<, Nat)
    BY <1>2, <1>3, Zenon
  <2>4. ~(m < n)
    BY <2>2, <2>3, Zenon
  <2> QED BY <2>1, <2>4
<1> QED BY <1>3

\* The operator Min gives it.
LEMMA MinFacts ==
    ASSUME NEW S, S \subseteq Nat, S # {}
    PROVE  Min(S) \in S /\ \A m \in S : Min(S) <= m
BY LeastNatural DEF Min

\* An element below all others is the least.
LEMMA MinIs ==
    ASSUME NEW S, S \subseteq Nat, NEW n \in S, \A m \in S : n <= m
    PROVE  Min(S) = n
<1>1. Min(S) \in S /\ \A m \in S : Min(S) <= m
  BY MinFacts
<1>2. Min(S) <= n /\ n <= Min(S) /\ Min(S) \in Nat /\ n \in Nat
  BY <1>1
<1> QED BY <1>2

\* The least of two sets is the lesser of the two least.
LEMMA MinUnion ==
    ASSUME NEW S, NEW T, S \subseteq Nat, T \subseteq Nat, S # {}, T # {}
    PROVE  Min(S \cup T) = Min({Min(S), Min(T)})
<1>1. Min(S) \in S /\ (\A m \in S : Min(S) <= m) /\ Min(T) \in T /\ (\A m \in T : Min(T) <= m)
  BY MinFacts
<1> DEFINE x == Min(S)
           y == Min(T)
<1>2. x \in Nat /\ y \in Nat /\ x \in S /\ y \in T /\ (\A m \in S : x <= m) /\ (\A m \in T : y <= m)
  BY <1>1
<1> HIDE DEF x, y
<1>3. CASE x <= y
  <2>1. \A m \in S \cup T : x <= m
    BY <1>2, <1>3
  <2>2. Min(S \cup T) = x
    BY <1>2, <2>1, MinIs
  <2>3. Min({x, y}) = x
    BY <1>2, <1>3, MinIs
  <2> QED BY <2>2, <2>3 DEF x, y
<1>4. CASE y <= x
  <2>1. \A m \in S \cup T : y <= m
    BY <1>2, <1>4
  <2>2. Min(S \cup T) = y
    BY <1>2, <2>1, MinIs
  <2>3. Min({x, y}) = y
    BY <1>2, <1>4, MinIs
  <2> QED BY <2>2, <2>3 DEF x, y
<1> QED BY <1>2, <1>3, <1>4

TokenSet(rows) == UNION {{r} \X (1..r.tokens) : r \in rows}
Counted(rows) == IsFiniteSet(rows) /\ \A r \in rows : r.tokens \in Nat

\* The tokens of finitely many rows are finitely many.
LEMMA TokensFinite ==
    ASSUME NEW rows, Counted(rows)
    PROVE  IsFiniteSet(TokenSet(rows)) /\ TokensIn(rows) = Cardinality(TokenSet(rows))
           /\ TokensIn(rows) \in Nat
<1> DEFINE f == [r \in rows |-> {r} \X (1..r.tokens)]
<1>1. ASSUME NEW r \in rows PROVE IsFiniteSet(f[r])
  <2> DEFINE q == r.tokens
  <2>1. q \in Int /\ 1 \in Int
    BY DEF Counted
  <2>2. IsFiniteSet(1..q)
    <3> HIDE DEF q
    <3> QED BY <2>1, FS_Interval
  <2>3. IsFiniteSet({r})
    BY FS_Singleton
  <2>4. IsFiniteSet({r} \X (1..q))
    <3> HIDE DEF q
    <3> QED BY <2>2, <2>3, FS_Product
  <2> QED BY <2>4
<1>2. TokenSet(rows) = UNION {f[r] : r \in rows}
  BY DEF TokenSet
<1>3. IsFiniteSet(TokenSet(rows))
  <2> HIDE DEF f
  <2> QED BY <1>1, <1>2, FiniteUnion DEF Counted
<1> QED BY <1>3, FS_CardinalityType DEF TokensIn, TokenSet

\* The tokens of two sets of rows that share none add up.
LEMMA TokensSplit ==
    ASSUME NEW S, NEW T, Counted(S), Counted(T), S \cap T = {}
    PROVE  TokensIn(S \cup T) = TokensIn(S) + TokensIn(T) /\ Counted(S \cup T)
<1>1. Counted(S \cup T)
  BY FS_Union DEF Counted
<1>2. TokenSet(S \cup T) = TokenSet(S) \cup TokenSet(T) /\ TokenSet(S) \cap TokenSet(T) = {}
  BY DEF TokenSet
<1>3. Cardinality(TokenSet(S) \cup TokenSet(T)) =
        Cardinality(TokenSet(S)) + Cardinality(TokenSet(T)) - Cardinality(TokenSet(S) \cap TokenSet(T))
  BY TokensFinite, FS_Union
<1>4. Cardinality(TokenSet(S) \cap TokenSet(T)) = 0
  BY <1>2, FS_EmptySet
<1>5. TokensIn(S) = Cardinality(TokenSet(S)) /\ TokensIn(T) = Cardinality(TokenSet(T))
      /\ TokensIn(S) \in Nat /\ TokensIn(T) \in Nat
      /\ TokensIn(S \cup T) = Cardinality(TokenSet(S \cup T))
  BY <1>1, TokensFinite
<1>6. TokensIn(S \cup T) = Cardinality(TokenSet(S) \cup TokenSet(T))
  BY <1>2, <1>5
<1> DEFINE n == Cardinality(TokenSet(S) \cap TokenSet(T))
<1>7. n = 0 /\ TokensIn(S \cup T) = TokensIn(S) + TokensIn(T) - n
  BY <1>3, <1>4, <1>5, <1>6
<1>8. TokensIn(S \cup T) = TokensIn(S) + TokensIn(T)
  <2> HIDE DEF n
  <2> QED BY <1>5, <1>7
<1> QED BY <1>1, <1>8

-----------------------------------------------------------------------------
(* The dedup index.                                                        *)
WholeArchive(a) ==
    IsFiniteSet(a.rows) /\ \A r \in a.rows : r.id \in Nat /\ r.tokens \in Nat
Whole(archives) == IsFiniteSet(archives) /\ \A a \in archives : WholeArchive(a)
RowsAt(archives) == UNION {a.rows : a \in archives}
With(archives, t) == {r \in RowsAt(archives) : r.text = t}
TextsAt(archives) == UNION {TextsIn(a) : a \in archives}

\* Finitely many archives have finitely many rows and texts.
LEMMA WholeFacts ==
    ASSUME NEW A, Whole(A)
    PROVE  /\ Counted(RowsAt(A)) /\ IsFiniteSet(TextsAt(A))
           /\ \A t : /\ Counted(With(A, t)) /\ {r.id : r \in With(A, t)} \subseteq Nat
                     /\ With(A, t) # {} <=> t \in TextsAt(A)
<1>1. IsFiniteSet(RowsAt(A))
  <2> DEFINE f == [a \in A |-> a.rows]
  <2>1. IsFiniteSet(A) /\ \A a \in A : IsFiniteSet(f[a])
    BY DEF Whole, WholeArchive
  <2>2. RowsAt(A) = UNION {f[a] : a \in A}
    BY DEF RowsAt
  <2> HIDE DEF f
  <2> QED BY <2>1, <2>2, FiniteUnion
<1>2. \A r \in RowsAt(A) : r.id \in Nat /\ r.tokens \in Nat
  BY DEF RowsAt, Whole, WholeArchive
<1>3. IsFiniteSet(TextsAt(A))
  <2> DEFINE f == [r \in RowsAt(A) |-> r.text]
  <2>1. f \in [RowsAt(A) -> TextsAt(A)]
    BY DEF RowsAt, TextsAt, TextsIn
  <2>2. ASSUME NEW t \in TextsAt(A) PROVE \E r \in RowsAt(A) : f[r] = t
    <3>1. PICK a \in A : t \in TextsIn(a)
      BY DEF TextsAt
    <3>2. PICK r \in a.rows : t = r.text
      BY <3>1 DEF TextsIn
    <3>3. r \in RowsAt(A)
      BY <3>2 DEF RowsAt
    <3> QED BY <3>2, <3>3
  <2>3. f \in Surjection(RowsAt(A), TextsAt(A))
    BY <2>1, <2>2 DEF Surjection
  <2> QED BY <1>1, <2>3, FS_Surjection
<1>4. ASSUME NEW t PROVE /\ Counted(With(A, t)) /\ {r.id : r \in With(A, t)} \subseteq Nat
                         /\ With(A, t) # {} <=> t \in TextsAt(A)
  <2>1. With(A, t) \in SUBSET RowsAt(A)
    BY DEF With
  <2>2. IsFiniteSet(With(A, t))
    BY <1>1, <2>1, FS_Subset
  <2> QED BY <1>2, <2>1, <2>2 DEF Counted, With, RowsAt, TextsAt, TextsIn
<1> QED BY <1>1, <1>2, <1>3, <1>4 DEF Counted

\* A cluster of archives and of one more.
LEMMA ClusterAdds ==
    ASSUME NEW A, NEW a, Whole(A), WholeArchive(a), RowsAt(A) \cap a.rows = {},
           NEW t \in TextsAt(A), t \in TextsIn(a)
    PROVE  Cluster(A \cup {a}, t) = Merge(Cluster(A, t), Cluster({a}, t))
<1> DEFINE S == With(A, t)
           T == With({a}, t)
<1>1. Whole({a})
  BY FS_Singleton DEF Whole
<1>2. Counted(S) /\ Counted(T) /\ {r.id : r \in S} \subseteq Nat /\ {r.id : r \in T} \subseteq Nat
      /\ S # {} /\ T # {}
  <2>1. Counted(S) /\ {r.id : r \in S} \subseteq Nat /\ S # {}
    BY WholeFacts
  <2>2. t \in TextsAt({a})
    BY DEF TextsAt
  <2>3. Counted(T) /\ {r.id : r \in T} \subseteq Nat /\ T # {}
    BY <1>1, <2>2, WholeFacts
  <2> QED BY <2>1, <2>3
<1>3. With(A \cup {a}, t) = S \cup T /\ S \cap T = {}
  BY DEF With, RowsAt
<1>4. /\ Cluster(A \cup {a}, t) = [first |-> Min({r.id : r \in S \cup T}),
                                   documents |-> Cardinality(S \cup T),
                                   tokens |-> TokensIn(S \cup T)]
      /\ Cluster(A, t) = [first |-> Min({r.id : r \in S}), documents |-> Cardinality(S),
                          tokens |-> TokensIn(S)]
      /\ Cluster({a}, t) = [first |-> Min({r.id : r \in T}), documents |-> Cardinality(T),
                            tokens |-> TokensIn(T)]
  <2>1. \A C, u : Cluster(C, u) = [first |-> Min({r.id : r \in With(C, u)}),
                                   documents |-> Cardinality(With(C, u)),
                                   tokens |-> TokensIn(With(C, u))]
    BY DEF Cluster, With, RowsAt
  <2> QED BY <1>3, <2>1
<1> HIDE DEF S, T
<1>5. {r.id : r \in S \cup T} = {r.id : r \in S} \cup {r.id : r \in T}
      /\ {r.id : r \in S} # {} /\ {r.id : r \in T} # {}
  BY <1>2
<1>6. Min({r.id : r \in S \cup T}) = Min({Min({r.id : r \in S}), Min({r.id : r \in T})})
  BY <1>2, <1>5, MinUnion
<1>7. Cardinality(S \cup T) = Cardinality(S) + Cardinality(T)
  <2>1. Cardinality(S \cup T) = Cardinality(S) + Cardinality(T) - Cardinality(S \cap T)
    BY <1>2, FS_Union DEF Counted
  <2>2. Cardinality(S \cap T) = 0
    BY <1>3, FS_EmptySet
  <2>3. Cardinality(S) \in Nat /\ Cardinality(T) \in Nat
    BY <1>2, FS_CardinalityType DEF Counted
  <2> QED BY <2>1, <2>2, <2>3
<1>8. TokensIn(S \cup T) = TokensIn(S) + TokensIn(T)
  BY <1>2, <1>3, TokensSplit
<1> DEFINE x == Cluster(A, t)
           y == Cluster({a}, t)
<1>9. x.first = Min({r.id : r \in S}) /\ x.documents = Cardinality(S) /\ x.tokens = TokensIn(S)
  <2>1. x = [first |-> Min({r.id : r \in S}), documents |-> Cardinality(S), tokens |-> TokensIn(S)]
    BY <1>4
  <2> HIDE DEF x
  <2> QED BY <2>1
<1>10. y.first = Min({r.id : r \in T}) /\ y.documents = Cardinality(T) /\ y.tokens = TokensIn(T)
  <2>1. y = [first |-> Min({r.id : r \in T}), documents |-> Cardinality(T), tokens |-> TokensIn(T)]
    BY <1>4
  <2> HIDE DEF y
  <2> QED BY <2>1
<1>11. Merge(x, y) = [first |-> Min({x.first, y.first}), documents |-> x.documents + y.documents,
                      tokens |-> x.tokens + y.tokens]
  BY DEF Merge
<1> HIDE DEF x, y
<1>12. Cluster(A \cup {a}, t) = Merge(x, y)
  BY <1>4, <1>6, <1>7, <1>8, <1>9, <1>10, <1>11
<1> QED BY <1>12 DEF x, y

\* What ingesting an archive does to the clusters.
LEMMA UpsertExact ==
    ASSUME NEW A, NEW a, Whole(A), WholeArchive(a), RowsAt(A) \cap a.rows = {},
           NEW clusters, DOMAIN clusters = TextsAt(A), \A t \in TextsAt(A) : clusters[t] = Cluster(A, t)
    PROVE  /\ DOMAIN Upsert(clusters, a) = TextsAt(A \cup {a})
           /\ \A t \in TextsAt(A \cup {a}) : Upsert(clusters, a)[t] = Cluster(A \cup {a}, t)
<1>1. TextsAt(A \cup {a}) = TextsAt(A) \cup TextsIn(a)
  BY DEF TextsAt
<1>2. DOMAIN Upsert(clusters, a) = TextsAt(A \cup {a})
  BY <1>1 DEF Upsert
<1>3. \A C, u : Cluster(C, u) = [first |-> Min({r.id : r \in With(C, u)}),
                                documents |-> Cardinality(With(C, u)),
                                tokens |-> TokensIn(With(C, u))]
  BY DEF Cluster, With, RowsAt
<1>4. ASSUME NEW t \in TextsAt(A \cup {a})
      PROVE  Upsert(clusters, a)[t] = Cluster(A \cup {a}, t)
  <2>1. t \in DOMAIN clusters \cup TextsIn(a)
    BY <1>1
  <2>2. CASE t \notin TextsIn(a)
    <3>1. With(A \cup {a}, t) = With(A, t)
      BY <2>2 DEF With, RowsAt, TextsIn
    <3>2. Cluster(A \cup {a}, t) = Cluster(A, t)
      BY <1>3, <3>1
    <3>3. Upsert(clusters, a)[t] = clusters[t]
      BY <2>1, <2>2 DEF Upsert
    <3> QED BY <2>1, <2>2, <3>2, <3>3
  <2>3. CASE t \in TextsIn(a) /\ t \notin DOMAIN clusters
    <3>1. With(A \cup {a}, t) = With({a}, t)
      BY <2>3 DEF With, RowsAt, TextsAt, TextsIn
    <3>2. Cluster(A \cup {a}, t) = Cluster({a}, t)
      BY <1>3, <3>1
    <3>3. Upsert(clusters, a)[t] = Cluster({a}, t)
      BY <2>1, <2>3 DEF Upsert
    <3> QED BY <3>2, <3>3
  <2>4. CASE t \in TextsIn(a) /\ t \in DOMAIN clusters
    <3>1. Upsert(clusters, a)[t] = Merge(clusters[t], Cluster({a}, t))
      BY <2>1, <2>4 DEF Upsert
    <3>2. Cluster(A \cup {a}, t) = Merge(Cluster(A, t), Cluster({a}, t))
      BY <2>4, ClusterAdds
    <3> QED BY <2>4, <3>1, <3>2
  <2> QED BY <2>2, <2>3, <2>4
<1> QED BY <1>2, <1>4

\* What it does to the number of documents beyond the first of each text.
LEMMA DuplicatesExact ==
    ASSUME NEW A, NEW a, Whole(A), WholeArchive(a), RowsAt(A) \cap a.rows = {}
    PROVE  Cardinality(RowsAt(A)) - Cardinality(TextsAt(A)) + Cardinality(a.rows)
               - Cardinality(TextsIn(a) \ TextsAt(A))
             = Cardinality(RowsAt(A \cup {a})) - Cardinality(TextsAt(A \cup {a}))
<1> DEFINE new == TextsIn(a) \ TextsAt(A)
<1>1. RowsAt(A \cup {a}) = RowsAt(A) \cup a.rows /\ TextsAt(A \cup {a}) = TextsAt(A) \cup new
  BY DEF RowsAt, TextsAt
<1>2. IsFiniteSet(RowsAt(A)) /\ IsFiniteSet(TextsAt(A)) /\ IsFiniteSet(a.rows)
  BY WholeFacts DEF Counted, WholeArchive
<1>3. IsFiniteSet(new)
  <2>1. Whole({a})
    BY FS_Singleton DEF Whole
  <2>2. IsFiniteSet(TextsIn(a))
    BY <2>1, WholeFacts DEF TextsAt
  <2> QED BY <2>2, FS_Difference
<1>4. TextsAt(A) \cap new = {}
  OBVIOUS
<1> DEFINE x == Cardinality(RowsAt(A))
           y == Cardinality(TextsAt(A))
           u == Cardinality(a.rows)
           v == Cardinality(new)
<1>5. x \in Nat /\ y \in Nat /\ u \in Nat /\ v \in Nat
  BY <1>2, <1>3, FS_CardinalityType
<1>6. Cardinality(RowsAt(A) \cup a.rows) = x + u - Cardinality(RowsAt(A) \cap a.rows)
  BY <1>2, FS_Union
<1>7. Cardinality(TextsAt(A) \cup new) = y + v - Cardinality(TextsAt(A) \cap new)
  <2> HIDE DEF new
  <2> QED BY <1>2, <1>3, FS_Union
<1>8. Cardinality(RowsAt(A) \cap a.rows) = 0 /\ Cardinality(TextsAt(A) \cap new) = 0
  BY <1>4, FS_EmptySet
<1>9. Cardinality(RowsAt(A \cup {a})) = x + u - 0 /\ Cardinality(TextsAt(A \cup {a})) = y + v - 0
  BY <1>1, <1>6, <1>7, <1>8
<1>10. x - y + u - v = Cardinality(RowsAt(A \cup {a})) - Cardinality(TextsAt(A \cup {a}))
  <2> HIDE DEF x, y, u, v, new
  <2> QED BY <1>5, <1>9
<1> QED BY <1>10

-----------------------------------------------------------------------------
(* The audit of a growing collection.  Its inductive invariant: archives   *)
(* are told apart by name and share no rows; what the process holds in     *)
(* memory is recorded and not yet reported; the snapshot taken before the  *)
(* gate's second reading is a lower view of what it will find.             *)
Growing ==
    /\ raw \subseteq Grown /\ IsFiniteSet(raw) /\ ledger \subseteq raw
    /\ \A a, b \in raw : a # b => Name(a) # Name(b) /\ a.rows \cap b.rows = {}
(* The preprocessor's memory, and what it is in the middle of.             *)
Memory ==
    pre \in [place : {"off", "index", "archives", "fingerprint", "report", "ingest", "snapshot",
                      "closure"},
             mode : {"inline", "deferred", "only"}, retry : BOOLEAN, todo : SUBSET Grown,
             at : Grown \cup {None},
             snapshot : [audited : BOOLEAN, ledger : SUBSET Grown, indexed : BOOLEAN] \cup {None}]
InPlace ==
    /\ pre.todo \subseteq ledger \ reports
    /\ pre.place \in {"fingerprint", "report"} =>
          pre.at \in (ledger \cap fingerprints) \ (reports \cup pre.todo)
    /\ pre.place = "report" => Name(pre.at) \notin errors
    /\ pre.place = "ingest" => pre.at \in reports
Seen ==
    pre.place = "closure" =>
      /\ pre.snapshot.ledger \subseteq ledger
      /\ pre.snapshot.audited => reports = pre.snapshot.ledger /\ errors = {}
      /\ pre.snapshot.indexed => pre.mode = "deferred" \/ index.archives = reports
Passing ==
    passed # None =>
      /\ pre.place = "off" /\ passed.ledger \subseteq ledger
      /\ passed.ledger = ledger => GateMeansAudited
AuditInvariant ==
    /\ scene \in {"collect", "preprocess"}
    /\ AuditTrailExact
    /\ scene = "collect" => PreprocessInit
    /\ scene = "preprocess" => Growing /\ Memory /\ InPlace /\ Seen /\ Passing

\* Archives of the growing collection are whole and apart.
LEMMA GrownWhole ==
    ASSUME Growing
    PROVE  \A A \in SUBSET raw :
              Whole(A) /\ \A a \in raw \ A : WholeArchive(a) /\ RowsAt(A) \cap a.rows = {}
<1>1. ASSUME NEW a \in raw PROVE WholeArchive(a)
  <2>1. a \in Grown
    BY DEF Growing
  <2>2. IsFiniteSet(a.rows) /\ a.rows \subseteq Rows
    BY <2>1, GrownAssumption
  <2>3. ASSUME NEW r \in Rows PROVE r.id \in Nat /\ r.tokens \in Nat
    <3>1. PICK s \in Sources : r \in RowsOf(s)
      BY DEF Rows
    <3> QED BY <3>1, RowsAssumption
  <2> QED BY <2>2, <2>3 DEF WholeArchive
<1>2. ASSUME NEW A \in SUBSET raw
      PROVE  Whole(A) /\ \A a \in raw \ A : WholeArchive(a) /\ RowsAt(A) \cap a.rows = {}
  <2>1. IsFiniteSet(A)
    BY FS_Subset DEF Growing
  <2>2. \A a \in raw \ A : RowsAt(A) \cap a.rows = {}
    BY DEF Growing, RowsAt
  <2> QED BY <1>1, <2>1, <2>2 DEF Whole
<1> QED BY <1>2

\* Ingesting a reported archive keeps the trail exact.
LEMMA IngestKeeps ==
    ASSUME Growing, AuditTrailExact, NEW a \in reports, Ingest(a), UNCHANGED <<published, ledger>>
    PROVE  AuditTrailExact'
<1>1. fingerprints' = fingerprints /\ reports' = reports /\ errors' = errors /\ ledger' = ledger
  BY DEF published
<1>2. CASE a \in index.archives
  <2>1. index' = index
    BY <1>2 DEF Ingest
  <2> QED BY <1>1, <2>1 DEF AuditTrailExact, Cluster
<1>3. CASE a \notin index.archives
  <2> DEFINE A == index.archives
             c == index.clusters
  <2>1. A \in SUBSET raw /\ a \in raw \ A
    BY <1>3 DEF AuditTrailExact, Growing
  <2>2. Whole(A) /\ WholeArchive(a) /\ RowsAt(A) \cap a.rows = {}
    BY <2>1, GrownWhole
  <2>3. /\ DOMAIN c = TextsAt(A) /\ \A t \in TextsAt(A) : c[t] = Cluster(A, t)
        /\ index.duplicates = Cardinality(RowsAt(A)) - Cardinality(TextsAt(A))
    BY DEF AuditTrailExact, TextsAt, RowsAt
  <2>4. index' = [archives |-> A \cup {a}, clusters |-> Upsert(c, a),
                  duplicates |-> index.duplicates
                     + Cardinality(a.rows) - Cardinality(TextsIn(a) \ DOMAIN c)]
    BY <1>3 DEF Ingest
  <2>5. index'.archives = A \cup {a} /\ index'.clusters = Upsert(c, a)
        /\ index'.duplicates = Cardinality(RowsAt(A)) - Cardinality(TextsAt(A))
                                 + Cardinality(a.rows) - Cardinality(TextsIn(a) \ TextsAt(A))
    <3> HIDE DEF A, c
    <3> QED BY <2>3, <2>4
  <2>6. /\ DOMAIN Upsert(c, a) = TextsAt(A \cup {a})
        /\ \A t \in TextsAt(A \cup {a}) : Upsert(c, a)[t] = Cluster(A \cup {a}, t)
    <3> HIDE DEF A, c
    <3> QED BY <2>2, <2>3, UpsertExact
  <2>7. index'.duplicates = Cardinality(RowsAt(A \cup {a})) - Cardinality(TextsAt(A \cup {a}))
    <3> HIDE DEF A, c
    <3> QED BY <2>2, <2>5, DuplicatesExact
  <2>8. DOMAIN index'.clusters = TextsAt(index'.archives)
        /\ (\A t \in DOMAIN index'.clusters : index'.clusters[t] = Cluster(index'.archives, t))
        /\ index'.duplicates = Cardinality(RowsAt(index'.archives)) - Cardinality(DOMAIN index'.clusters)
    <3> HIDE DEF A, c
    <3> QED BY <2>5, <2>6, <2>7
  <2>9. /\ errors' \cap {Name(x) : x \in reports'} = {}
        /\ index'.archives \subseteq reports' /\ reports' \subseteq fingerprints'
        /\ reports' \subseteq ledger'
    BY <1>1, <2>5 DEF AuditTrailExact
  <2> QED BY <2>8, <2>9 DEF AuditTrailExact, TextsAt, RowsAt, Cluster
<1> QED BY <1>2, <1>3

\* The trail speaks of the published files, the errors, the index and the ledger.
LEMMA TrailKeeps ==
    ASSUME AuditTrailExact, UNCHANGED <<index, fingerprints, reports>>, ledger \subseteq ledger',
           errors' \cap {Name(a) : a \in reports} = {}
    PROVE  AuditTrailExact'
BY DEF AuditTrailExact, Cluster

\* Initially.
LEMMA AuditStarts == IntakeInit => AuditInvariant
<1> SUFFICES ASSUME IntakeInit PROVE AuditInvariant
  OBVIOUS
<1>1. index.archives = {} /\ index.clusters = <<>> /\ index.duplicates = 0
  BY DEF IntakeInit, PreprocessInit
<1>2. Cardinality({}) = 0 /\ IsFiniteSet({})
  BY FS_EmptySet
<1>3. DOMAIN index.clusters = {}
  BY <1>1
<1>4. AuditTrailExact
  <2>1. UNION {TextsIn(a) : a \in {}} = {} /\ UNION {a.rows : a \in {}} = {}
    OBVIOUS
  <2>2. errors = {} /\ reports = {} /\ 0 = 0 - 0
    BY DEF IntakeInit, PreprocessInit
  <2>3. DOMAIN index.clusters = UNION {TextsIn(a) : a \in index.archives}
        /\ \A t \in DOMAIN index.clusters : index.clusters[t] = Cluster(index.archives, t)
    BY <1>1, <1>3, <2>1
  <2>4. index.duplicates = Cardinality(UNION {a.rows : a \in index.archives})
                            - Cardinality(DOMAIN index.clusters)
    BY <1>1, <1>2, <1>3, <2>1, <2>2
  <2> QED BY <1>1, <2>2, <2>3, <2>4 DEF AuditTrailExact
<1>5. raw = {} /\ ledger = {}
  BY DEF IntakeInit, CollectorsInit, CollectionInit
<1>6. Growing
  BY <1>2, <1>5 DEF Growing
<1>7. Memory /\ InPlace /\ Seen /\ Passing
  BY DEF IntakeInit, PreprocessInit, Off, Memory, InPlace, Seen, Passing
<1> QED BY <1>4, <1>6, <1>7 DEF AuditInvariant, IntakeInit

\* While the collectors run, the preprocessor is as it was.
LEMMA CollectKeepsAudit == AuditInvariant /\ Collect => AuditInvariant'
<1> SUFFICES ASSUME AuditInvariant, Collect PROVE AuditInvariant'
  OBVIOUS
<1>1. PreprocessInit /\ UNCHANGED preprocess /\ scene = "collect" /\ scene' = "collect"
  BY DEF AuditInvariant, Collect
<1>2. PreprocessInit'
  BY <1>1 DEF PreprocessInit, preprocess, published
<1>3. AuditTrailExact'
  <2>1. reports' = {} /\ UNCHANGED <<index, fingerprints, reports, errors>>
    BY <1>1, <1>2 DEF PreprocessInit, preprocess, published
  <2>2. AuditTrailExact
    BY DEF AuditInvariant
  <2> QED BY <2>1, <2>2 DEF AuditTrailExact, Cluster
<1> QED BY <1>1, <1>2, <1>3 DEF AuditInvariant

\* One step of the growing collection.
LEMMA GrowFacts ==
    ASSUME Growing, CollectionStep(Grown, Littered)
    PROVE  Growing' /\ ledger \subseteq ledger'
<1>1. ASSUME NEW a \in Grown, Finalize(a) PROVE Growing' /\ ledger \subseteq ledger'
  <2>1. raw' = raw \cup {a} /\ ledger' = ledger
        /\ \A f \in raw : Name(f) # Name(a) /\ f.rows \cap a.rows = {}
    BY <1>1 DEF Finalize
  <2>2. IsFiniteSet(raw')
    BY <2>1, FS_AddElement DEF Growing
  <2>3. \A x, y \in raw' : x # y => Name(x) # Name(y) /\ x.rows \cap y.rows = {}
    BY <2>1 DEF Growing
  <2> QED BY <2>1, <2>2, <2>3 DEF Growing
<1>2. ASSUME NEW a \in Grown, Record(a) PROVE Growing' /\ ledger \subseteq ledger'
  BY <1>2 DEF Record, Growing
<1>3. ASSUME NEW s \in Sources, Close(s) PROVE Growing' /\ ledger \subseteq ledger'
  BY <1>3 DEF Close, Growing
<1>4. ASSUME NEW bs \in SUBSET Littered, LeavePending(bs) PROVE Growing' /\ ledger \subseteq ledger'
  BY <1>4 DEF LeavePending, Growing
<1> QED BY <1>1, <1>2, <1>3, <1>4 DEF CollectionStep

\* Once a gate has passed, a collection that is still what it saw stays so.
LEMMA PassedStays ==
    ASSUME Growing, GateMeansAudited, passed # None, CollectionStep(Grown, Littered),
           UNCHANGED <<passed, reports, errors, index>>
    PROVE  GateMeansAudited' /\ ledger' = ledger
<1>1. (\A s \in Sources : markers[s] # None) /\ raw = ledger
  BY DEF GateMeansAudited
<1>2. \A b \in Buckets : Closed(b)
  <2>1. \A b \in Buckets : \E s \in Sources : b \in BucketsOf(s)
    <3>1. \A b \in Code : "stack" \in Sources /\ b \in BucketsOf("stack")
      BY DEF Sources, BucketsOf
    <3>2. \A b \in Texts : b \in Sources /\ b \in BucketsOf(b)
      BY RowsAssumption DEF Sources, BucketsOf
    <3> QED BY <3>1, <3>2 DEF Buckets
  <2> QED BY <1>1, <2>1 DEF Closed
<1>3. ASSUME NEW a \in Grown, Finalize(a) PROVE FALSE
  BY <1>2, <1>3, GrownAssumption DEF Finalize
<1>4. ASSUME NEW a \in Grown, Record(a) PROVE FALSE
  BY <1>1, <1>4 DEF Record
<1>5. ASSUME NEW s \in Sources, Close(s) PROVE FALSE
  BY <1>1, <1>5 DEF Close
<1>6. PICK bs \in SUBSET Littered : LeavePending(bs)
  BY <1>3, <1>4, <1>5 DEF CollectionStep
<1> QED BY <1>6 DEF LeavePending, GateMeansAudited

\* The collection may grow between any two steps of the preprocessor.
LEMMA GrowKeepsAudit == AuditInvariant /\ Grow => AuditInvariant'
<1> SUFFICES ASSUME AuditInvariant, Grow PROVE AuditInvariant'
  OBVIOUS
<1>1. /\ scene = "preprocess" /\ CollectionStep(Grown, Littered) /\ scene' = scene
      /\ UNCHANGED <<fingerprints, reports, errors, index, pre, passed>>
  BY DEF Grow, preprocess, published
<1>2. Growing /\ Memory /\ InPlace /\ Seen /\ Passing /\ AuditTrailExact
  BY <1>1 DEF AuditInvariant
<1>3. Growing' /\ ledger \subseteq ledger'
  BY <1>1, <1>2, GrowFacts
<1>4. AuditTrailExact'
  BY <1>1, <1>2, <1>3, TrailKeeps DEF AuditTrailExact
<1>5. Memory'
  BY <1>1, <1>2 DEF Memory
<1>6. InPlace'
  BY <1>1, <1>2, <1>3 DEF InPlace, Name
<1>7. Seen'
  BY <1>1, <1>2, <1>3 DEF Seen
<1>8. Passing'
  <2> SUFFICES ASSUME passed # None PROVE Passing'
    BY <1>1 DEF Passing
  <2>1. pre.place = "off" /\ passed.ledger \subseteq ledger
        /\ (passed.ledger = ledger => GateMeansAudited)
    BY <1>2 DEF Passing
  <2>2. CASE passed.ledger = ledger
    <3>1. GateMeansAudited' /\ ledger' = ledger
      BY <1>1, <1>2, <2>1, <2>2, PassedStays
    <3> QED BY <1>1, <2>1, <3>1 DEF Passing
  <2>3. CASE passed.ledger # ledger
    <3>1. passed.ledger # ledger'
      BY <1>3, <2>1, <2>3
    <3> QED BY <1>1, <1>3, <2>1, <3>1 DEF Passing
  <2> QED BY <2>2, <2>3
<1> QED BY <1>1, <1>3, <1>4, <1>5, <1>6, <1>7, <1>8 DEF AuditInvariant

\* A step of the preprocessor finds and leaves the collection as it is.
LEMMA AuditReads ==
    AuditInvariant /\ Audit =>
      /\ scene = "preprocess" /\ scene' = scene /\ PreprocessNext
      /\ UNCHANGED <<raw, ledger, orphans, markers>>
      /\ Growing /\ Growing' /\ Memory /\ InPlace /\ Seen /\ Passing /\ AuditTrailExact
<1> SUFFICES ASSUME AuditInvariant, Audit
             PROVE  /\ scene = "preprocess" /\ scene' = scene /\ PreprocessNext
                    /\ UNCHANGED <<raw, ledger, orphans, markers>>
                    /\ Growing /\ Growing' /\ Memory /\ InPlace /\ Seen /\ Passing /\ AuditTrailExact
  OBVIOUS
<1>1. /\ scene = "preprocess" /\ scene' = scene /\ PreprocessNext
      /\ UNCHANGED <<raw, ledger, orphans, markers>>
  BY DEF Audit, collectorVars, durable, collection
<1>2. Growing /\ Memory /\ InPlace /\ Seen /\ Passing /\ AuditTrailExact
  BY <1>1 DEF AuditInvariant
<1>3. Growing'
  BY <1>1, <1>2 DEF Growing
<1> QED BY <1>1, <1>2, <1>3

\* An error record is dropped for what is reported.
LEMMA ReconciledApart == Reconciled \cap {Name(a) : a \in reports} = {} /\ Reconciled \subseteq errors
BY DEF Reconciled

\* An archive that is recorded and not reported has a name of its own.
LEMMA NotReportedName ==
    ASSUME Growing, AuditTrailExact
    PROVE  \A a \in ledger \ reports : Name(a) \notin {Name(x) : x \in reports}
BY DEF Growing, AuditTrailExact

AuditState == Memory /\ InPlace /\ Seen /\ Passing /\ AuditTrailExact
Kept == /\ Growing /\ AuditState /\ Growing' /\ UNCHANGED <<raw, ledger, orphans, markers>>

\* A run begins; what is reported loses its error record.
LEMMA StartKeepsAudit == Kept /\ StartPreprocess => AuditState'
<1> SUFFICES ASSUME Kept, StartPreprocess PROVE AuditState'
  OBVIOUS
<1>1. PICK mode \in {"inline", "deferred", "only"}, retry \in BOOLEAN :
         pre' = [Off EXCEPT !.place = "index", !.mode = mode, !.retry = retry]
  BY DEF StartPreprocess
<1>2. pre' = [place |-> "index", mode |-> mode, retry |-> retry, todo |-> {}, at |-> None,
              snapshot |-> None]
  BY <1>1 DEF Off
<1>3. passed = None /\ errors' = Reconciled /\ UNCHANGED <<fingerprints, reports, index, passed, ledger>>
  BY DEF StartPreprocess, Kept
<1>4. AuditTrailExact'
  BY <1>3, ReconciledApart, TrailKeeps DEF Kept, AuditState
<1>5. Memory' /\ InPlace' /\ Seen' /\ Passing'
  BY <1>2, <1>3 DEF Memory, InPlace, Seen, Passing
<1> QED BY <1>4, <1>5 DEF AuditState

\* What was published before is indexed.
LEMMA IngestPublishedKeepsAudit == Kept /\ IngestPublished => AuditState'
<1> SUFFICES ASSUME Kept, IngestPublished PROVE AuditState'
  OBVIOUS
<1>1. pre.place = "index" /\ UNCHANGED <<published, fingerprints, reports, errors, pre, passed, ledger>>
  BY DEF IngestPublished, published, Kept
<1>2. PICK a \in reports : Ingest(a)
  BY DEF IngestPublished
<1>3. AuditTrailExact'
  BY <1>1, <1>2, IngestKeeps DEF Kept, AuditState
<1>4. Memory' /\ InPlace' /\ Seen'
  BY <1>1 DEF Memory, InPlace, Seen, Kept, AuditState, Name
<1>5. Passing'
  BY <1>1 DEF Passing, Kept, AuditState
<1> QED BY <1>3, <1>4, <1>5 DEF AuditState

\* What is to do is recorded and not reported.
LEMMA DiscoverKeepsAudit == Kept /\ Discover => AuditState'
<1> SUFFICES ASSUME Kept, Discover PROVE AuditState'
  OBVIOUS
<1>1. pre.place = "index" /\ UNCHANGED <<fingerprints, reports, errors, index, passed, ledger>>
  BY DEF Discover, published, Kept
<1> DEFINE todo == IF pre.mode = "only" THEN {} ELSE Candidates
<1>2. Memory /\ InPlace /\ Seen /\ Passing /\ AuditTrailExact /\ Growing
  BY DEF Kept, AuditState
<1>3. todo \subseteq ledger \ reports /\ ledger \subseteq Grown
  BY <1>2 DEF Candidates, Growing
<1>4. pre' = [pre EXCEPT !.place = "archives", !.todo = todo]
  BY DEF Discover
<1> HIDE DEF todo
<1>5. Memory'
  BY <1>2, <1>3, <1>4 DEF Memory
<1>6. pre'.place = "archives" /\ pre'.todo = todo
  BY <1>2, <1>4 DEF Memory
<1>7. InPlace' /\ Seen' /\ Passing'
  BY <1>1, <1>2, <1>3, <1>6 DEF InPlace, Seen, Passing
<1>8. AuditTrailExact'
  BY <1>1, <1>2, TrailKeeps DEF AuditTrailExact
<1> QED BY <1>5, <1>7, <1>8 DEF AuditState

\* The fingerprint shard of an archive still to do.
LEMMA PublishFingerprintKeepsAudit == Kept /\ PublishFingerprint => AuditState'
<1> SUFFICES ASSUME Kept, PublishFingerprint PROVE AuditState'
  OBVIOUS
<1>1. pre.place = "archives" /\ UNCHANGED <<reports, errors, index, passed, ledger>>
  BY DEF PublishFingerprint, Kept
<1>2. Memory /\ InPlace /\ Seen /\ Passing /\ AuditTrailExact /\ Growing
  BY DEF Kept, AuditState
<1>3. PICK a \in pre.todo :
         /\ fingerprints' = fingerprints \cup {a}
         /\ pre' = [pre EXCEPT !.place = "fingerprint", !.at = a, !.todo = @ \ {a}]
  BY DEF PublishFingerprint
<1>4. a \in ledger \ reports /\ a \in Grown
  BY <1>2 DEF InPlace, Growing
<1>5. Memory'
  BY <1>2, <1>3, <1>4 DEF Memory
<1>6. pre'.place = "fingerprint" /\ pre'.todo = pre.todo \ {a} /\ pre'.at = a
  BY <1>2, <1>3 DEF Memory
<1>7. InPlace' /\ Seen' /\ Passing'
  BY <1>1, <1>2, <1>3, <1>4, <1>6 DEF InPlace, Seen, Passing
<1>8. AuditTrailExact'
  BY <1>1, <1>2, <1>3 DEF AuditTrailExact, Cluster
<1> QED BY <1>5, <1>7, <1>8 DEF AuditState

\* Its error record goes.
LEMMA UnlinkErrorKeepsAudit == Kept /\ UnlinkError => AuditState'
<1> SUFFICES ASSUME Kept, UnlinkError PROVE AuditState'
  OBVIOUS
<1>1. /\ pre.place = "fingerprint" /\ UNCHANGED <<fingerprints, reports, index, passed, ledger>>
      /\ errors' = errors \ {Name(pre.at)} /\ pre' = [pre EXCEPT !.place = "report"]
  BY DEF UnlinkError, Kept, Move
<1>2. Memory /\ InPlace /\ Seen /\ Passing /\ AuditTrailExact /\ Growing
  BY DEF Kept, AuditState
<1>3. Memory'
  BY <1>1, <1>2 DEF Memory
<1>4. pre'.place = "report" /\ pre'.todo = pre.todo /\ pre'.at = pre.at
  BY <1>1, <1>2 DEF Memory
<1>5. InPlace' /\ Seen' /\ Passing'
  BY <1>1, <1>2, <1>4 DEF InPlace, Seen, Passing, Name
<1>6. AuditTrailExact'
  BY <1>1, <1>2, TrailKeeps DEF AuditTrailExact
<1> QED BY <1>3, <1>5, <1>6 DEF AuditState

\* Its report is published.
LEMMA PublishReportKeepsAudit == Kept /\ PublishReport => AuditState'
<1> SUFFICES ASSUME Kept, PublishReport PROVE AuditState'
  OBVIOUS
<1>1. /\ pre.place = "report" /\ UNCHANGED <<fingerprints, errors, index, passed, ledger>>
      /\ reports' = reports \cup {pre.at}
      /\ pre' = [pre EXCEPT !.place = IF pre.mode = "inline" THEN "ingest" ELSE "archives"]
  BY DEF PublishReport, Kept, Move
<1>2. Memory /\ InPlace /\ Seen /\ Passing /\ AuditTrailExact /\ Growing
  BY DEF Kept, AuditState
<1>3. Memory'
  BY <1>1, <1>2 DEF Memory
<1>4. pre'.place \in {"ingest", "archives"} /\ pre'.todo = pre.todo /\ pre'.at = pre.at
  BY <1>1, <1>2 DEF Memory
<1>5. pre.at \in ledger /\ pre.at \in fingerprints /\ pre.at \notin pre.todo /\ Name(pre.at) \notin errors
  BY <1>1, <1>2 DEF InPlace
<1>6. InPlace' /\ Seen' /\ Passing'
  BY <1>1, <1>2, <1>4, <1>5 DEF InPlace, Seen, Passing
<1>7. AuditTrailExact'
  BY <1>1, <1>2, <1>5 DEF AuditTrailExact, Cluster
<1> QED BY <1>3, <1>6, <1>7 DEF AuditState

\* It is indexed at once.
LEMMA IngestInlineKeepsAudit == Kept /\ IngestInline => AuditState'
<1> SUFFICES ASSUME Kept, IngestInline PROVE AuditState'
  OBVIOUS
<1>1. /\ pre.place = "ingest" /\ UNCHANGED <<published, fingerprints, reports, errors, passed, ledger>>
      /\ pre' = [pre EXCEPT !.place = "archives"]
  BY DEF IngestInline, Kept, Move, published
<1>2. Memory /\ InPlace /\ Seen /\ Passing /\ AuditTrailExact /\ Growing
  BY DEF Kept, AuditState
<1>3. PICK a \in reports : a = pre.at
  BY <1>1, <1>2 DEF InPlace
<1>4. Ingest(a)
  BY <1>3 DEF IngestInline
<1>5. AuditTrailExact'
  BY <1>1, <1>2, <1>4, IngestKeeps
<1>6. Memory'
  BY <1>1, <1>2 DEF Memory
<1>7. pre'.place = "archives" /\ pre'.todo = pre.todo
  BY <1>1, <1>2 DEF Memory
<1>8. InPlace' /\ Seen' /\ Passing'
  BY <1>1, <1>2, <1>7 DEF InPlace, Seen, Passing
<1> QED BY <1>5, <1>6, <1>8 DEF AuditState

\* An error record is written for an archive that has no report.
LEMMA ArchiveFailsKeepsAudit == Kept /\ ArchiveFails => AuditState'
<1> SUFFICES ASSUME Kept, ArchiveFails PROVE AuditState'
  OBVIOUS
<1>1. UNCHANGED <<fingerprints, reports, index, passed, ledger>>
  BY DEF ArchiveFails, Kept
<1>2. Memory /\ InPlace /\ Seen /\ Passing /\ AuditTrailExact /\ Growing
  BY DEF Kept, AuditState
<1>3. pre.place \in {"archives", "fingerprint", "report"}
      /\ \E a \in ledger \ reports :
            /\ RecordError(a)
            /\ \E todo \in SUBSET pre.todo : pre' = [pre EXCEPT !.place = "archives", !.todo = todo]
  <2>1. ASSUME pre.place = "archives", NEW a \in pre.todo, RecordError(a),
               pre' = [pre EXCEPT !.todo = @ \ {a}]
        PROVE  /\ a \in ledger \ reports
               /\ \E todo \in SUBSET pre.todo : pre' = [pre EXCEPT !.place = "archives", !.todo = todo]
    <3>1. pre' = [pre EXCEPT !.place = "archives", !.todo = pre.todo \ {a}]
      BY <1>2, <2>1 DEF Memory
    <3> QED BY <1>2, <3>1 DEF InPlace
  <2>2. ASSUME pre.place \in {"fingerprint", "report"}, pre' = [pre EXCEPT !.place = "archives"]
        PROVE  /\ pre.at \in ledger \ reports
               /\ \E todo \in SUBSET pre.todo : pre' = [pre EXCEPT !.place = "archives", !.todo = todo]
    <3>1. pre' = [pre EXCEPT !.place = "archives", !.todo = pre.todo]
      BY <1>2, <2>2 DEF Memory
    <3> QED BY <1>2, <2>2, <3>1 DEF InPlace
  <2>3. CASE pre.place = "archives"
             /\ \E a \in pre.todo : RecordError(a) /\ pre' = [pre EXCEPT !.todo = @ \ {a}]
    BY <2>1, <2>3
  <2>4. CASE pre.place \in {"fingerprint", "report"} /\ RecordError(pre.at) /\ Move("archives")
    BY <2>2, <2>4 DEF Move
  <2> QED BY <2>3, <2>4 DEF ArchiveFails
<1>4. PICK a \in ledger \ reports :
            /\ RecordError(a)
            /\ \E todo \in SUBSET pre.todo : pre' = [pre EXCEPT !.place = "archives", !.todo = todo]
  BY <1>3
<1>5. PICK todo \in SUBSET pre.todo : pre' = [pre EXCEPT !.place = "archives", !.todo = todo]
  BY <1>4
<1>6. errors' = errors \cup {Name(a)}
  BY <1>4 DEF RecordError
<1>7. Memory'
  BY <1>2, <1>5 DEF Memory
<1>8. pre'.place = "archives" /\ pre'.todo = todo
  BY <1>2, <1>5 DEF Memory
<1>9. InPlace' /\ Seen' /\ Passing'
  BY <1>1, <1>2, <1>3, <1>8 DEF InPlace, Seen, Passing
<1>10. Name(a) \notin {Name(x) : x \in reports}
  BY <1>2, <1>4, NotReportedName
<1>11. AuditTrailExact'
  <2>1. errors' \cap {Name(x) : x \in reports} = {}
    BY <1>2, <1>6, <1>10 DEF AuditTrailExact
  <2> QED BY <1>1, <1>2, <2>1, TrailKeeps
<1> QED BY <1>7, <1>9, <1>11 DEF AuditState

\* A pass ends: nothing is left to do, a stop was asked for, or a kill.
LEMMA PassEndsKeepsAudit == Kept /\ (EndPass \/ StopEarly \/ KillPreprocess) => AuditState'
<1> SUFFICES ASSUME Kept, EndPass \/ StopEarly \/ KillPreprocess PROVE AuditState'
  OBVIOUS
<1>1. UNCHANGED <<fingerprints, reports, errors, index, passed, ledger>>
  BY DEF EndPass, StopEarly, KillPreprocess, published, Kept
<1>2. Memory /\ InPlace /\ Seen /\ Passing /\ AuditTrailExact /\ Growing
  BY DEF Kept, AuditState
<1>3. AuditTrailExact'
  BY <1>1, <1>2, TrailKeeps DEF AuditTrailExact
<1>4. CASE EndPass
  <2>1. PICK place \in {"snapshot", "index"} : pre' = [pre EXCEPT !.place = place]
    BY <1>4 DEF EndPass, Move
  <2>2. Memory'
    BY <1>2, <2>1 DEF Memory
  <2>3. pre'.place = place /\ pre'.todo = pre.todo
    BY <1>2, <2>1 DEF Memory
  <2>4. InPlace' /\ Seen' /\ Passing'
    BY <1>1, <1>2, <1>4, <2>3 DEF InPlace, Seen, Passing, EndPass
  <2> QED BY <1>3, <2>2, <2>4 DEF AuditState
<1>5. CASE StopEarly
  <2>1. pre' = [pre EXCEPT !.place = "snapshot", !.todo = {}] /\ pre.place = "archives"
    BY <1>5 DEF StopEarly
  <2>2. Memory'
    BY <1>2, <2>1 DEF Memory
  <2>3. pre'.place = "snapshot" /\ pre'.todo = {}
    BY <1>2, <2>1 DEF Memory
  <2>4. InPlace' /\ Seen' /\ Passing'
    BY <1>1, <1>2, <2>1, <2>3 DEF InPlace, Seen, Passing
  <2> QED BY <1>3, <2>2, <2>4 DEF AuditState
<1>6. CASE KillPreprocess
  <2>1. pre' = [place |-> "off", mode |-> "deferred", retry |-> FALSE, todo |-> {}, at |-> None,
                snapshot |-> None] /\ pre.place # "off"
    BY <1>6 DEF KillPreprocess, Off
  <2>2. Memory' /\ InPlace' /\ Seen' /\ Passing'
    BY <1>1, <1>2, <2>1 DEF Memory, InPlace, Seen, Passing
  <2> QED BY <1>3, <2>2 DEF AuditState
<1> QED BY <1>4, <1>5, <1>6

\* The gate's first reading.
LEMMA ReadCoverageKeepsAudit == Kept /\ ReadCoverage => AuditState'
<1> SUFFICES ASSUME Kept, ReadCoverage PROVE AuditState'
  OBVIOUS
<1> DEFINE snap == [audited |-> raw_audit_complete(Reconciled), ledger |-> ledger,
                    indexed |-> pre.mode = "deferred" \/ index.archives = reports]
<1>1. /\ pre.place = "snapshot" /\ UNCHANGED <<fingerprints, reports, index, passed, ledger>>
      /\ errors' = Reconciled /\ pre' = [pre EXCEPT !.place = "closure", !.snapshot = snap]
  BY DEF ReadCoverage, Kept
<1>2. Memory /\ InPlace /\ Seen /\ Passing /\ AuditTrailExact /\ Growing
  BY DEF Kept, AuditState
<1>3. snap \in [audited : BOOLEAN, ledger : SUBSET Grown, indexed : BOOLEAN]
  <2>1. raw_audit_complete(Reconciled) \in BOOLEAN
    BY Zenon DEF raw_audit_complete
  <2>2. (pre.mode = "deferred" \/ index.archives = reports) \in BOOLEAN
    BY Zenon
  <2>3. ledger \in SUBSET Grown
    BY <1>2 DEF Growing
  <2> QED BY <2>1, <2>2, <2>3, Zenon
<1>4. /\ snap.ledger = ledger
      /\ snap.audited => reports = ledger /\ Reconciled = {}
      /\ snap.indexed => pre.mode = "deferred" \/ index.archives = reports
  BY DEF raw_audit_complete
<1> HIDE DEF snap
<1>5. Memory'
  BY <1>1, <1>2, <1>3 DEF Memory
<1>6. pre'.place = "closure" /\ pre'.snapshot = snap /\ pre'.todo = pre.todo /\ pre'.mode = pre.mode
  BY <1>1, <1>2 DEF Memory
<1>7. InPlace' /\ Passing'
  BY <1>1, <1>2, <1>6 DEF InPlace, Passing
<1>8. Seen'
  BY <1>1, <1>4, <1>6 DEF Seen
<1>9. AuditTrailExact'
  BY <1>1, <1>2, ReconciledApart, TrailKeeps
<1> QED BY <1>5, <1>7, <1>8, <1>9 DEF AuditState

\* A marker that states the totals is a marker.
LEMMA MarkedIsClosed ==
    ASSUME Growing, NEW s \in Sources, markers[s] = [b \in BucketsOf(s) |-> quota_status[b]]
    PROVE  markers[s] # None
<1>1. ASSUME NEW b \in BucketsOf(s) PROVE quota_status[b] \in Nat
  <2> DEFINE A == {x \in ledger : x.bucket = b}
  <2>1. b \in Buckets
    BY DEF Sources, BucketsOf, Buckets
  <2>2. A \in SUBSET raw
    BY DEF Growing
  <2>3. Counted(RowsAt(A))
    <3> HIDE DEF A
    <3> QED BY <2>2, GrownWhole, WholeFacts
  <2>4. TokensIn(RowsAt(A)) \in Nat
    <3> HIDE DEF A
    <3> QED BY <2>3, TokensFinite
  <2> QED BY <2>1, <2>4 DEF quota_status, Tokens, RowsAt
<1>2. [b \in BucketsOf(s) |-> quota_status[b]] \in [BucketsOf(s) -> Nat]
  BY <1>1
<1> QED BY <1>2, RowsAssumption

\* The gate's second reading: what is closed now, and audited then, is
\* audited now if nothing was recorded in between.
LEMMA GateKeepsAudit == Kept /\ Gate => AuditState'
<1> SUFFICES ASSUME Kept, Gate PROVE AuditState'
  OBVIOUS
<1>1. /\ pre.place = "closure"
      /\ UNCHANGED <<fingerprints, reports, errors, index, raw, ledger, markers>>
      /\ pre' = [place |-> "off", mode |-> "deferred", retry |-> FALSE, todo |-> {}, at |-> None,
                 snapshot |-> None]
  BY DEF Gate, Kept, published, Off
<1>2. Memory /\ InPlace /\ Seen /\ Passing /\ AuditTrailExact /\ Growing
  BY DEF Kept, AuditState
<1>3. Memory' /\ InPlace' /\ Seen'
  BY <1>1 DEF Memory, InPlace, Seen
<1>4. AuditTrailExact'
  BY <1>1, <1>2, TrailKeeps DEF AuditTrailExact
<1>5. passed = None
  BY <1>1, <1>2 DEF Passing
<1>6. CASE collection_closure /\ pre.snapshot.audited /\ pre.snapshot.indexed
  <2> DEFINE p == [ledger |-> pre.snapshot.ledger, indexed |-> pre.mode # "deferred"]
  <2>1. passed' = p
    BY <1>6 DEF Gate
  <2>2. p.ledger = pre.snapshot.ledger /\ (p.indexed => pre.mode # "deferred")
    OBVIOUS
  <2> HIDE DEF p
  <2>3. pre.snapshot.ledger \subseteq ledger /\ reports = pre.snapshot.ledger /\ errors = {}
        /\ (pre.mode = "deferred" \/ index.archives = reports)
    BY <1>1, <1>2, <1>6 DEF Seen
  <2>4. raw = ledger /\ \A s \in Sources : markers[s] # None
    BY <1>2, <1>6, MarkedIsClosed DEF collection_closure
  <2>5. pre'.place = "off"
    BY <1>1
  <2>6. passed'.ledger = ledger => GateMeansAudited'
    BY <1>1, <2>1, <2>2, <2>3, <2>4 DEF GateMeansAudited
  <2>7. Passing'
    BY <1>1, <2>1, <2>2, <2>3, <2>5, <2>6 DEF Passing
  <2> QED BY <1>3, <1>4, <2>7 DEF AuditState
<1>7. CASE ~(collection_closure /\ pre.snapshot.audited /\ pre.snapshot.indexed)
  <2>1. passed' = None
    BY <1>5, <1>7 DEF Gate
  <2> QED BY <1>3, <1>4, <2>1 DEF AuditState, Passing
<1> QED BY <1>6, <1>7

\* Every step of the preprocessor.
LEMMA AuditKeepsAudit == AuditInvariant /\ Audit => AuditInvariant'
<1> SUFFICES ASSUME AuditInvariant, Audit PROVE AuditInvariant'
  OBVIOUS
<1>1. Kept /\ PreprocessNext /\ scene' = "preprocess" /\ Growing'
  BY AuditReads DEF Kept, AuditState
<1>2. AuditState'
  BY <1>1, StartKeepsAudit, IngestPublishedKeepsAudit, DiscoverKeepsAudit, PublishFingerprintKeepsAudit,
     UnlinkErrorKeepsAudit, PublishReportKeepsAudit, IngestInlineKeepsAudit, ArchiveFailsKeepsAudit,
     PassEndsKeepsAudit, ReadCoverageKeepsAudit, GateKeepsAudit
     DEF PreprocessNext, PreprocessWork
<1> QED BY <1>1, <1>2 DEF AuditInvariant, AuditState

\* The inductive invariant of the audit.
THEOREM AuditInvariantHolds == IntakeSpec => []AuditInvariant
<1>1. IntakeInit => AuditInvariant
  BY AuditStarts
<1>2. AuditInvariant /\ [IntakeNext]_intakeVars => AuditInvariant'
  <2> SUFFICES ASSUME AuditInvariant, [IntakeNext]_intakeVars PROVE AuditInvariant'
    OBVIOUS
  <2>1. CASE IntakeNext
    BY <2>1, CollectKeepsAudit, AuditKeepsAudit, GrowKeepsAudit DEF IntakeNext
  <2>2. CASE UNCHANGED intakeVars
    <3>1. UNCHANGED <<raw, ledger, orphans, markers, fingerprints, reports, errors, index, pre,
                      passed, troubles, scene>>
      BY <2>2 DEF intakeVars, collectorVars, durable, collection, preprocess, published
    <3>2. AuditTrailExact' <=> AuditTrailExact
      BY <3>1 DEF AuditTrailExact, Cluster
    <3>3. PreprocessInit' <=> PreprocessInit
      BY <3>1 DEF PreprocessInit
    <3>4. (Growing' <=> Growing) /\ (Memory' <=> Memory) /\ (InPlace' <=> InPlace)
          /\ (Seen' <=> Seen)
      BY <3>1 DEF Growing, Memory, InPlace, Seen, Name
    <3>5. Passing' <=> Passing
      BY <3>1 DEF Passing, GateMeansAudited
    <3> QED BY <3>1, <3>2, <3>3, <3>4, <3>5 DEF AuditInvariant
  <2> QED BY <2>1, <2>2
<1> QED BY <1>1, <1>2, PTL DEF IntakeSpec

\* The dedup index, the reports and the errors agree with one another and with
\* the ledger whatever is killed, and a gate that has passed has audited all that
\* was collected (DedupIndex, process_archive, terminal_gate_failures).
THEOREM AuditAlwaysHolds == IntakeSpec => []AuditHolds
<1>1. AuditInvariant => AuditHolds
  <2> SUFFICES ASSUME AuditInvariant PROVE AuditHolds
    OBVIOUS
  <2>1. AuditTrailExact
    BY DEF AuditInvariant
  <2>2. passed # None /\ passed.ledger = ledger => GateMeansAudited
    BY DEF AuditInvariant, Passing, PreprocessInit
  <2> QED BY <2>1, <2>2 DEF AuditHolds
<1> QED BY <1>1, AuditInvariantHolds, PTL

-----------------------------------------------------------------------------
(* The collectors.                                                         *)

\* A bounded set of numbers has a greatest one, and Max gives it.
LEMMA MaxFacts ==
    ASSUME NEW S, S \subseteq Int, S # {}, NEW u \in Int, \A x \in S : x <= u
    PROVE  Max(S) \in S /\ \A x \in S : x <= Max(S)
<1> DEFINE T == {u - x : x \in S}
<1>1. T \subseteq Nat /\ T # {}
  <2>1. \A x \in S : u - x \in Nat
    OBVIOUS
  <2>2. PICK x \in S : TRUE
    OBVIOUS
  <2>3. u - x \in T
    OBVIOUS
  <2> QED BY <2>1, <2>3
<1>2. PICK n \in T : \A m \in T : n <= m
  <2> HIDE DEF T
  <2> QED BY <1>1, LeastNatural
<1>3. PICK x \in S : n = u - x
  BY <1>2
<1>4. \A y \in S : y <= x
  BY <1>2, <1>3
<1>5. \E z \in S : \A y \in S : z >= y
  BY <1>4
<1>6. Max(S) \in S /\ \A y \in S : Max(S) >= y
  BY <1>5 DEF Max
<1> QED BY <1>6

\* An element above all others is the greatest.
LEMMA MaxIs ==
    ASSUME NEW S, S \subseteq Int, NEW n \in S, \A m \in S : m <= n
    PROVE  Max(S) = n
<1>1. Max(S) \in S /\ \A x \in S : x <= Max(S)
  BY MaxFacts
<1>2. Max(S) <= n /\ n <= Max(S) /\ Max(S) \in Int /\ n \in Int
  BY <1>1
<1> QED BY <1>2

\* There are finitely many rows.
LEMMA RowsFinite == IsFiniteSet(Rows) /\ \A r \in Rows : r.tokens \in Nat /\ r.id \in Nat
<1>1. ASSUME NEW T, NEW q \in Seq(T) PROVE IsFiniteSet(ToSet(q))
  <2>1. q \in Surjection(1..Len(q), ToSet(q))
    <3>1. q \in [1..Len(q) -> ToSet(q)] /\ DOMAIN q = 1..Len(q)
      BY DEF ToSet
    <3>2. \A x \in ToSet(q) : \E i \in 1..Len(q) : q[i] = x
      BY <3>1 DEF ToSet
    <3> QED BY <3>1, <3>2 DEF Surjection
  <2>2. IsFiniteSet(1..Len(q))
    BY FS_Interval
  <2> QED BY <2>1, <2>2, FS_Surjection
<1>2. ASSUME NEW s \in Sources PROVE IsFiniteSet(RowsOf(s))
  <2>1. Shards[s] \in Seq(Seq(RowsOf(s)))
    BY RowsAssumption
  <2>2. IsFiniteSet(ToSet(Shards[s]))
    BY <1>1, <2>1
  <2>3. \A shard \in ToSet(Shards[s]) : shard \in Seq(RowsOf(s))
    BY <2>1 DEF ToSet
  <2> DEFINE f == [shard \in ToSet(Shards[s]) |-> ToSet(shard)]
  <2>4. \A shard \in ToSet(Shards[s]) : IsFiniteSet(f[shard])
    BY <1>1, <2>3
  <2>5. RowsOf(s) = UNION {f[shard] : shard \in ToSet(Shards[s])}
    BY DEF RowsOf
  <2> HIDE DEF f
  <2> QED BY <2>2, <2>4, <2>5, FiniteUnion
<1>3. IsFiniteSet(Sources)
  <2>1. IsFiniteSet(Texts) /\ IsFiniteSet({"stack"})
    BY RowsAssumption, FS_Singleton
  <2> QED BY <2>1, FS_Union DEF Sources
<1>4. IsFiniteSet(Rows)
  <2> DEFINE f == [s \in Sources |-> RowsOf(s)]
  <2>1. \A s \in Sources : IsFiniteSet(f[s])
    BY <1>2
  <2>2. Rows = UNION {f[s] : s \in Sources}
    BY DEF Rows
  <2> HIDE DEF f
  <2> QED BY <1>3, <2>1, <2>2, FiniteUnion
<1>5. ASSUME NEW r \in Rows PROVE r.tokens \in Nat /\ r.id \in Nat
  <2>1. PICK s \in Sources : r \in RowsOf(s)
    BY DEF Rows
  <2> QED BY <2>1, RowsAssumption
<1> QED BY <1>4, <1>5

(* The types of files and memory.                                         *)
Archive == [bucket : Buckets, index : Nat, rows : SUBSET Rows]
Checkpoint == [at : Nat \ {0}, row : Nat, next : [Buckets -> Nat], archives : SUBSET Archive]
LocalMemory == [at : Nat \ {0}, row : Nat, next : [Buckets -> Nat], open : SUBSET Archive,
                totals : [Buckets -> Nat], since : Nat, halt : BOOLEAN, ended : BOOLEAN]
Places == {"off", "recover", "rows", "commit", "checkpoint", "publish", "mark", "failed"}
Outcomes == {"none", "full", "complete", "exhausted", "stopped", "failed"}
CollectorsTypes ==
    /\ raw \subseteq Archive /\ ledger \subseteq Archive /\ sealed \subseteq Archive /\ orphans \subseteq Buckets
    /\ \E u \in Nat : \A a \in raw : a.index <= u
    /\ checkpoints \in [Collectors -> Seq(Checkpoint)]
    /\ local \in [Collectors -> LocalMemory]
    /\ pc \in [Collectors -> Places]
    /\ supervisor \in {"off", "legacy", "workers", "running", "stopping", "mark"}
    /\ outcome \in [Sources -> Outcomes]
    /\ plan \in Plans \cup {None}
(* Who may run beside whom, who holds archives open, and what a plan fixes.*)
Control ==
    /\ \A p \in Collectors :
          /\ pc[p] \in {"off", "recover", "failed", "publish", "mark"} => local[p].open = {}
          /\ pc[p] = "failed" => p \in WorkerSet
          /\ pc[p] = "mark" => p \notin WorkerSet
    /\ supervisor # "off" => \A p \in Collectors \ WorkerSet : pc[p] = "off"
    /\ supervisor \notin {"running", "stopping"} => \A w \in WorkerSet : pc[w] = "off"
    /\ \A p, q \in Collectors \ WorkerSet : pc[p] # "off" /\ pc[q] # "off" => p = q
    /\ supervisor \in {"workers", "running", "stopping", "mark"} => plan # None
    /\ plan = None => \A w \in WorkerSet : checkpoints[w] = <<>>
    /\ plan # None => pc["stack"] = "off" /\ plan.legacy = Cursor("stack")
(* Names: what a process holds is numbered below its next number, a worker *)
(* in its residue class, the legacy frontier below the plan's base.         *)
Held(p) == Checkpointed(p) \cup local[p].open
Running(p) == pc[p] \in {"rows", "commit", "checkpoint", "publish", "mark"}
UsedBelow(p, x, next) ==
    IF p \in WorkerSet
    THEN \E k \in 0..(next[x.bucket] - 1) :
            x.index = plan.base[x.bucket] + WorkerId(p) + Len(Workers) * k
    ELSE x.index < next[x.bucket]
Numbering(p) ==
    /\ \A x \in Held(p) : /\ x.bucket \in BucketsOf(SourceOf(p)) /\ x.rows # {}
                          /\ \A r \in x.rows : r.bucket = x.bucket
    /\ \A x, y \in Checkpointed(p) : x # y => Name(x) # Name(y)
    /\ \A x \in Checkpointed(p), y \in local[p].open : Name(x) # Name(y)
    /\ \A x, y \in local[p].open : x # y => x.bucket # y.bucket
    /\ Running(p) => \A x \in Held(p) : UsedBelow(p, x, local[p].next)
    /\ p \in WorkerSet => \A x \in Checkpointed(p) : UsedBelow(p, x, Cursor(p).next)
    /\ p = "stack" /\ plan # None => \A x \in Checkpointed(p) : x.index < plan.base[x.bucket]
(* Archives go from sealed to raw to ledger, each after its checkpoint.    *)
Durable ==
    /\ ledger \subseteq raw /\ raw \subseteq AllCheckpointed /\ AllCheckpointed \ raw \subseteq sealed
    /\ \A p \in Collectors : pc[p] = "checkpoint" => local[p].open \subseteq sealed
CollectKept == CollectorsTypes /\ Control /\ (\A p \in Collectors : Numbering(p)) /\ Durable

\* Tokens of archives are a number.
LEMMA TokensType ==
    ASSUME NEW A, A \subseteq Archive, NEW b
    PROVE  Tokens(A, b) \in Nat
<1> DEFINE rows == UNION {a.rows : a \in {x \in A : x.bucket = b}}
<1>1. rows \in SUBSET Rows
  BY DEF Archive
<1>2. Counted(rows)
  <2> HIDE DEF rows
  <2>1. IsFiniteSet(rows)
    BY <1>1, RowsFinite, FS_Subset
  <2> QED BY <1>1, <2>1, RowsFinite DEF Counted
<1>3. TokensIn(rows) \in Nat
  <2> HIDE DEF rows
  <2> QED BY <1>2, TokensFinite
<1> QED BY <1>3 DEF Tokens

\* What the tracker reports is a number for every bucket.
LEMMA QuotaType ==
    ASSUME ledger \subseteq Archive
    PROVE  quota_status \in [Buckets -> Nat]
BY TokensType DEF quota_status

\* The next number of a bucket is above those in use.
LEMMA NextIndicesFacts ==
    ASSUME NEW A, A \subseteq Archive, NEW u \in Nat, \A a \in A : a.index <= u
    PROVE  /\ NextIndices(A) \in [Buckets -> Nat]
           /\ \A a \in A : a.index < NextIndices(A)[a.bucket]
<1>1. ASSUME NEW b \in Buckets
      PROVE  /\ NextIndices(A)[b] \in Nat
             /\ \A a \in A : a.bucket = b => a.index < NextIndices(A)[b]
  <2> DEFINE S == {-1} \cup {a.index : a \in {x \in A : x.bucket = b}}
  <2>1. S \subseteq Int /\ S # {} /\ (\A x \in S : x <= u) /\ (\A x \in S : x >= -1) /\ u \in Int
    BY DEF Archive
  <2>2. NextIndices(A)[b] = Max(S) + 1
    BY DEF NextIndices
  <2>3. \A a \in A : a.bucket = b => a.index \in S
    OBVIOUS
  <2>4. -1 \in S
    OBVIOUS
  <2> HIDE DEF S
  <2>5. Max(S) \in S /\ \A x \in S : x <= Max(S)
    BY <2>1, MaxFacts
  <2>6. Max(S) \in Int /\ Max(S) >= -1
    BY <2>1, <2>5
  <2> QED BY <2>1, <2>2, <2>3, <2>5, <2>6
<1>2. \A a \in A : a.bucket \in Buckets
  BY DEF Archive
<1>3. NextIndices(A) = [b \in Buckets |-> NextIndices(A)[b]]
  BY DEF NextIndices
<1> QED BY <1>1, <1>2, <1>3

\* Workers are numbered from zero, each with a number of its own.
LEMMA WorkerIds ==
    /\ Len(Workers) \in Nat \ {0} /\ Workers[1] \in WorkerSet
    /\ \A w \in WorkerSet : WorkerId(w) \in 0..(Len(Workers) - 1) /\ Workers[WorkerId(w) + 1] = w
    /\ \A w \in WorkerSet : w \notin Texts /\ w # "stack"
<1>1. Workers \in Seq(WorkerSet) /\ Workers # <<>> /\ DOMAIN Workers = 1..Len(Workers)
      /\ Len(Workers) \in Nat
  BY CollectorsAssumption
<1>2. Len(Workers) # 0
  BY <1>1
<1>3. ASSUME NEW w \in WorkerSet
      PROVE  WorkerId(w) \in 0..(Len(Workers) - 1) /\ Workers[WorkerId(w) + 1] = w
  <2>1. \E k \in 1..Len(Workers) : Workers[k] = w
    BY <1>1 DEF WorkerSet, ToSet
  <2> DEFINE k == CHOOSE j \in 1..Len(Workers) : Workers[j] = w
  <2>2. k \in 1..Len(Workers) /\ Workers[k] = w
    BY <2>1
  <2>3. WorkerId(w) = k - 1
    BY DEF WorkerId
  <2> HIDE DEF k
  <2>4. WorkerId(w) + 1 = k
    BY <2>2, <2>3
  <2> QED BY <1>1, <2>2, <2>3, <2>4
<1>4. Workers[1] \in WorkerSet
  BY <1>1, <1>2
<1> QED BY <1>1, <1>2, <1>3, <1>4, CollectorsAssumption

\* Where a collector resumes is a place and numbers.
LEMMA CursorType ==
    ASSUME CollectorsTypes, NEW p \in Collectors, p \in WorkerSet => plan # None
    PROVE  Cursor(p) \in Cursors
<1>1. CASE checkpoints[p] = <<>>
  <2>1. Cursor(p) = [at |-> 1, row |-> IF p = Workers[1] THEN plan.row ELSE 0,
                     next |-> [b \in Buckets |-> 0]]
    BY <1>1 DEF Cursor, FirstCursor
  <2>2. (IF p = Workers[1] THEN plan.row ELSE 0) \in Nat
    BY WorkerIds DEF CollectorsTypes, Plans
  <2> QED BY <2>1, <2>2 DEF Cursors
<1>2. CASE checkpoints[p] # <<>>
  <2> DEFINE c == checkpoints[p]
  <2>1. c \in Seq(Checkpoint)
    BY DEF CollectorsTypes
  <2>2. Last(c) \in Checkpoint
    BY <1>2, <2>1 DEF Last
  <2>3. Cursor(p) = [at |-> Last(c).at, row |-> Last(c).row, next |-> Last(c).next]
    BY <1>2 DEF Cursor
  <2> QED BY <2>2, <2>3 DEF Cursors, Checkpoint
<1> QED BY <1>1, <1>2

\* The shard a collector is at is one of its source.
LEMMA ShardFacts ==
    ASSUME CollectorsTypes, NEW p \in Collectors, p \in WorkerSet => plan # None,
           NEW at \in Nat \ {0}, HasShard(p, at)
    PROVE  /\ assigned_source_shard(p, at) \in 1..Len(Shards[SourceOf(p)])
           /\ Shard(p, at) \in Seq(RowsOf(SourceOf(p)))
           /\ SourceOf(p) \in Sources
<1>1. SourceOf(p) \in Sources
  BY DEF SourceOf, Sources, Collectors
<1>2. assigned_source_shard(p, at) \in Nat \ {0}
  <2>1. CASE p \in WorkerSet
    <3> DEFINE m == Len(Workers) * (at - 1)
    <3>1. WorkerId(p) \in Nat /\ plan.shard \in Nat \ {0} /\ Len(Workers) \in Nat /\ at - 1 \in Nat
      BY <2>1, WorkerIds DEF CollectorsTypes, Plans
    <3>2. m \in Nat
      BY <3>1
    <3>3. assigned_source_shard(p, at) = plan.shard + WorkerId(p) + m
      BY <2>1 DEF assigned_source_shard
    <3> HIDE DEF m
    <3> QED BY <3>1, <3>2, <3>3
  <2>2. CASE p \notin WorkerSet
    BY <2>2 DEF assigned_source_shard
  <2> QED BY <2>1, <2>2
<1>3. Shards[SourceOf(p)] \in Seq(Seq(RowsOf(SourceOf(p))))
  BY <1>1, RowsAssumption
<1>4. assigned_source_shard(p, at) \in 1..Len(Shards[SourceOf(p)])
  BY <1>2, <1>3 DEF HasShard
<1> QED BY <1>1, <1>3, <1>4 DEF Shard

\* What a process holds keeps its numbers while it opens nothing new.
LEMMA NumberingFrame ==
    ASSUME NEW p \in Collectors, Numbering(p), checkpoints'[p] = checkpoints[p], plan' = plan,
           local'[p].open \subseteq local[p].open,
           Running(p)' => Running(p) /\ local'[p].next = local[p].next
    PROVE  Numbering(p)'
<1>1. Checkpointed(p)' = Checkpointed(p) /\ Held(p)' \subseteq Held(p) /\ Cursor(p)' = Cursor(p)
  BY DEF Checkpointed, Held, Cursor, FirstCursor
<1>2. \A x \in Held(p)' : /\ x.bucket \in BucketsOf(SourceOf(p)) /\ x.rows # {}
                          /\ \A r \in x.rows : r.bucket = x.bucket
  BY <1>1 DEF Numbering
<1>3. /\ \A x, y \in Checkpointed(p)' : x # y => Name(x) # Name(y)
      /\ \A x \in Checkpointed(p)', y \in local'[p].open : Name(x) # Name(y)
      /\ \A x, y \in local'[p].open : x # y => x.bucket # y.bucket
  BY <1>1 DEF Numbering
<1>4. Running(p)' => \A x \in Held(p)' : UsedBelow(p, x, local[p].next)
  BY <1>1 DEF Numbering
<1>5. Running(p)' => \A x \in Held(p)' : UsedBelow(p, x, local[p].next)'
  BY <1>4 DEF UsedBelow
<1>6. /\ p \in WorkerSet => \A x \in Checkpointed(p)' : UsedBelow(p, x, Cursor(p).next)'
      /\ p = "stack" /\ plan' # None => \A x \in Checkpointed(p)' : x.index < plan'.base[x.bucket]
  BY <1>1 DEF Numbering, UsedBelow
<1> QED BY <1>2, <1>3, <1>5, <1>6 DEF Numbering

\* Numbers of different residue classes differ.
LEMMA Residues ==
    ASSUME NEW n \in Nat \ {0}, NEW i \in 0..(n - 1), NEW j \in 0..(n - 1), NEW k \in Nat, NEW m \in Nat,
           i + n * k = j + n * m
    PROVE  i = j /\ k = m
<1>1. ASSUME NEW x \in Nat, NEW y \in Nat, NEW v \in 0..(n - 1), NEW w \in 0..(n - 1), x < y
      PROVE  v + n * x < w + n * y
  <2> DEFINE d == y - x - 1
  <2>1. d \in Nat /\ y = x + 1 + d
    BY <1>1
  <2> HIDE DEF d
  <2>2. n * y = n * x + n + n * d /\ n * d \in Nat /\ n * x \in Nat
    BY <2>1
  <2> QED BY <2>2
<1>2. k = m
  BY <1>1
<1> QED BY <1>2

\* A worker's archives are numbered in its residue class, above the plan's base.
LEMMA WorkerIndex ==
    ASSUME CollectorsTypes, Control, NEW w \in WorkerSet, Numbering(w), NEW x \in Held(w)
    PROVE  /\ plan # None
           /\ \E k \in Nat : x.index = plan.base[x.bucket] + WorkerId(w) + Len(Workers) * k
<1>1. w \in Collectors
  BY DEF Collectors
<1>2. plan # None
  <2> SUFFICES ASSUME plan = None PROVE FALSE
    OBVIOUS
  <2>1. checkpoints[w] = <<>> /\ local[w].open = {}
    BY <1>1 DEF Control, CollectorsTypes
  <2>2. Checkpointed(w) = {}
    BY <2>1 DEF Checkpointed, ToSet
  <2> QED BY <2>1, <2>2 DEF Held
<1>3. \A next : UsedBelow(w, x, next) =>
         \E k \in 0..(next[x.bucket] - 1) :
            x.index = plan.base[x.bucket] + WorkerId(w) + Len(Workers) * k
  BY DEF UsedBelow
<1>4. \E next \in [Buckets -> Nat] : UsedBelow(w, x, next)
  <2>1. CASE x \in Checkpointed(w)
    <3>1. UsedBelow(w, x, Cursor(w).next)
      BY <2>1 DEF Numbering
    <3>2. Cursor(w).next \in [Buckets -> Nat]
      BY <1>1, <1>2, CursorType DEF Cursors
    <3> QED BY <3>1, <3>2
  <2>2. CASE x \in local[w].open
    <3>1. Running(w)
      BY <1>1, <2>2 DEF Control, CollectorsTypes, Running, Places
    <3>2. UsedBelow(w, x, local[w].next)
      BY <3>1 DEF Numbering
    <3>3. local[w].next \in [Buckets -> Nat]
      BY <1>1 DEF CollectorsTypes, LocalMemory
    <3> QED BY <3>2, <3>3
  <2> QED BY <2>1, <2>2 DEF Held
<1>5. PICK next \in [Buckets -> Nat] : UsedBelow(w, x, next)
  BY <1>4
<1>6. PICK k \in 0..(next[x.bucket] - 1) :
            x.index = plan.base[x.bucket] + WorkerId(w) + Len(Workers) * k
  BY <1>3, <1>5
<1>7. k \in Nat
  OBVIOUS
<1> QED BY <1>2, <1>6, <1>7

\* Whatever is checkpointed is an archive.
LEMMA HeldArchives ==
    ASSUME CollectorsTypes, NEW p \in Collectors
    PROVE  Held(p) \subseteq Archive
<1>1. checkpoints[p] \in Seq(Checkpoint) /\ local[p] \in LocalMemory
  BY DEF CollectorsTypes
<1>2. \A c \in ToSet(checkpoints[p]) : c \in Checkpoint
  BY <1>1 DEF ToSet
<1>3. \A c \in ToSet(checkpoints[p]) : c.archives \subseteq Archive
  BY <1>2 DEF Checkpoint
<1>4. local[p].open \subseteq Archive
  BY <1>1 DEF LocalMemory
<1> QED BY <1>3, <1>4 DEF Held, Checkpointed

\* No two processes hold archives of one name.
LEMMA ProcessesApart ==
    ASSUME CollectorsTypes, Control, \A p \in Collectors : Numbering(p),
           NEW p \in Collectors, NEW q \in Collectors, p # q, NEW x \in Held(p), NEW y \in Held(q)
    PROVE  Name(x) # Name(y)
<1>1. x \in Archive /\ y \in Archive
  BY HeldArchives
<1>2. x.bucket \in BucketsOf(SourceOf(p)) /\ y.bucket \in BucketsOf(SourceOf(q))
  BY DEF Numbering
<1>3. CASE SourceOf(p) # SourceOf(q)
  <2>1. SourceOf(p) \in Sources /\ SourceOf(q) \in Sources
    BY DEF SourceOf, Sources, Collectors
  <2>2. BucketsOf(SourceOf(p)) \cap BucketsOf(SourceOf(q)) = {}
    BY <1>3, <2>1, RowsAssumption DEF BucketsOf, Sources
  <2> QED BY <1>2, <2>2 DEF Name
<1>4. CASE SourceOf(p) = SourceOf(q)
  <2>1. p \in {"stack"} \cup WorkerSet /\ q \in {"stack"} \cup WorkerSet
    <3>1. "stack" \notin Texts
      BY RowsAssumption
    <3> QED BY <1>4, <3>1 DEF SourceOf, Collectors
  <2>2. ASSUME NEW v \in WorkerSet, NEW a \in Held(v), NEW b \in Held("stack") PROVE Name(a) # Name(b)
    <3>1. v \in Collectors /\ "stack" \in Collectors
      BY DEF Collectors
    <3>2. Numbering(v) /\ Numbering("stack")
      BY <3>1
    <3>3. /\ plan # None
          /\ \E k \in Nat : a.index = plan.base[a.bucket] + WorkerId(v) + Len(Workers) * k
      BY <2>2, <3>2, WorkerIndex
    <3>4. PICK k \in Nat : a.index = plan.base[a.bucket] + WorkerId(v) + Len(Workers) * k
      BY <3>3
    <3>5. b \in Checkpointed("stack")
      <4>1. local["stack"].open = {}
        BY <3>1, <3>3 DEF Control
      <4> QED BY <2>2, <4>1 DEF Held
    <3>6. b.index < plan.base[b.bucket]
      BY <3>2, <3>3, <3>5 DEF Numbering
    <3>7. a \in Archive /\ b \in Archive
      BY <3>1, <2>2, HeldArchives
    <3> DEFINE n == Len(Workers) * k
               u == plan.base[a.bucket]
    <3>8. n \in Nat /\ WorkerId(v) \in Nat
      BY WorkerIds
    <3>9. u \in Nat
      BY <3>3, <3>7 DEF CollectorsTypes, Plans, Archive
    <3>10. a.bucket = b.bucket => a.index # b.index
      <4>1. a.index = u + WorkerId(v) + n /\ (a.bucket = b.bucket => b.index < u)
        BY <3>4, <3>6
      <4>2. a.index \in Nat /\ b.index \in Nat
        BY <3>7 DEF Archive
      <4> HIDE DEF n, u
      <4> QED BY <3>8, <3>9, <4>1, <4>2
    <3> QED BY <3>10 DEF Name
  <2>3. CASE p \in WorkerSet /\ q \in WorkerSet
    <3>1. /\ plan # None
          /\ \E k \in Nat : x.index = plan.base[x.bucket] + WorkerId(p) + Len(Workers) * k
          /\ \E m \in Nat : y.index = plan.base[y.bucket] + WorkerId(q) + Len(Workers) * m
      BY <2>3, WorkerIndex
    <3>2. PICK k \in Nat : x.index = plan.base[x.bucket] + WorkerId(p) + Len(Workers) * k
      BY <3>1
    <3>3. PICK m \in Nat : y.index = plan.base[y.bucket] + WorkerId(q) + Len(Workers) * m
      BY <3>1
    <3>4. WorkerId(p) \in 0..(Len(Workers) - 1) /\ WorkerId(q) \in 0..(Len(Workers) - 1)
          /\ WorkerId(p) # WorkerId(q) /\ Len(Workers) \in Nat \ {0}
      BY <2>3, WorkerIds
    <3> DEFINE u == plan.base[x.bucket]
               i == WorkerId(p)
               j == WorkerId(q)
               n == Len(Workers)
    <3>5. u \in Nat
      BY <3>1, <1>1 DEF CollectorsTypes, Plans, Archive
    <3>6. x.bucket = y.bucket /\ x.index = y.index => u + i + n * k = u + j + n * m
      BY <3>2, <3>3
    <3>7. i \in 0..(n - 1) /\ j \in 0..(n - 1) /\ i # j /\ n \in Nat \ {0}
      BY <3>4
    <3> HIDE DEF u, i, j, n
    <3>8. n * k \in Nat /\ n * m \in Nat
      BY <3>7
    <3>9. i + n * k # j + n * m
      BY <3>7, Residues
    <3>10. ~(x.bucket = y.bucket /\ x.index = y.index)
      BY <3>5, <3>6, <3>7, <3>8, <3>9
    <3> QED BY <3>10 DEF Name
  <2>4. CASE p = "stack" \/ q = "stack"
    BY <2>1, <2>2, <2>4
  <2> QED BY <2>1, <2>3, <2>4
<1> QED BY <1>3, <1>4

\* Checkpointed archives are told apart by name, from one another and from the
\* open ones.
LEMMA CheckpointedApart ==
    ASSUME CollectorsTypes, Control, \A p \in Collectors : Numbering(p)
    PROVE  /\ \A x, y \in AllCheckpointed : x # y => Name(x) # Name(y)
           /\ \A x \in AllCheckpointed, p \in Collectors : \A y \in local[p].open : Name(x) # Name(y)
<1>1. ASSUME NEW x \in AllCheckpointed, NEW y \in AllCheckpointed, x # y PROVE Name(x) # Name(y)
  <2>1. PICK p \in Collectors : x \in Checkpointed(p)
    BY DEF AllCheckpointed
  <2>2. PICK q \in Collectors : y \in Checkpointed(q)
    BY DEF AllCheckpointed
  <2>3. x \in Held(p) /\ y \in Held(q)
    BY <2>1, <2>2 DEF Held
  <2>4. CASE p = q
    BY <1>1, <2>1, <2>2, <2>4 DEF Numbering
  <2>5. CASE p # q
    BY <2>3, <2>5, ProcessesApart
  <2> QED BY <2>4, <2>5
<1>2. ASSUME NEW x \in AllCheckpointed, NEW p \in Collectors, NEW y \in local[p].open
      PROVE  Name(x) # Name(y)
  <2>1. PICK q \in Collectors : x \in Checkpointed(q)
    BY DEF AllCheckpointed
  <2>2. x \in Held(q) /\ y \in Held(p)
    BY <2>1 DEF Held
  <2>3. CASE p = q
    BY <2>1, <2>3 DEF Numbering
  <2>4. CASE p # q
    BY <2>2, <2>4, ProcessesApart
  <2> QED BY <2>3, <2>4
<1> QED BY <1>1, <1>2

\* A step of one process in its own memory.
LEMMA MoveKeeps ==
    ASSUME CollectKept, NEW p \in Collectors, NEW l \in LocalMemory, NEW place \in Places,
           UNCHANGED <<checkpoints, sealed, plan, raw, ledger, orphans, supervisor>>,
           pc[p] \notin {"off", "failed"}, place \notin {"recover", "failed", "checkpoint"},
           local' = [local EXCEPT ![p] = l], pc' = [pc EXCEPT ![p] = place],
           place \in {"off", "publish", "mark"} => l.open = {},
           place = "mark" => p \notin WorkerSet,
           outcome' \in [Sources -> Outcomes]
    PROVE  /\ CollectorsTypes' /\ Control' /\ Durable' /\ \A q \in Collectors \ {p} : Numbering(q)'
           /\ l.open \subseteq local[p].open /\ (Running(p)' => Running(p) /\ l.next = local[p].next)
                => CollectKept'
           /\ local'[p] = l /\ pc'[p] = place
<1>1. CollectorsTypes /\ Control /\ Durable /\ \A q \in Collectors : Numbering(q)
  BY DEF CollectKept
<1>2. local'[p] = l /\ pc'[p] = place
      /\ \A q \in Collectors \ {p} : local'[q] = local[q] /\ pc'[q] = pc[q]
  BY <1>1 DEF CollectorsTypes
<1>3. CollectorsTypes'
  <2>1. local' \in [Collectors -> LocalMemory] /\ pc' \in [Collectors -> Places]
    BY <1>1 DEF CollectorsTypes
  <2> QED BY <1>1, <2>1 DEF CollectorsTypes
<1>4. Control'
  <2>1. \A q \in Collectors :
          /\ pc'[q] \in {"off", "recover", "failed", "publish", "mark"} => local'[q].open = {}
          /\ pc'[q] = "failed" => q \in WorkerSet
          /\ pc'[q] = "mark" => q \notin WorkerSet
    BY <1>1, <1>2 DEF Control
  <2>2. \A q \in Collectors : pc[q] = "off" => pc'[q] = "off"
    BY <1>2
  <2>3. Cursor("stack")' = Cursor("stack")
    BY DEF Cursor, FirstCursor
  <2>4. "stack" \in Collectors /\ WorkerSet \subseteq Collectors
    BY DEF Collectors
  <2>5. /\ supervisor' # "off" => \A q \in Collectors \ WorkerSet : pc'[q] = "off"
        /\ supervisor' \notin {"running", "stopping"} => \A w \in WorkerSet : pc'[w] = "off"
    BY <1>1, <2>2, <2>4 DEF Control
  <2>6. \A q, r \in Collectors \ WorkerSet : pc'[q] # "off" /\ pc'[r] # "off" => q = r
    BY <1>1, <2>2 DEF Control
  <2>7. /\ supervisor' \in {"workers", "running", "stopping", "mark"} => plan' # None
        /\ plan' = None => \A w \in WorkerSet : checkpoints'[w] = <<>>
        /\ plan' # None => pc'["stack"] = "off" /\ plan'.legacy = Cursor("stack")'
    BY <1>1, <2>2, <2>3, <2>4 DEF Control
  <2> QED BY <2>1, <2>5, <2>6, <2>7 DEF Control
<1>5. Durable'
  <2>1. \A q \in Collectors : pc'[q] = "checkpoint" => local'[q].open \subseteq sealed
    BY <1>1, <1>2 DEF Durable
  <2>2. AllCheckpointed' = AllCheckpointed
    BY DEF AllCheckpointed, Checkpointed
  <2> QED BY <1>1, <2>1, <2>2 DEF Durable
<1>6. ASSUME NEW q \in Collectors \ {p} PROVE Numbering(q)'
  <2>1. local'[q].open \subseteq local[q].open
        /\ (Running(q)' => Running(q) /\ local'[q].next = local[q].next)
    BY <1>2 DEF Running
  <2> QED BY <1>1, <2>1, NumberingFrame
<1>7. ASSUME l.open \subseteq local[p].open, Running(p)' => Running(p) /\ l.next = local[p].next
      PROVE  CollectKept'
  <2>1. Numbering(p)'
    BY <1>1, <1>2, <1>7, NumberingFrame
  <2> QED BY <1>3, <1>4, <1>5, <1>6, <2>1 DEF CollectKept
<1> QED BY <1>2, <1>3, <1>4, <1>5, <1>6, <1>7

\* A process at rest has nothing in memory.
LEMMA IdleFacts ==
    Idle \in LocalMemory /\ Idle.open = {}
BY DEF Idle, LocalMemory

\* A process ends its run.
LEMMA LeaveKeeps ==
    ASSUME CollectKept, NEW p \in Collectors, NEW code \in Outcomes, Leave(p, "off", code),
           UNCHANGED <<checkpoints, sealed, plan, raw, ledger, orphans, supervisor>>,
           pc[p] \notin {"off", "failed"}
    PROVE  CollectKept'
<1>1. local' = [local EXCEPT ![p] = Idle] /\ pc' = [pc EXCEPT ![p] = "off"]
  BY DEF Leave, Goto
<1>2. outcome' \in [Sources -> Outcomes]
  BY DEF Leave, CollectKept, CollectorsTypes
<1>3. ~Running(p)'
  BY <1>1 DEF Running, CollectKept, CollectorsTypes
<1>4. Idle \in LocalMemory /\ Idle.open = {} /\ "off" \in Places
  BY IdleFacts DEF Places
<1> DEFINE l == Idle
<1>5. l \in LocalMemory /\ l.open = {} /\ local' = [local EXCEPT ![p] = l]
  BY <1>1, <1>4
<1> HIDE DEF l
<1>6. l.open \subseteq local[p].open
  BY <1>5
<1> QED BY <1>1, <1>2, <1>3, <1>4, <1>5, <1>6, MoveKeeps

\* What a process may need to know before it moves.
LEMMA ProcessFacts ==
    ASSUME CollectKept, NEW p \in Collectors
    PROVE  /\ local[p] \in LocalMemory /\ pc[p] \in Places /\ Numbering(p) /\ Held(p) \subseteq Archive
           /\ quota_status \in [Buckets -> Nat] /\ outcome \in [Sources -> Outcomes]
           /\ SourceOf(p) \in Sources /\ BucketsOf(SourceOf(p)) \subseteq Buckets
           /\ pc[p] # "off" /\ p \in WorkerSet => plan # None
<1>1. CollectorsTypes /\ Control /\ Numbering(p)
  BY DEF CollectKept
<1>2. quota_status \in [Buckets -> Nat]
  BY <1>1, QuotaType DEF CollectorsTypes
<1>3. SourceOf(p) \in Sources /\ BucketsOf(SourceOf(p)) \subseteq Buckets
  BY DEF SourceOf, Sources, Collectors, BucketsOf, Buckets
<1>4. pc[p] # "off" /\ p \in WorkerSet => plan # None
  BY <1>1 DEF Control
<1> QED BY <1>1, <1>2, <1>3, <1>4, HeldArchives DEF CollectorsTypes

\* A process begins from its cursor, with numbers above those in use.
LEMMA BeginKeeps ==
    ASSUME CollectKept, NEW p \in Collectors, Begin(p)
    PROVE  CollectKept'
<1>1. CollectorsTypes /\ Control /\ Durable
  BY DEF CollectKept
<1>2. pc[p] = "recover" /\ Pending(p) = {}
      /\ UNCHANGED <<checkpoints, sealed, plan, raw, ledger, orphans, supervisor>>
  BY DEF Begin, durable, collection
<1>3. CASE p \notin WorkerSet /\ Reached(quota_status, SourceOf(p))
  <2>1. Leave(p, "off", "full")
    BY <1>3 DEF Begin
  <2>2. "full" \in Outcomes
    BY DEF Outcomes
  <2> QED BY <1>2, <2>1, <2>2, LeaveKeeps
<1>4. CASE ~(p \notin WorkerSet /\ Reached(quota_status, SourceOf(p)))
  <2> DEFINE next == IF p \in WorkerSet THEN Cursor(p).next ELSE NextIndices(raw)
             l == [at |-> Cursor(p).at, row |-> Cursor(p).row, next |-> next, open |-> {},
                   totals |-> quota_status, since |-> 0, halt |-> local[p].halt, ended |-> FALSE]
  <2>1. pc' = [pc EXCEPT ![p] = "rows"] /\ local' = [local EXCEPT ![p] = l] /\ outcome' = outcome
    BY <1>4 DEF Begin, Goto, Idle
  <2>2. Cursor(p) \in Cursors
    BY <1>1, <1>2, ProcessFacts, CursorType
  <2>3. PICK u \in Nat : \A a \in raw : a.index <= u
    BY <1>1 DEF CollectorsTypes
  <2>4. /\ NextIndices(raw) \in [Buckets -> Nat]
        /\ \A a \in raw : a.index < NextIndices(raw)[a.bucket]
    BY <1>1, <2>3, NextIndicesFacts DEF CollectorsTypes
  <2>5. next \in [Buckets -> Nat]
    BY <2>2, <2>4 DEF Cursors
  <2>6. l \in LocalMemory /\ l.open = {} /\ l.next = next
    <3>1. local[p].halt \in BOOLEAN /\ quota_status \in [Buckets -> Nat]
      BY ProcessFacts DEF LocalMemory
    <3> HIDE DEF next
    <3> QED BY <2>2, <2>5, <3>1 DEF LocalMemory, Cursors
  <2> HIDE DEF l, next
  <2>7. "rows" \in Places /\ outcome' \in [Sources -> Outcomes]
    BY <2>1, ProcessFacts DEF Places
  <2>8. /\ CollectorsTypes' /\ Control' /\ Durable' /\ \A q \in Collectors \ {p} : Numbering(q)'
        /\ local'[p] = l /\ pc'[p] = "rows"
    BY <1>2, <2>1, <2>6, <2>7, MoveKeeps
  <2>9. Numbering(p)'
    <3>1. Numbering(p)
      BY ProcessFacts
    <3>2. Checkpointed(p)' = Checkpointed(p) /\ Cursor(p)' = Cursor(p)
      BY <1>2 DEF Checkpointed, Cursor, FirstCursor
    <3>3. Held(p)' = Checkpointed(p) /\ Held(p)' \subseteq Held(p) /\ local'[p].open = {}
      BY <2>6, <2>8, <3>2 DEF Held
    <3>4. \A x \in Checkpointed(p) : UsedBelow(p, x, next)
      <4>1. CASE p \in WorkerSet
        BY <3>1, <4>1 DEF Numbering, next
      <4>2. CASE p \notin WorkerSet
        <5>1. Checkpointed(p) \subseteq raw
          BY <1>2 DEF Pending
        <5> QED BY <2>4, <4>2, <5>1 DEF UsedBelow, next
      <4> QED BY <4>1, <4>2
    <3>5. local'[p].next = next
      BY <2>6, <2>8
    <3>6. \A x \in Held(p)' : UsedBelow(p, x, local[p].next)'
      BY <1>2, <3>3, <3>4, <3>5 DEF UsedBelow
    <3>7. /\ p \in WorkerSet => \A x \in Checkpointed(p)' : UsedBelow(p, x, Cursor(p).next)'
          /\ p = "stack" /\ plan' # None => \A x \in Checkpointed(p)' : x.index < plan'.base[x.bucket]
      BY <1>2, <3>1, <3>2 DEF Numbering, UsedBelow
    <3>8. \A x \in Held(p)' : /\ x.bucket \in BucketsOf(SourceOf(p)) /\ x.rows # {}
                              /\ \A r \in x.rows : r.bucket = x.bucket
      BY <3>1, <3>3 DEF Numbering
    <3>9. \A x, y \in Checkpointed(p)' : x # y => Name(x) # Name(y)
      BY <3>1, <3>2 DEF Numbering
    <3> QED BY <3>3, <3>6, <3>7, <3>8, <3>9 DEF Numbering
  <2> QED BY <2>8, <2>9 DEF CollectKept
<1> QED BY <1>3, <1>4

\* The end of a shard moves the cursor.
LEMMA EndShardKeeps ==
    ASSUME CollectKept, NEW p \in Collectors, EndShard(p)
    PROVE  CollectKept'
<1> DEFINE l == [local[p] EXCEPT !.at = @ + 1, !.row = 0, !.ended = TRUE]
<1>1. pc[p] = "rows" /\ UNCHANGED <<checkpoints, sealed, plan, raw, ledger, orphans, supervisor>>
      /\ pc' = [pc EXCEPT ![p] = "commit"] /\ outcome' = outcome
  BY DEF EndShard, durable, collection, Goto
<1>2. local' = [local EXCEPT ![p] = l]
  BY DEF EndShard
<1>3. l \in LocalMemory /\ l.open = local[p].open /\ l.next = local[p].next
  <2>1. local[p] \in LocalMemory
    BY ProcessFacts
  <2>2. local[p].at + 1 \in Nat \ {0}
    BY <2>1 DEF LocalMemory
  <2> QED BY <2>1, <2>2 DEF LocalMemory
<1> HIDE DEF l
<1>4. "commit" \in Places /\ outcome' \in [Sources -> Outcomes] /\ Running(p)
  BY <1>1, ProcessFacts DEF Places, Running
<1> QED BY <1>1, <1>2, <1>3, <1>4, MoveKeeps

\* Its source is read to the end.
LEMMA ExhaustedKeeps ==
    ASSUME CollectKept, NEW p \in Collectors, Exhausted(p)
    PROVE  CollectKept'
<1>1. pc[p] = "rows" /\ UNCHANGED <<checkpoints, sealed, plan, raw, ledger, orphans, supervisor>>
      /\ Leave(p, "off", "exhausted") /\ "exhausted" \in Outcomes
  BY DEF Exhausted, durable, collection, Outcomes
<1> QED BY <1>1, LeaveKeeps

\* The totals are read again.
LEMMA CommittedKeeps ==
    ASSUME CollectKept, NEW p \in Collectors, Committed(p)
    PROVE  CollectKept'
<1>1. pc[p] = "publish" /\ UNCHANGED <<checkpoints, sealed, plan, raw, ledger, orphans, supervisor>>
  BY DEF Committed, durable, collection
<1> DEFINE l == [local[p] EXCEPT !.totals = quota_status, !.since = 0]
<1>2. l \in LocalMemory /\ l.open = local[p].open /\ l.next = local[p].next
  BY ProcessFacts DEF LocalMemory
<1>3. \/ /\ pc' = [pc EXCEPT ![p] = "rows"] /\ local' = [local EXCEPT ![p] = l] /\ outcome' = outcome
      \/ /\ pc' = [pc EXCEPT ![p] = "mark"] /\ local' = [local EXCEPT ![p] = l] /\ outcome' = outcome
         /\ p \notin WorkerSet
      \/ Leave(p, "off", "stopped")
  BY DEF Committed, Goto
<1> HIDE DEF l
<1>4. "rows" \in Places /\ "mark" \in Places /\ outcome \in [Sources -> Outcomes] /\ Running(p)
      /\ "stopped" \in Outcomes /\ local[p].open = {}
  BY <1>1, ProcessFacts DEF Places, Running, Outcomes, CollectKept, Control
<1>5. CASE pc' = [pc EXCEPT ![p] = "rows"] /\ local' = [local EXCEPT ![p] = l] /\ outcome' = outcome
  BY <1>1, <1>2, <1>4, <1>5, MoveKeeps
<1>6. CASE pc' = [pc EXCEPT ![p] = "mark"] /\ local' = [local EXCEPT ![p] = l] /\ outcome' = outcome
           /\ p \notin WorkerSet
  <2>1. l.open = {} /\ l.open \subseteq local[p].open /\ outcome' \in [Sources -> Outcomes]
    BY <1>2, <1>4, <1>6
  <2>2. Running(p) /\ l.next = local[p].next /\ p \notin WorkerSet /\ "mark" \in Places
    BY <1>2, <1>4, <1>6
  <2> QED BY <1>1, <1>2, <1>6, <2>1, <2>2, MoveKeeps
<1>7. CASE Leave(p, "off", "stopped")
  BY <1>1, <1>4, <1>7, LeaveKeeps
<1> QED BY <1>3, <1>5, <1>6, <1>7

\* The completion marker is written.
LEMMA MarkKeeps ==
    ASSUME CollectKept, NEW p \in Collectors, Mark(p)
    PROVE  CollectKept'
<1>1. pc[p] = "mark" /\ UNCHANGED <<checkpoints, sealed, plan, raw, ledger, orphans, supervisor>>
      /\ Leave(p, "off", "complete") /\ "complete" \in Outcomes
  BY DEF Mark, Outcomes
<1> QED BY <1>1, LeaveKeeps

\* The row a process takes and what becomes of its memory.
RowAt(p) == Shard(p, local[p].at)[local[p].row + 1]
Filled(p) == IF live_total(p, RowAt(p).bucket) < Target[RowAt(p).bucket]
             THEN Opened(p, RowAt(p)) ELSE local[p]
\* What taking a row does: leave, be due for a checkpoint, or go on.
LEMMA TakeRowCases ==
    ASSUME CollectKept, NEW p \in Collectors, TakeRow(p)
    PROVE  /\ pc[p] = "rows" /\ HasShard(p, local[p].at) /\ local[p].row < Len(Shard(p, local[p].at))
           /\ RowAt(p) \in RowsOf(SourceOf(p)) /\ UNCHANGED <<durable, supervisor>>
           /\ \/ Leave(p, "off", "stopped")
              \/ /\ outcome' = outcome
                 /\ \/ /\ pc' = [pc EXCEPT ![p] = "commit"]
                       /\ \E halt \in BOOLEAN :
                             local' = [local EXCEPT ![p] =
                                [Filled(p) EXCEPT !.row = @ + 1, !.halt = halt, !.ended = FALSE]]
                    \/ /\ pc' = [pc EXCEPT ![p] = "rows"] /\ local[p].since + 1 < CheckpointRows
                       /\ local' = [local EXCEPT ![p] = [Filled(p) EXCEPT !.row = @ + 1, !.since = @ + 1]]
<1>1. pc[p] = "rows" /\ HasShard(p, local[p].at) /\ local[p].row < Len(Shard(p, local[p].at))
      /\ UNCHANGED <<durable, supervisor>>
  BY DEF TakeRow
<1>2. local[p] \in LocalMemory /\ (p \in WorkerSet => plan # None)
  BY <1>1, ProcessFacts
<1>3. local[p].at \in Nat \ {0} /\ local[p].row \in Nat /\ local[p].halt \in BOOLEAN /\ local[p].since \in Nat
  BY <1>2 DEF LocalMemory
<1>4. Shard(p, local[p].at) \in Seq(RowsOf(SourceOf(p)))
  BY <1>1, <1>2, <1>3, ShardFacts DEF CollectKept
<1>5. RowAt(p) \in RowsOf(SourceOf(p))
  <2> DEFINE q == Shard(p, local[p].at)
             i == local[p].row + 1
  <2>1. q \in Seq(RowsOf(SourceOf(p))) /\ i \in 1..Len(q)
    BY <1>1, <1>3, <1>4
  <2>2. RowAt(p) = q[i]
    BY DEF RowAt
  <2> HIDE DEF q, i
  <2> QED BY <2>1, <2>2
<1>6. PICK quit \in {FALSE} \cup {faults < MaxFaults} :
         LET r == Shard(p, local[p].at)[local[p].row + 1]
             filled == IF live_total(p, r.bucket) < Target[r.bucket] THEN Opened(p, r) ELSE local[p]
             reached == \E a \in filled.open :
                           filled.totals[a.bucket] + Tokens(filled.open, a.bucket) >= Target[a.bucket]
             stop == quit \/ local[p].halt
         IN  /\ faults' = faults + (IF quit THEN 1 ELSE 0)
             /\ IF stop \/ reached \/ local[p].since + 1 >= CheckpointRows
                THEN /\ Goto(p, "commit") /\ UNCHANGED outcome
                     /\ local' = [local EXCEPT ![p] =
                          [filled EXCEPT !.row = @ + 1, !.halt = stop, !.ended = FALSE]]
                ELSE IF Reached(local[p].totals, SourceOf(p)) THEN Leave(p, "off", "stopped")
                ELSE /\ UNCHANGED <<pc, outcome>>
                     /\ local' = [local EXCEPT ![p] =
                          [filled EXCEPT !.row = @ + 1, !.since = @ + 1]]
  BY DEF TakeRow
<1> DEFINE filled == Filled(p)
           reached == \E a \in filled.open :
                         filled.totals[a.bucket] + Tokens(filled.open, a.bucket) >= Target[a.bucket]
           stop == quit \/ local[p].halt
<1>7. IF stop \/ reached \/ local[p].since + 1 >= CheckpointRows
      THEN /\ Goto(p, "commit") /\ UNCHANGED outcome
           /\ local' = [local EXCEPT ![p] =
                [filled EXCEPT !.row = @ + 1, !.halt = stop, !.ended = FALSE]]
      ELSE IF Reached(local[p].totals, SourceOf(p)) THEN Leave(p, "off", "stopped")
      ELSE /\ UNCHANGED <<pc, outcome>>
           /\ local' = [local EXCEPT ![p] =
                [filled EXCEPT !.row = @ + 1, !.since = @ + 1]]
  BY <1>6 DEF Filled, RowAt
<1>8. stop \in BOOLEAN
  BY Zenon
<1> HIDE DEF filled, reached, stop
<1>9. CASE stop \/ reached \/ local[p].since + 1 >= CheckpointRows
  <2>1. pc' = [pc EXCEPT ![p] = "commit"] /\ outcome' = outcome
        /\ local' = [local EXCEPT ![p] = [filled EXCEPT !.row = @ + 1, !.halt = stop, !.ended = FALSE]]
    BY <1>7, <1>9 DEF Goto
  <2>2. \E halt \in BOOLEAN :
           local' = [local EXCEPT ![p] = [filled EXCEPT !.row = @ + 1, !.halt = halt, !.ended = FALSE]]
    BY <1>8, <2>1
  <2> QED BY <1>1, <1>5, <2>1, <2>2 DEF filled
<1>10. CASE ~(stop \/ reached \/ local[p].since + 1 >= CheckpointRows)
  <2>1. CASE Reached(local[p].totals, SourceOf(p))
    BY <1>1, <1>5, <1>7, <1>10, <2>1
  <2>2. CASE ~Reached(local[p].totals, SourceOf(p))
    <3>1. UNCHANGED <<pc, outcome>>
          /\ local' = [local EXCEPT ![p] = [filled EXCEPT !.row = @ + 1, !.since = @ + 1]]
      BY <1>7, <1>10, <2>2
    <3>2. pc' = [pc EXCEPT ![p] = "rows"]
      BY <1>1, <3>1 DEF CollectKept, CollectorsTypes
    <3>3. local[p].since + 1 < CheckpointRows
      BY <1>3, <1>10, CollectorsAssumption
    <3> QED BY <1>1, <1>5, <3>1, <3>2, <3>3 DEF filled
  <2> QED BY <2>1, <2>2
<1> QED BY <1>9, <1>10

\* The row goes to the open archive of its bucket, or to a new one whose name
\* nothing the process holds has.
LEMMA OpenedFacts ==
    ASSUME CollectKept, NEW p \in Collectors, pc[p] = "rows", NEW r \in RowsOf(SourceOf(p))
    PROVE  /\ Opened(p, r) \in LocalMemory
           /\ Opened(p, r).at = local[p].at /\ Opened(p, r).row = local[p].row
           /\ Opened(p, r).totals = local[p].totals /\ Opened(p, r).since = local[p].since
           /\ r.bucket \in BucketsOf(SourceOf(p)) /\ r.bucket \in Buckets
           /\ \/ \E m \in local[p].open :
                    /\ m.bucket = r.bucket /\ Opened(p, r).next = local[p].next
                    /\ Opened(p, r).open = (local[p].open \ {m})
                          \cup {[bucket |-> r.bucket, index |-> m.index, rows |-> m.rows \cup {r}]}
              \/ /\ \A m \in local[p].open : m.bucket # r.bucket
                 /\ Opened(p, r).next = [local[p].next EXCEPT ![r.bucket] = @ + 1]
                 /\ ArchiveIndex(p, r.bucket) \in Nat
                 /\ Opened(p, r).open = local[p].open
                       \cup {[bucket |-> r.bucket, index |-> ArchiveIndex(p, r.bucket), rows |-> {r}]}
<1>1. local[p] \in LocalMemory /\ Numbering(p) /\ Held(p) \subseteq Archive /\ SourceOf(p) \in Sources
      /\ BucketsOf(SourceOf(p)) \subseteq Buckets /\ (p \in WorkerSet => plan # None)
  BY ProcessFacts
<1>2. r \in Rows /\ r.bucket \in BucketsOf(SourceOf(p)) /\ r.bucket \in Buckets
  BY <1>1, RowsAssumption DEF Rows
<1>3. local[p].next \in [Buckets -> Nat] /\ local[p].open \subseteq Archive
  BY <1>1 DEF LocalMemory
<1> DEFINE mine == {a \in local[p].open : a.bucket = r.bucket}
           before == IF mine = {} THEN {} ELSE (CHOOSE a \in mine : TRUE).rows
           number == IF mine = {} THEN ArchiveIndex(p, r.bucket) ELSE (CHOOSE a \in mine : TRUE).index
           open == (local[p].open \ mine)
                      \cup {[bucket |-> r.bucket, index |-> number, rows |-> before \cup {r}]}
           next == [local[p].next EXCEPT ![r.bucket] = IF mine = {} THEN @ + 1 ELSE @]
<1>4. Opened(p, r) = [local[p] EXCEPT !.open = open, !.next = next]
  BY <1>1 DEF Opened, LocalMemory
<1>5. CASE mine = {}
  <2>1. ArchiveIndex(p, r.bucket) \in Nat
    <3>1. CASE p \in WorkerSet
      <4> DEFINE n == Len(Workers) * local[p].next[r.bucket]
      <4>1. n \in Nat /\ WorkerId(p) \in Nat /\ plan.base[r.bucket] \in Nat
        <5>1. plan \in Plans
          BY <1>1, <3>1 DEF CollectKept, CollectorsTypes
        <5>2. plan.base[r.bucket] \in Nat
          BY <1>2, <5>1 DEF Plans
        <5>3. Len(Workers) \in Nat /\ WorkerId(p) \in Nat /\ local[p].next[r.bucket] \in Nat
          BY <1>2, <1>3, <3>1, WorkerIds
        <5> QED BY <5>2, <5>3
      <4>2. ArchiveIndex(p, r.bucket) = plan.base[r.bucket] + WorkerId(p) + n
        BY <3>1 DEF ArchiveIndex
      <4> HIDE DEF n
      <4> QED BY <4>1, <4>2
    <3>2. CASE p \notin WorkerSet
      BY <1>2, <1>3, <3>2 DEF ArchiveIndex
    <3> QED BY <3>1, <3>2
  <2>2. next = [local[p].next EXCEPT ![r.bucket] = @ + 1] /\ next \in [Buckets -> Nat]
    BY <1>2, <1>3, <1>5
  <2>3. open = local[p].open
                 \cup {[bucket |-> r.bucket, index |-> ArchiveIndex(p, r.bucket), rows |-> {r}]}
    BY <1>5
  <2>4. open \subseteq Archive
    BY <1>2, <1>3, <2>1, <2>3 DEF Archive
  <2>5. \A m \in local[p].open : m.bucket # r.bucket
    BY <1>5
  <2> HIDE DEF mine, before, number, open, next
  <2>6. /\ Opened(p, r) \in LocalMemory
        /\ Opened(p, r).at = local[p].at /\ Opened(p, r).row = local[p].row
        /\ Opened(p, r).totals = local[p].totals /\ Opened(p, r).since = local[p].since
        /\ Opened(p, r).open = open /\ Opened(p, r).next = next
    BY <1>1, <1>4, <2>2, <2>4 DEF LocalMemory
  <2> QED BY <1>2, <2>1, <2>2, <2>3, <2>5, <2>6
<1>6. CASE mine # {}
  <2> DEFINE m == CHOOSE a \in mine : TRUE
  <2>1. m \in mine
    BY <1>6
  <2>2. m \in local[p].open /\ m.bucket = r.bucket
    BY <2>1
  <2>3. mine = {m}
    BY <1>1, <2>1 DEF Numbering
  <2>4. next = local[p].next /\ next \in [Buckets -> Nat]
    BY <1>2, <1>3, <1>6
  <2>5. number = m.index /\ before = m.rows
    BY <1>6
  <2>6. open = (local[p].open \ {m})
                 \cup {[bucket |-> r.bucket, index |-> m.index, rows |-> m.rows \cup {r}]}
    <3> HIDE DEF m, mine, number, before
    <3> QED BY <2>3, <2>5
  <2> HIDE DEF m, mine, before, number, open, next
  <2>7. open \subseteq Archive
    BY <1>2, <1>3, <2>2, <2>6 DEF Archive
  <2>8. /\ Opened(p, r) \in LocalMemory
        /\ Opened(p, r).at = local[p].at /\ Opened(p, r).row = local[p].row
        /\ Opened(p, r).totals = local[p].totals /\ Opened(p, r).since = local[p].since
        /\ Opened(p, r).open = open /\ Opened(p, r).next = next
    BY <1>1, <1>4, <2>4, <2>7 DEF LocalMemory
  <2> QED BY <1>2, <2>2, <2>4, <2>6, <2>8
<1> QED BY <1>5, <1>6

\* A new archive's number is one the process has not used.
LEMMA FreshIndex ==
    ASSUME CollectKept, NEW p \in Collectors, pc[p] = "rows", NEW b \in Buckets
    PROVE  /\ \A x \in Held(p) : x.bucket = b => x.index # ArchiveIndex(p, b)
           /\ \A x \in Archive, next \in [Buckets -> Nat] :
                 UsedBelow(p, x, next) => UsedBelow(p, x, [next EXCEPT ![b] = @ + 1])
           /\ \A x \in Archive : x.bucket = b /\ x.index = ArchiveIndex(p, b)
                 => UsedBelow(p, x, [local[p].next EXCEPT ![b] = @ + 1])
<1>1. local[p] \in LocalMemory /\ Numbering(p) /\ Held(p) \subseteq Archive
      /\ (p \in WorkerSet => plan # None)
  BY ProcessFacts
<1>2. Running(p) /\ local[p].next \in [Buckets -> Nat]
  BY <1>1 DEF Running, LocalMemory
<1> DEFINE now == local[p].next[b]
           n == Len(Workers)
           u == plan.base[b] + WorkerId(p)
<1>3. now \in Nat /\ n \in Nat \ {0}
  BY <1>2, WorkerIds
<1>4. CASE p \in WorkerSet
  <2>1. u \in Nat
    <3>1. plan \in Plans
      BY <1>1, <1>4 DEF CollectKept, CollectorsTypes
    <3>2. plan.base[b] \in Nat
      BY <3>1 DEF Plans
    <3>3. WorkerId(p) \in Nat
      BY <1>4, WorkerIds
    <3> QED BY <3>2, <3>3
  <2>2. ArchiveIndex(p, b) = u + n * now
    BY <1>4 DEF ArchiveIndex
  <2>3. ASSUME NEW x \in Held(p), x.bucket = b PROVE x.index # ArchiveIndex(p, b)
    <3>1. UsedBelow(p, x, local[p].next)
      BY <1>1, <1>2 DEF Numbering
    <3>2. PICK k \in 0..(now - 1) : x.index = u + n * k
      BY <1>4, <2>3, <3>1 DEF UsedBelow
    <3> HIDE DEF u, n, now
    <3>3. k \in Nat /\ k # now
      BY <1>3
    <3>4. n * k # n * now
      <4> DEFINE d == now - k - 1
      <4>1. d \in Nat /\ now = k + 1 + d
        BY <1>3
      <4> HIDE DEF d
      <4>2. n * now = n * k + n + n * d /\ n * d \in Nat /\ n * k \in Nat
        BY <1>3, <3>3, <4>1
      <4> QED BY <1>3, <4>2
    <3>5. n * k \in Nat /\ n * now \in Nat
      BY <1>3, <3>3
    <3> QED BY <2>1, <2>2, <3>2, <3>4, <3>5
  <2>4. ASSUME NEW x \in Archive, NEW next \in [Buckets -> Nat], UsedBelow(p, x, next)
        PROVE  UsedBelow(p, x, [next EXCEPT ![b] = @ + 1])
    <3>1. PICK k \in 0..(next[x.bucket] - 1) :
             x.index = plan.base[x.bucket] + WorkerId(p) + Len(Workers) * k
      BY <1>4, <2>4 DEF UsedBelow
    <3>2. x.bucket \in Buckets
      BY DEF Archive
    <3>3. k \in 0..([next EXCEPT ![b] = @ + 1][x.bucket] - 1)
      BY <3>2
    <3> QED BY <1>4, <3>1, <3>3 DEF UsedBelow
  <2>5. ASSUME NEW x \in Archive, x.bucket = b, x.index = ArchiveIndex(p, b)
        PROVE  UsedBelow(p, x, [local[p].next EXCEPT ![b] = @ + 1])
    <3>1. now \in 0..([local[p].next EXCEPT ![b] = @ + 1][b] - 1)
      BY <1>2, <1>3
    <3>2. x.index = plan.base[x.bucket] + WorkerId(p) + Len(Workers) * now
      BY <2>2, <2>5
    <3> HIDE DEF now
    <3> QED BY <1>4, <2>5, <3>1, <3>2 DEF UsedBelow
  <2> QED BY <2>3, <2>4, <2>5
<1>5. CASE p \notin WorkerSet
  <2>1. ArchiveIndex(p, b) = now
    BY <1>5 DEF ArchiveIndex
  <2>2. ASSUME NEW x \in Held(p), x.bucket = b PROVE x.index # ArchiveIndex(p, b)
    <3>1. x.index < now
      BY <1>1, <1>2, <1>5, <2>2 DEF Numbering, UsedBelow
    <3> QED BY <1>1, <1>3, <2>1, <3>1 DEF Archive
  <2>3. \A x \in Archive, next \in [Buckets -> Nat] :
                 UsedBelow(p, x, next) => UsedBelow(p, x, [next EXCEPT ![b] = @ + 1])
    BY <1>5 DEF UsedBelow, Archive
  <2>4. \A x \in Archive : x.bucket = b /\ x.index = ArchiveIndex(p, b)
                 => UsedBelow(p, x, [local[p].next EXCEPT ![b] = @ + 1])
    BY <1>2, <1>3, <1>5, <2>1 DEF UsedBelow, Archive
  <2> QED BY <2>2, <2>3, <2>4
<1> QED BY <1>4, <1>5

\* What the process holds once it has taken the row is numbered as before.
LEMMA OpenedNumbering ==
    ASSUME CollectKept, NEW p \in Collectors, pc[p] = "rows", NEW r \in RowsOf(SourceOf(p))
    PROVE  LET o == Opened(p, r).open
               next == Opened(p, r).next
               held == Checkpointed(p) \cup o
           IN  /\ \A x \in held : /\ x.bucket \in BucketsOf(SourceOf(p)) /\ x.rows # {}
                                  /\ \A y \in x.rows : y.bucket = x.bucket
               /\ \A x \in Checkpointed(p), y \in o : Name(x) # Name(y)
               /\ \A x, y \in o : x # y => x.bucket # y.bucket
               /\ \A x \in held : UsedBelow(p, x, next)
<1> DEFINE o == Opened(p, r).open
           next == Opened(p, r).next
           held == Checkpointed(p) \cup o
           b == r.bucket
<1>1. Numbering(p) /\ Held(p) \subseteq Archive /\ Running(p) /\ local[p] \in LocalMemory
  BY ProcessFacts DEF Running
<1>2. b \in BucketsOf(SourceOf(p)) /\ b \in Buckets /\ Opened(p, r) \in LocalMemory
  BY OpenedFacts
<1>3. /\ \A x \in Held(p) : /\ x.bucket \in BucketsOf(SourceOf(p)) /\ x.rows # {}
                            /\ \A y \in x.rows : y.bucket = x.bucket
      /\ \A x \in Checkpointed(p), y \in local[p].open : Name(x) # Name(y)
      /\ \A x, y \in local[p].open : x # y => x.bucket # y.bucket
      /\ \A x \in Held(p) : UsedBelow(p, x, local[p].next)
  BY <1>1 DEF Numbering
<1>4. Checkpointed(p) \subseteq Held(p) /\ local[p].open \subseteq Held(p)
  BY DEF Held
<1> SUFFICES
      /\ \A x \in held : /\ x.bucket \in BucketsOf(SourceOf(p)) /\ x.rows # {}
                         /\ \A y \in x.rows : y.bucket = x.bucket
      /\ \A x \in Checkpointed(p), y \in o : Name(x) # Name(y)
      /\ \A x, y \in o : x # y => x.bucket # y.bucket
      /\ \A x \in held : UsedBelow(p, x, next)
  OBVIOUS
<1>5. ASSUME NEW m \in local[p].open, m.bucket = b, next = local[p].next,
             o = (local[p].open \ {m}) \cup {[bucket |-> b, index |-> m.index, rows |-> m.rows \cup {r}]}
      PROVE  /\ \A x \in held : /\ x.bucket \in BucketsOf(SourceOf(p)) /\ x.rows # {}
                                /\ \A y \in x.rows : y.bucket = x.bucket
             /\ \A x \in Checkpointed(p), y \in o : Name(x) # Name(y)
             /\ \A x, y \in o : x # y => x.bucket # y.bucket
             /\ \A x \in held : UsedBelow(p, x, next)
  <2> DEFINE z == [bucket |-> b, index |-> m.index, rows |-> m.rows \cup {r}]
  <2>1. z.bucket = b /\ z.index = m.index /\ z.rows = m.rows \cup {r}
    OBVIOUS
  <2>2. o = (local[p].open \ {m}) \cup {z}
    BY <1>5
  <2>3. next = local[p].next
    BY <1>5
  <2> HIDE DEF z, o, next
  <2>4. UsedBelow(p, z, next)
    BY <1>3, <1>4, <1>5, <2>1, <2>3 DEF UsedBelow
  <2>5. \A x \in Checkpointed(p) : Name(x) # Name(z)
    BY <1>3, <1>5, <2>1 DEF Name
  <2>6. \A x \in local[p].open \ {m} : x.bucket # z.bucket
    BY <1>3, <1>5, <2>1
  <2>7. z.bucket \in BucketsOf(SourceOf(p)) /\ z.rows # {} /\ \A y \in z.rows : y.bucket = z.bucket
    BY <1>2, <1>3, <1>4, <1>5, <2>1
  <2>8. \A x \in held : x \in Held(p) \/ x = z
    BY <1>4, <2>2
  <2>9. /\ \A x \in held : /\ x.bucket \in BucketsOf(SourceOf(p)) /\ x.rows # {}
                           /\ \A y \in x.rows : y.bucket = x.bucket
    BY <1>3, <2>7, <2>8
  <2>10. \A x \in Checkpointed(p), y \in o : Name(x) # Name(y)
    BY <1>3, <2>2, <2>5
  <2>11. \A x, y \in o : x # y => x.bucket # y.bucket
    BY <1>3, <2>2, <2>6
  <2>12. \A x \in held : UsedBelow(p, x, next)
    BY <1>3, <2>3, <2>4, <2>8
  <2> QED BY <2>9, <2>10, <2>11, <2>12
<1>6. ASSUME \A m \in local[p].open : m.bucket # b, next = [local[p].next EXCEPT ![b] = @ + 1],
             ArchiveIndex(p, b) \in Nat,
             o = local[p].open \cup {[bucket |-> b, index |-> ArchiveIndex(p, b), rows |-> {r}]}
      PROVE  /\ \A x \in held : /\ x.bucket \in BucketsOf(SourceOf(p)) /\ x.rows # {}
                                /\ \A y \in x.rows : y.bucket = x.bucket
             /\ \A x \in Checkpointed(p), y \in o : Name(x) # Name(y)
             /\ \A x, y \in o : x # y => x.bucket # y.bucket
             /\ \A x \in held : UsedBelow(p, x, next)
  <2> DEFINE z == [bucket |-> b, index |-> ArchiveIndex(p, b), rows |-> {r}]
  <2>1. z.bucket = b /\ z.index = ArchiveIndex(p, b) /\ z.rows = {r}
    OBVIOUS
  <2>2. o = local[p].open \cup {z}
    BY <1>6
  <2>3. z \in Archive
    BY <1>2, <1>6 DEF Archive, Rows, LocalMemory
  <2>4. next = [local[p].next EXCEPT ![b] = @ + 1] /\ local[p].next \in [Buckets -> Nat]
    BY <1>1, <1>6 DEF LocalMemory
  <2> HIDE DEF z, o, next
  <2>5. UsedBelow(p, z, next) /\ \A x \in Held(p) : UsedBelow(p, x, next)
    BY <1>1, <1>2, <1>3, <2>1, <2>3, <2>4, FreshIndex
  <2>6. \A x \in Held(p) : Name(x) # Name(z)
    BY <1>2, <2>1, FreshIndex DEF Name
  <2>7. z.bucket \in BucketsOf(SourceOf(p)) /\ z.rows # {} /\ \A y \in z.rows : y.bucket = z.bucket
    BY <1>2, <2>1
  <2>8. \A x \in held : x \in Held(p) \/ x = z
    BY <1>4, <2>2
  <2>9. /\ \A x \in held : /\ x.bucket \in BucketsOf(SourceOf(p)) /\ x.rows # {}
                           /\ \A y \in x.rows : y.bucket = x.bucket
    BY <1>3, <2>7, <2>8
  <2>10. \A x \in Checkpointed(p), y \in o : Name(x) # Name(y)
    BY <1>3, <1>4, <2>2, <2>6
  <2>11. \A x, y \in o : x # y => x.bucket # y.bucket
    BY <1>3, <1>6, <2>1, <2>2
  <2>12. \A x \in held : UsedBelow(p, x, next)
    BY <2>5, <2>8
  <2> QED BY <2>9, <2>10, <2>11, <2>12
<1>7. \/ \E m \in local[p].open :
            /\ m.bucket = b /\ next = local[p].next
            /\ o = (local[p].open \ {m}) \cup {[bucket |-> b, index |-> m.index, rows |-> m.rows \cup {r}]}
      \/ /\ \A m \in local[p].open : m.bucket # b
         /\ next = [local[p].next EXCEPT ![b] = @ + 1] /\ ArchiveIndex(p, b) \in Nat
         /\ o = local[p].open \cup {[bucket |-> b, index |-> ArchiveIndex(p, b), rows |-> {r}]}
  BY OpenedFacts
<1> HIDE DEF o, next, held, b
<1> QED BY <1>5, <1>6, <1>7

\* The memory of a process that has taken a row.
LEMMA FilledFacts ==
    ASSUME CollectKept, NEW p \in Collectors, TakeRow(p)
    PROVE  /\ Filled(p) \in LocalMemory
           /\ Filled(p).at = local[p].at /\ Filled(p).row = local[p].row
           /\ Filled(p).totals = local[p].totals /\ Filled(p).since = local[p].since
BY TakeRowCases, OpenedFacts, ProcessFacts DEF Filled

\* A row is taken.
LEMMA TakeRowKeeps ==
    ASSUME CollectKept, NEW p \in Collectors, TakeRow(p)
    PROVE  CollectKept'
<1>1. /\ pc[p] = "rows" /\ RowAt(p) \in RowsOf(SourceOf(p))
      /\ UNCHANGED <<checkpoints, sealed, plan, raw, ledger, orphans, supervisor>>
  BY TakeRowCases DEF durable, collection
<1>2. Filled(p) \in LocalMemory
  BY FilledFacts
<1>3. Numbering(p) /\ local[p] \in LocalMemory /\ outcome \in [Sources -> Outcomes]
  BY ProcessFacts
<1>4. CASE Leave(p, "off", "stopped")
  <2>1. "stopped" \in Outcomes
    BY DEF Outcomes
  <2> QED BY <1>1, <1>4, <2>1, LeaveKeeps
<1>5. ASSUME NEW l \in LocalMemory, NEW place \in {"commit", "rows"}, outcome' = outcome,
             pc' = [pc EXCEPT ![p] = place], local' = [local EXCEPT ![p] = l],
             l.open = Filled(p).open, l.next = Filled(p).next
      PROVE  CollectKept'
  <2>1. place \in Places /\ outcome' \in [Sources -> Outcomes]
    BY <1>3, <1>5 DEF Places
  <2>2. /\ CollectorsTypes' /\ Control' /\ Durable' /\ \A q \in Collectors \ {p} : Numbering(q)'
        /\ l.open \subseteq local[p].open /\ (Running(p)' => Running(p) /\ l.next = local[p].next)
             => CollectKept'
        /\ local'[p] = l /\ pc'[p] = place
    BY <1>1, <1>5, <2>1, MoveKeeps
  <2>3. CASE Filled(p) = local[p]
    <3>1. Running(p)
      BY <1>1 DEF Running
    <3> QED BY <1>5, <2>2, <2>3, <3>1
  <2>4. CASE Filled(p) = Opened(p, RowAt(p))
    <3>1. Checkpointed(p)' = Checkpointed(p) /\ Cursor(p)' = Cursor(p)
      BY <1>1 DEF Checkpointed, Cursor, FirstCursor
    <3> DEFINE o == Opened(p, RowAt(p)).open
               next == Opened(p, RowAt(p)).next
               held == Checkpointed(p) \cup o
    <3>2. local'[p].open = o /\ local'[p].next = next
      BY <1>5, <2>2, <2>4
    <3>3. /\ \A x \in held : /\ x.bucket \in BucketsOf(SourceOf(p)) /\ x.rows # {}
                             /\ \A y \in x.rows : y.bucket = x.bucket
          /\ \A x \in Checkpointed(p), y \in o : Name(x) # Name(y)
          /\ \A x, y \in o : x # y => x.bucket # y.bucket
          /\ \A x \in held : UsedBelow(p, x, next)
      BY <1>1, OpenedNumbering
    <3> HIDE DEF o, next
    <3>4. Held(p)' = held
      BY <3>1, <3>2 DEF Held
    <3>5. \A x \in Held(p)' : UsedBelow(p, x, local[p].next)'
      BY <1>1, <3>2, <3>3, <3>4 DEF UsedBelow
    <3>6. /\ p \in WorkerSet => \A x \in Checkpointed(p)' : UsedBelow(p, x, Cursor(p).next)'
          /\ p = "stack" /\ plan' # None => \A x \in Checkpointed(p)' : x.index < plan'.base[x.bucket]
      BY <1>1, <1>3, <3>1 DEF Numbering, UsedBelow
    <3>7. \A x, y \in Checkpointed(p)' : x # y => Name(x) # Name(y)
      BY <1>3, <3>1 DEF Numbering
    <3>8. Numbering(p)'
      BY <3>1, <3>2, <3>3, <3>4, <3>5, <3>6, <3>7 DEF Numbering
    <3> QED BY <2>2, <3>8 DEF CollectKept
  <2> QED BY <2>3, <2>4 DEF Filled
<1>6. ASSUME NEW halt \in BOOLEAN, outcome' = outcome, pc' = [pc EXCEPT ![p] = "commit"],
             local' = [local EXCEPT ![p] = [Filled(p) EXCEPT !.row = @ + 1, !.halt = halt, !.ended = FALSE]]
      PROVE  CollectKept'
  <2> DEFINE f == Filled(p)
             l == [f EXCEPT !.row = @ + 1, !.halt = halt, !.ended = FALSE]
  <2>1. f \in LocalMemory /\ local' = [local EXCEPT ![p] = l]
    BY <1>2, <1>6
  <2> HIDE DEF f
  <2>2. l \in LocalMemory /\ l.open = f.open /\ l.next = f.next
    <3>1. f.row + 1 \in Nat /\ f.since + 1 \in Nat
      BY <2>1 DEF LocalMemory
    <3> QED BY <2>1, <3>1 DEF LocalMemory
  <2> HIDE DEF l
  <2>3. l.open = Filled(p).open /\ l.next = Filled(p).next
    BY <2>2 DEF f
  <2> QED BY <1>5, <1>6, <2>1, <2>2, <2>3
<1>7. ASSUME outcome' = outcome, pc' = [pc EXCEPT ![p] = "rows"],
             local' = [local EXCEPT ![p] = [Filled(p) EXCEPT !.row = @ + 1, !.since = @ + 1]]
      PROVE  CollectKept'
  <2> DEFINE f == Filled(p)
             l == [f EXCEPT !.row = @ + 1, !.since = @ + 1]
  <2>1. f \in LocalMemory /\ local' = [local EXCEPT ![p] = l]
    BY <1>2, <1>7
  <2> HIDE DEF f
  <2>2. l \in LocalMemory /\ l.open = f.open /\ l.next = f.next
    <3>1. f.row + 1 \in Nat /\ f.since + 1 \in Nat
      BY <2>1 DEF LocalMemory
    <3> QED BY <2>1, <3>1 DEF LocalMemory
  <2> HIDE DEF l
  <2>3. l.open = Filled(p).open /\ l.next = Filled(p).next
    BY <2>2 DEF f
  <2> QED BY <1>5, <1>7, <2>1, <2>2, <2>3
<1> QED BY <1>4, <1>6, <1>7, TakeRowCases

\* The open archives are sealed.
LEMMA SealKeeps ==
    ASSUME CollectKept, NEW p \in Collectors, Seal(p)
    PROVE  CollectKept'
<1>1. /\ pc[p] = "commit" /\ sealed' = sealed \cup local[p].open /\ pc' = [pc EXCEPT ![p] = "checkpoint"]
      /\ UNCHANGED <<checkpoints, orphans, raw, ledger, plan, local, supervisor, outcome>>
  BY DEF Seal, Goto
<1>2. CollectorsTypes /\ Control /\ Durable /\ \A q \in Collectors : Numbering(q)
  BY DEF CollectKept
<1>3. pc'[p] = "checkpoint" /\ \A q \in Collectors \ {p} : pc'[q] = pc[q]
  BY <1>1, <1>2 DEF CollectorsTypes
<1>4. CollectorsTypes'
  <2>1. local[p].open \subseteq Archive
    BY <1>2 DEF CollectorsTypes, LocalMemory
  <2>2. pc' \in [Collectors -> Places]
    BY <1>1, <1>2 DEF CollectorsTypes, Places
  <2> QED BY <1>1, <1>2, <2>1, <2>2 DEF CollectorsTypes
<1>5. Control'
  <2>1. \A q \in Collectors :
          /\ pc'[q] \in {"off", "recover", "failed", "publish", "mark"} => local'[q].open = {}
          /\ pc'[q] = "failed" => q \in WorkerSet
          /\ pc'[q] = "mark" => q \notin WorkerSet
    BY <1>1, <1>2, <1>3 DEF Control
  <2>2. \A q \in Collectors : pc[q] = "off" <=> pc'[q] = "off"
    BY <1>1, <1>3
  <2>3. Cursor("stack")' = Cursor("stack") /\ "stack" \in Collectors /\ WorkerSet \subseteq Collectors
    BY <1>1 DEF Cursor, FirstCursor, Collectors
  <2> QED BY <1>1, <1>2, <2>1, <2>2, <2>3 DEF Control
<1>6. Durable'
  <2>1. AllCheckpointed' = AllCheckpointed
    BY <1>1 DEF AllCheckpointed, Checkpointed
  <2> QED BY <1>1, <1>2, <1>3, <2>1 DEF Durable
<1>7. ASSUME NEW q \in Collectors PROVE Numbering(q)'
  <2>1. Running(q)' => Running(q)
    BY <1>1, <1>3 DEF Running
  <2> QED BY <1>1, <1>2, <2>1, NumberingFrame
<1> QED BY <1>4, <1>5, <1>6, <1>7 DEF CollectKept

\* A checkpoint is written.
LEMMA CheckpointFacts ==
    ASSUME CollectKept, NEW p \in Collectors, WriteCheckpoint(p)
    PROVE  /\ checkpoints'[p] = Append(checkpoints[p],
                [at |-> local[p].at, row |-> local[p].row, next |-> local[p].next,
                 archives |-> local[p].open])
           /\ \A q \in Collectors \ {p} : checkpoints'[q] = checkpoints[q]
           /\ checkpoints' \in [Collectors -> Seq(Checkpoint)] /\ checkpoints'[p] # <<>>
           /\ Cursor(p)' = [at |-> local[p].at, row |-> local[p].row, next |-> local[p].next]
           /\ Checkpointed(p)' = Checkpointed(p) \cup local[p].open
           /\ \A q \in Collectors \ {p} : Checkpointed(q)' = Checkpointed(q) /\ Cursor(q)' = Cursor(q)
           /\ AllCheckpointed' = AllCheckpointed \cup local[p].open
           /\ local'[p] = [local[p] EXCEPT !.open = {}] /\ local'[p].open = {} /\ local'[p] \in LocalMemory
           /\ local'[p].next = local[p].next
           /\ \A q \in Collectors \ {p} : local'[q] = local[q] /\ pc'[q] = pc[q]
           /\ pc[p] = "checkpoint" /\ pc'[p] = "publish"
           /\ local' \in [Collectors -> LocalMemory] /\ pc' \in [Collectors -> Places]
           /\ UNCHANGED <<sealed, orphans, raw, ledger, plan, markers, supervisor, outcome>>
<1> DEFINE c == [at |-> local[p].at, row |-> local[p].row, next |-> local[p].next,
                 archives |-> local[p].open]
           s == checkpoints[p]
<1>1. local[p] \in LocalMemory /\ checkpoints \in [Collectors -> Seq(Checkpoint)] /\ s \in Seq(Checkpoint)
      /\ local \in [Collectors -> LocalMemory] /\ pc \in [Collectors -> Places]
  BY DEF CollectKept, CollectorsTypes
<1>2. c \in Checkpoint /\ c.archives = local[p].open
  BY <1>1 DEF Checkpoint, LocalMemory
<1>3. checkpoints' = [checkpoints EXCEPT ![p] = Append(s, c)] /\ pc[p] = "checkpoint"
      /\ pc' = [pc EXCEPT ![p] = "publish"] /\ local' = [local EXCEPT ![p].open = {}]
      /\ UNCHANGED <<sealed, orphans, raw, ledger, plan, markers, supervisor, outcome>>
  BY DEF WriteCheckpoint, Goto
<1>4. checkpoints'[p] = Append(s, c) /\ \A q \in Collectors \ {p} : checkpoints'[q] = checkpoints[q]
  BY <1>1, <1>3
<1> HIDE DEF c
<1>5. Append(s, c) \in Seq(Checkpoint) /\ Append(s, c) # <<>> /\ Len(Append(s, c)) = Len(s) + 1
      /\ Append(s, c)[Len(s) + 1] = c /\ \A i \in 1..Len(s) : Append(s, c)[i] = s[i]
  <2> HIDE DEF s
  <2>1. Append(s, c) \in Seq(Checkpoint) /\ Len(Append(s, c)) = Len(s) + 1
        /\ Append(s, c)[Len(s) + 1] = c /\ \A i \in 1..Len(s) : Append(s, c)[i] = s[i]
    BY <1>1, <1>2, AppendProperties
  <2>2. Append(s, c) # <<>>
    BY <1>1, <1>2, AppendProperties
  <2> QED BY <2>1, <2>2
<1>6. Last(Append(s, c)) = c
  BY <1>5 DEF Last
<1>7. ToSet(Append(s, c)) = ToSet(s) \cup {c}
  <2>1. DOMAIN Append(s, c) = 1..(Len(s) + 1) /\ DOMAIN s = 1..Len(s) /\ Len(s) \in Nat
    BY <1>1, <1>5
  <2> QED BY <1>5, <2>1 DEF ToSet
<1>8. checkpoints' \in [Collectors -> Seq(Checkpoint)]
  BY <1>1, <1>3, <1>5
<1>9. Cursor(p)' = [at |-> c.at, row |-> c.row, next |-> c.next]
  BY <1>4, <1>5, <1>6 DEF Cursor
<1>10. c.at = local[p].at /\ c.row = local[p].row /\ c.next = local[p].next
  BY DEF c
<1>11. Checkpointed(p)' = Checkpointed(p) \cup local[p].open
  BY <1>2, <1>4, <1>7 DEF Checkpointed
<1>12. \A q \in Collectors \ {p} : Checkpointed(q)' = Checkpointed(q) /\ Cursor(q)' = Cursor(q)
  BY <1>3, <1>4 DEF Checkpointed, Cursor, FirstCursor
<1>13. AllCheckpointed' = AllCheckpointed \cup local[p].open
  BY <1>11, <1>12 DEF AllCheckpointed
<1>14. local'[p] = [local[p] EXCEPT !.open = {}]
       /\ \A q \in Collectors \ {p} : local'[q] = local[q] /\ pc'[q] = pc[q]
  BY <1>1, <1>3
<1>15. local'[p].open = {} /\ local'[p] \in LocalMemory /\ local'[p].next = local[p].next
  BY <1>1, <1>14 DEF LocalMemory
<1>16. local' \in [Collectors -> LocalMemory] /\ pc' \in [Collectors -> Places] /\ pc'[p] = "publish"
  <2>1. local' = [local EXCEPT ![p] = local'[p]]
    BY <1>1, <1>3
  <2> QED BY <1>1, <1>3, <1>15, <2>1 DEF Places
<1> QED BY <1>3, <1>4, <1>5, <1>8, <1>9, <1>10, <1>11, <1>12, <1>13, <1>14, <1>15, <1>16 DEF c

\* A checkpoint takes over what was open, under the numbers it had.
LEMMA WriteCheckpointKeeps ==
    ASSUME CollectKept, NEW p \in Collectors, WriteCheckpoint(p)
    PROVE  CollectKept'
<1>1. CollectorsTypes /\ Control /\ Durable /\ \A q \in Collectors : Numbering(q)
  BY DEF CollectKept
<1>2. CollectorsTypes'
  BY <1>1, CheckpointFacts DEF CollectorsTypes
<1>3. Control'
  <2>1. \A q \in Collectors :
          /\ pc'[q] \in {"off", "recover", "failed", "publish", "mark"} => local'[q].open = {}
          /\ pc'[q] = "failed" => q \in WorkerSet
          /\ pc'[q] = "mark" => q \notin WorkerSet
    <3>1. pc'[p] = "publish" /\ local'[p].open = {}
          /\ \A q \in Collectors \ {p} : local'[q] = local[q] /\ pc'[q] = pc[q]
      BY CheckpointFacts
    <3>2. \A q \in Collectors :
          /\ pc[q] \in {"off", "recover", "failed", "publish", "mark"} => local[q].open = {}
          /\ pc[q] = "failed" => q \in WorkerSet
          /\ pc[q] = "mark" => q \notin WorkerSet
      BY <1>1 DEF Control
    <3> QED BY <3>1, <3>2
  <2>2. \A q \in Collectors : pc[q] = "off" <=> pc'[q] = "off"
    BY CheckpointFacts
  <2>3. "stack" \in Collectors /\ WorkerSet \subseteq Collectors
    BY DEF Collectors
  <2>4. plan' = plan /\ supervisor' = supervisor /\ pc[p] # "off"
    BY CheckpointFacts
  <2>5. plan = None => \A w \in WorkerSet : w # p /\ checkpoints'[w] = <<>>
    <3>1. plan = None => p \notin WorkerSet
      BY <2>4, ProcessFacts
    <3>2. \A q \in Collectors \ {p} : checkpoints'[q] = checkpoints[q]
      BY CheckpointFacts
    <3>3. plan = None => \A w \in WorkerSet : checkpoints[w] = <<>>
      BY <1>1 DEF Control
    <3> QED BY <2>3, <3>1, <3>2, <3>3
  <2>6. plan # None => p # "stack" /\ Cursor("stack")' = Cursor("stack")
    BY <1>1, <2>3, <2>4, CheckpointFacts DEF Control
  <2> QED BY <1>1, <2>1, <2>2, <2>3, <2>4, <2>5, <2>6 DEF Control
<1>4. Durable'
  BY <1>1, CheckpointFacts DEF Durable
<1>5. ASSUME NEW q \in Collectors \ {p} PROVE Numbering(q)'
  <2>1. local'[q] = local[q] /\ (Running(q)' => Running(q)) /\ checkpoints'[q] = checkpoints[q]
        /\ plan' = plan
    BY CheckpointFacts DEF Running
  <2> QED BY <1>1, <2>1, NumberingFrame
<1>6. Numbering(p)'
  <2>1. Held(p)' = Held(p) /\ Checkpointed(p)' = Held(p) /\ local'[p].open = {} /\ plan' = plan
    BY CheckpointFacts DEF Held
  <2>2. Running(p) /\ local'[p].next = local[p].next /\ Cursor(p)' =
           [at |-> local[p].at, row |-> local[p].row, next |-> local[p].next]
    BY CheckpointFacts DEF Running
  <2>3. Cursor(p)'.next = local[p].next
    BY <2>2
  <2>4. \A x \in Held(p) : UsedBelow(p, x, local[p].next)
    BY <1>1, <2>2 DEF Numbering
  <2>5. /\ \A x \in Held(p)' : UsedBelow(p, x, local[p].next)'
        /\ \A x \in Checkpointed(p)' : UsedBelow(p, x, Cursor(p).next)'
    BY <2>1, <2>2, <2>3, <2>4 DEF UsedBelow
  <2>6. \A x, y \in Held(p) : x # y => Name(x) # Name(y)
    BY <1>1 DEF Numbering, Held, Name
  <2>7. p = "stack" => plan = None
    BY <1>1, CheckpointFacts DEF Control, Collectors
  <2> QED BY <1>1, <2>1, <2>5, <2>6, <2>7 DEF Numbering
<1> QED BY <1>2, <1>3, <1>4, <1>5, <1>6 DEF CollectKept

\* Which processes run depends on nothing else.
LEMMA ControlFrame ==
    ASSUME Control, UNCHANGED <<checkpoints, plan, pc, local, supervisor>>
    PROVE  Control'
<1>1. Cursor("stack")' = Cursor("stack")
  BY DEF Cursor, FirstCursor
<1> QED BY <1>1 DEF Control

\* A checkpointed archive is renamed into place or recorded.
LEMMA RecoverKeeps ==
    ASSUME CollectKept, NEW p \in Collectors, Recover(p)
    PROVE  /\ CollectKept'
           /\ \E a \in Pending(p) :
                 \/ raw' = raw \cup {a} /\ a \notin raw /\ sealed' = sealed \ {a} /\ ledger' = ledger
                    /\ \A f \in raw : Name(f) # Name(a)
                 \/ ledger' = ledger \cup {a} /\ a \in raw /\ a \notin ledger /\ raw' = raw /\ sealed' = sealed
<1>1. CollectorsTypes /\ Control /\ Durable /\ \A q \in Collectors : Numbering(q)
  BY DEF CollectKept
<1>2. UNCHANGED <<checkpoints, orphans, plan, pc, local, supervisor, outcome>>
  BY DEF Recover
<1>3. PICK a \in Pending(p) : recover_checkpoint_archive(a) \/ write_record(a)
  BY DEF Recover
<1>4. a \in Checkpointed(p) /\ a \in AllCheckpointed /\ a \in Archive
  BY <1>1, HeldArchives DEF Pending, AllCheckpointed, Held
<1>5. /\ \A x, y \in AllCheckpointed : x # y => Name(x) # Name(y)
      /\ \A x \in AllCheckpointed, q \in Collectors : \A y \in local[q].open : Name(x) # Name(y)
  BY <1>1, CheckpointedApart
<1>6. AllCheckpointed' = AllCheckpointed
  BY <1>2 DEF AllCheckpointed, Checkpointed
<1>7. Control'
  BY <1>1, <1>2, ControlFrame
<1>8. ASSUME NEW q \in Collectors PROVE Numbering(q)'
  <2>1. Running(q)' <=> Running(q)
    BY <1>2 DEF Running
  <2> QED BY <1>1, <1>2, <2>1, NumberingFrame
<1>9. CASE recover_checkpoint_archive(a)
  <2>1. raw' = raw \cup {a} /\ sealed' = sealed \ {a} /\ ledger' = ledger
        /\ (\A f \in raw : Name(f) # Name(a))
    BY <1>9 DEF recover_checkpoint_archive
  <2>2. PICK u \in Nat : \A x \in raw : x.index <= u
    BY <1>1 DEF CollectorsTypes
  <2>3. u + a.index \in Nat /\ \A x \in raw' : x.index <= u + a.index
    BY <1>1, <1>4, <2>1, <2>2 DEF CollectorsTypes, Archive
  <2>4. CollectorsTypes'
    BY <1>1, <1>2, <1>4, <2>1, <2>3 DEF CollectorsTypes
  <2>5. \A q \in Collectors : a \notin local[q].open
    BY <1>4, <1>5
  <2>6. Durable'
    BY <1>1, <1>2, <1>4, <1>6, <2>1, <2>5 DEF Durable
  <2> QED BY <1>7, <1>8, <2>1, <2>4, <2>6 DEF CollectKept
<1>10. CASE write_record(a)
  <2>1. ledger' = ledger \cup {a} /\ raw' = raw /\ sealed' = sealed
        /\ (\E f \in raw : Name(f) = Name(a)) /\ a \notin ledger
    BY <1>10 DEF write_record
  <2>2. a \in raw
    BY <1>1, <1>4, <1>5, <2>1 DEF Durable
  <2>3. CollectorsTypes'
    BY <1>1, <1>2, <1>4, <2>1 DEF CollectorsTypes
  <2>4. Durable'
    BY <1>1, <1>2, <1>6, <2>1, <2>2 DEF Durable
  <2> QED BY <1>7, <1>8, <2>1, <2>2, <2>3, <2>4 DEF CollectKept
<1> QED BY <1>3, <1>9, <1>10

\* What changes only who runs.
LEMMA ControlOnly ==
    ASSUME CollectKept, UNCHANGED <<checkpoints, sealed, plan, raw, ledger>>, orphans' \subseteq orphans,
           local' \in [Collectors -> LocalMemory], pc' \in [Collectors -> Places],
           supervisor' \in {"off", "legacy", "workers", "running", "stopping", "mark"},
           outcome' \in [Sources -> Outcomes],
           \A q \in Collectors : /\ local'[q].open = local[q].open /\ local'[q].next = local[q].next
                                 /\ Running(q)' => Running(q)
                                 /\ pc'[q] = "checkpoint" => pc[q] = "checkpoint",
           Control'
    PROVE  CollectKept'
<1>1. CollectorsTypes /\ Control /\ Durable /\ \A q \in Collectors : Numbering(q)
  BY DEF CollectKept
<1>2. CollectorsTypes'
  BY <1>1 DEF CollectorsTypes
<1>3. AllCheckpointed' = AllCheckpointed
  BY DEF AllCheckpointed, Checkpointed
<1>4. Durable'
  BY <1>1, <1>3 DEF Durable
<1>5. \A q \in Collectors : Numbering(q)'
  BY <1>1, NumberingFrame
<1> QED BY <1>2, <1>4, <1>5 DEF CollectKept

\* A collector is launched.
LEMMA LaunchKeeps ==
    ASSUME CollectKept, NEW p \in Collectors, Launch(p)
    PROVE  CollectKept'
<1>1. CollectorsTypes /\ Control
  BY DEF CollectKept
<1>2. /\ supervisor = "off" /\ (\A q \in Collectors : pc[q] = "off") /\ p \notin WorkerSet
      /\ (p = "stack" => plan = None) /\ pc' = [pc EXCEPT ![p] = "recover"]
      /\ UNCHANGED <<checkpoints, sealed, plan, raw, ledger, orphans, local, supervisor, outcome>>
  BY DEF Launch, Quiet, Goto, durable, collection
<1>3. pc'[p] = "recover" /\ \A q \in Collectors \ {p} : pc'[q] = "off"
  BY <1>1, <1>2 DEF CollectorsTypes
<1>4. pc' \in [Collectors -> Places]
  BY <1>1, <1>2 DEF CollectorsTypes, Places
<1>5. Control'
  <2>1. \A q \in Collectors : local'[q].open = {}
    BY <1>1, <1>2 DEF Control
  <2>2. Cursor("stack")' = Cursor("stack") /\ "stack" \in Collectors /\ WorkerSet \subseteq Collectors
    BY <1>2 DEF Cursor, FirstCursor, Collectors
  <2> QED BY <1>1, <1>2, <1>3, <2>1, <2>2 DEF Control
<1>6. \A q \in Collectors : /\ local'[q].open = local[q].open /\ local'[q].next = local[q].next
                            /\ Running(q)' => Running(q)
                            /\ pc'[q] = "checkpoint" => pc[q] = "checkpoint"
  BY <1>2, <1>3 DEF Running
<1> QED BY <1>1, <1>2, <1>4, <1>5, <1>6, ControlOnly DEF CollectorsTypes

\* The parallel collector starts with the legacy frontier.
LEMMA LaunchParallelKeeps ==
    ASSUME CollectKept, LaunchParallel
    PROVE  CollectKept'
<1>1. CollectorsTypes /\ Control
  BY DEF CollectKept
<1>2. /\ (\A q \in Collectors : pc[q] = "off") /\ supervisor' = "legacy"
      /\ UNCHANGED <<checkpoints, sealed, plan, raw, ledger, orphans, local, pc, outcome>>
  BY DEF LaunchParallel, Quiet, durable, collection
<1>3. Control'
  <2>1. Cursor("stack")' = Cursor("stack") /\ "stack" \in Collectors /\ WorkerSet \subseteq Collectors
    BY <1>2 DEF Cursor, FirstCursor, Collectors
  <2> QED BY <1>1, <1>2, <2>1 DEF Control
<1>4. \A q \in Collectors : Running(q)' => Running(q)
  BY <1>2 DEF Running
<1> QED BY <1>1, <1>2, <1>3, <1>4, ControlOnly DEF CollectorsTypes

\* Before there is a plan no worker holds anything.
LEMMA NoPlanNoWork ==
    ASSUME CollectKept, plan = None
    PROVE  \A w \in WorkerSet : Held(w) = {} /\ checkpoints[w] = <<>>
<1>1. ASSUME NEW w \in WorkerSet PROVE Held(w) = {}
  <2>1. Numbering(w) /\ CollectorsTypes /\ Control
    BY DEF CollectKept, Collectors
  <2> QED BY <2>1, WorkerIndex
<1> QED BY <1>1 DEF CollectKept, Control

\* The plan is made from the legacy frontier, or is found to agree with it.
LEMMA PlanKeeps ==
    ASSUME CollectKept, create_or_load_plan
    PROVE  CollectKept'
<1>1. CollectorsTypes /\ Control /\ Durable /\ \A q \in Collectors : Numbering(q)
  BY DEF CollectKept
<1>2. /\ supervisor = "legacy" /\ Pending("stack") = {}
      /\ UNCHANGED <<checkpoints, sealed, orphans, raw, ledger, pc, local>>
  BY DEF create_or_load_plan
<1>3. "stack" \in Collectors /\ WorkerSet \subseteq Collectors /\ \A w \in WorkerSet : w # "stack"
  BY WorkerIds DEF Collectors
<1>4. \A q \in Collectors : pc[q] = "off"
  BY <1>1, <1>2, <1>3 DEF Control
<1>5. CASE plan # None
  <2>1. plan.legacy = Cursor("stack")
    BY <1>1, <1>5 DEF Control
  <2>2. supervisor' = "workers" /\ UNCHANGED <<plan, outcome>>
    BY <1>5, <2>1 DEF create_or_load_plan
  <2>3. Control'
    <3>1. Cursor("stack")' = Cursor("stack")
      BY <1>2, <2>2 DEF Cursor, FirstCursor
    <3> QED BY <1>1, <1>2, <1>3, <1>4, <1>5, <2>2, <3>1 DEF Control
  <2>4. \A q \in Collectors : Running(q)' => Running(q)
    BY <1>2 DEF Running
  <2> QED BY <1>1, <1>2, <2>2, <2>3, <2>4, ControlOnly DEF CollectorsTypes
<1>6. CASE plan = None
  <2> DEFINE frontier == Cursor("stack")
             new == [shard |-> frontier.at, row |-> frontier.row, base |-> NextIndices(raw),
                     legacy |-> frontier]
  <2>1. plan' = new /\ supervisor' = "workers" /\ outcome' = outcome
    BY <1>6 DEF create_or_load_plan
  <2>2. frontier \in Cursors
    BY <1>1, <1>3, CursorType
  <2>3. PICK u \in Nat : \A a \in raw : a.index <= u
    BY <1>1 DEF CollectorsTypes
  <2>4. /\ NextIndices(raw) \in [Buckets -> Nat]
        /\ \A a \in raw : a.index < NextIndices(raw)[a.bucket]
    BY <1>1, <2>3, NextIndicesFacts DEF CollectorsTypes
  <2>5. new \in Plans /\ new.legacy = frontier /\ new.base = NextIndices(raw)
    <3> HIDE DEF frontier
    <3> QED BY <2>2, <2>4 DEF Plans, Cursors
  <2>6. Cursor("stack")' = frontier
    <3>1. "stack" # Workers[1]
      BY <1>3, WorkerIds
    <3> QED BY <1>2, <3>1 DEF Cursor, FirstCursor
  <2> HIDE DEF frontier, new
  <2>7. CollectorsTypes'
    BY <1>1, <1>2, <2>1, <2>5 DEF CollectorsTypes
  <2>8. Control'
    <3>1. plan' # None /\ plan'.legacy = Cursor("stack")'
      BY <2>1, <2>5, <2>6, CollectorsAssumption
    <3>2. \A q \in Collectors : pc'[q] = "off" /\ local'[q].open = {}
      BY <1>1, <1>2, <1>4 DEF Control
    <3> QED BY <1>2, <1>3, <2>1, <3>1, <3>2 DEF Control
  <2>9. Durable'
    <3>1. AllCheckpointed' = AllCheckpointed
      BY <1>2 DEF AllCheckpointed, Checkpointed
    <3> QED BY <1>1, <1>2, <3>1 DEF Durable
  <2>10. ASSUME NEW q \in Collectors PROVE Numbering(q)'
    <3>1. Checkpointed(q)' = Checkpointed(q) /\ Held(q)' = Held(q) /\ local'[q].open = local[q].open
          /\ ~Running(q)'
      BY <1>2, <1>4 DEF Checkpointed, Held, Running
    <3>2. q \in WorkerSet => Checkpointed(q)' = {}
      BY <1>6, <3>1, NoPlanNoWork DEF Held
    <3>3. q = "stack" => \A x \in Checkpointed(q) : x.index < plan'.base[x.bucket]
      <4>1. Checkpointed("stack") \subseteq raw
        BY <1>2 DEF Pending
      <4> QED BY <2>1, <2>4, <2>5, <4>1
    <3> QED BY <1>1, <3>1, <3>2, <3>3 DEF Numbering
  <2> QED BY <2>7, <2>8, <2>9, <2>10 DEF CollectKept
<1> QED BY <1>5, <1>6

\* The workers are started, unless the buckets are full.
LEMMA StartWorkersKeeps ==
    ASSUME CollectKept, StartWorkers
    PROVE  CollectKept'
<1>1. CollectorsTypes /\ Control
  BY DEF CollectKept
<1>2. supervisor = "workers" /\ plan # None
      /\ UNCHANGED <<checkpoints, sealed, plan, raw, ledger, orphans, local>>
  BY <1>1 DEF StartWorkers, Control, durable, collection
<1>3. "stack" \in Collectors /\ WorkerSet \subseteq Collectors /\ "stack" \notin WorkerSet
  BY WorkerIds DEF Collectors
<1>4. (\A q \in Collectors : pc[q] = "off") /\ \A q \in Collectors : local[q].open = {}
  BY <1>1, <1>2, <1>3 DEF Control
<1>5. Cursor("stack")' = Cursor("stack")
  BY <1>2 DEF Cursor, FirstCursor
<1>6. CASE Reached(quota_status, "stack")
  <2>1. supervisor' = "off" /\ outcome' = [outcome EXCEPT !["stack"] = "full"] /\ pc' = pc
    BY <1>6 DEF StartWorkers
  <2>2. outcome' \in [Sources -> Outcomes]
    BY <1>1, <2>1 DEF CollectorsTypes, Outcomes
  <2>3. Control'
    BY <1>1, <1>2, <1>3, <1>4, <1>5, <2>1 DEF Control
  <2>4. \A q \in Collectors : Running(q)' => Running(q)
    BY <2>1 DEF Running
  <2> QED BY <1>1, <1>2, <2>1, <2>2, <2>3, <2>4, ControlOnly DEF CollectorsTypes
<1>7. CASE ~Reached(quota_status, "stack")
  <2>1. supervisor' = "running" /\ outcome' = outcome
        /\ pc' = [p \in Collectors |-> IF p \in WorkerSet THEN "recover" ELSE pc[p]]
    BY <1>7 DEF StartWorkers
  <2>2. \A q \in Collectors : pc'[q] = IF q \in WorkerSet THEN "recover" ELSE "off"
    BY <1>4, <2>1
  <2>3. pc' \in [Collectors -> Places]
    BY <1>4, <2>1 DEF Places
  <2>4. Control'
    BY <1>1, <1>2, <1>3, <1>4, <1>5, <2>1, <2>2 DEF Control
  <2>5. \A q \in Collectors : ~Running(q)' /\ pc'[q] # "checkpoint"
    BY <2>2 DEF Running
  <2> QED BY <1>1, <1>2, <2>1, <2>3, <2>4, <2>5, ControlOnly DEF CollectorsTypes
<1> QED BY <1>6, <1>7

\* The workers are asked to stop.
LEMMA SuperviseKeeps ==
    ASSUME CollectKept, Supervise
    PROVE  CollectKept'
<1>1. CollectorsTypes /\ Control
  BY DEF CollectKept
<1>2. /\ supervisor = "running" /\ supervisor' = "stopping"
      /\ local' = [p \in Collectors |-> IF p \in Alive THEN [local[p] EXCEPT !.halt = TRUE] ELSE local[p]]
      /\ UNCHANGED <<checkpoints, sealed, plan, raw, ledger, orphans, pc, outcome>>
  BY DEF Supervise, durable, collection
<1>3. ASSUME NEW q \in Collectors
      PROVE  local'[q] \in LocalMemory /\ local'[q].open = local[q].open /\ local'[q].next = local[q].next
  <2>1. local[q] \in LocalMemory
    BY <1>1 DEF CollectorsTypes
  <2>2. local'[q] = local[q] \/ local'[q] = [local[q] EXCEPT !.halt = TRUE]
    BY <1>2
  <2> QED BY <2>1, <2>2 DEF LocalMemory
<1>4. local' \in [Collectors -> LocalMemory]
  BY <1>2, <1>3
<1>5. Control'
  <2>1. Cursor("stack")' = Cursor("stack")
    BY <1>2 DEF Cursor, FirstCursor
  <2>2. \A q \in Collectors : local'[q].open = local[q].open
    BY <1>3
  <2> QED BY <1>1, <1>2, <2>1, <2>2 DEF Control
<1>6. \A q \in Collectors : Running(q)' => Running(q)
  BY <1>2 DEF Running
<1> QED BY <1>1, <1>2, <1>3, <1>4, <1>5, <1>6, ControlOnly DEF CollectorsTypes

\* All workers have gone.
LEMMA JoinKeeps ==
    ASSUME CollectKept, Join
    PROVE  CollectKept'
<1>1. CollectorsTypes /\ Control
  BY DEF CollectKept
<1>2. /\ supervisor \in {"running", "stopping"} /\ Alive = {}
      /\ pc' = [p \in Collectors |-> IF p \in WorkerSet THEN "off" ELSE pc[p]]
      /\ UNCHANGED <<checkpoints, sealed, plan, raw, ledger, orphans, local>>
  BY DEF Join, durable, collection
<1>3. "stack" \in Collectors /\ WorkerSet \subseteq Collectors /\ "stack" \notin WorkerSet
  BY WorkerIds DEF Collectors
<1>4. \A q \in Collectors : pc'[q] = "off"
  BY <1>1, <1>2 DEF Control
<1>5. \A q \in Collectors : local[q].open = {}
  <2>1. \A w \in WorkerSet : pc[w] \in {"off", "failed"}
    BY <1>2 DEF Alive
  <2>2. \A q \in Collectors \ WorkerSet : pc[q] = "off"
    BY <1>1, <1>2 DEF Control
  <2> QED BY <1>1, <2>1, <2>2 DEF Control
<1>6. \/ supervisor' = "mark" /\ outcome' = outcome
      \/ supervisor' = "off" /\ outcome' = [outcome EXCEPT !["stack"] = "failed"]
  BY DEF Join
<1>7. outcome' \in [Sources -> Outcomes] /\ pc' \in [Collectors -> Places]
  BY <1>1, <1>2, <1>4, <1>6 DEF CollectorsTypes, Outcomes, Places
<1>8. Control'
  <2>1. Cursor("stack")' = Cursor("stack")
    BY <1>2 DEF Cursor, FirstCursor
  <2>2. plan # None
    BY <1>1, <1>2 DEF Control
  <2> QED BY <1>1, <1>2, <1>3, <1>4, <1>5, <1>6, <2>1, <2>2 DEF Control
<1>9. \A q \in Collectors : ~Running(q)' /\ pc'[q] # "checkpoint"
  BY <1>4 DEF Running
<1> QED BY <1>1, <1>2, <1>6, <1>7, <1>8, <1>9, ControlOnly DEF CollectorsTypes

\* The parallel collector's marker, and the operator's tidying.
LEMMA MarkParallelKeeps ==
    ASSUME CollectKept, MarkParallel \/ MoveOrphans
    PROVE  CollectKept'
<1>1. CollectorsTypes /\ Control
  BY DEF CollectKept
<1>2. /\ UNCHANGED <<checkpoints, sealed, plan, raw, ledger, pc, local>> /\ orphans' \subseteq orphans
      /\ \/ supervisor = "mark" /\ supervisor' = "off" /\ outcome' = [outcome EXCEPT !["stack"] = "complete"]
         \/ UNCHANGED <<supervisor, outcome>>
  BY DEF MarkParallel, MoveOrphans
<1>3. outcome' \in [Sources -> Outcomes]
  BY <1>1, <1>2 DEF CollectorsTypes, Outcomes
<1>4. Control'
  <2>1. Cursor("stack")' = Cursor("stack")
    BY <1>2 DEF Cursor, FirstCursor
  <2> QED BY <1>1, <1>2, <2>1 DEF Control
<1>5. \A q \in Collectors : Running(q)' => Running(q)
  BY <1>2 DEF Running
<1>6. supervisor' \in {"off", "legacy", "workers", "running", "stopping", "mark"}
  BY <1>1, <1>2 DEF CollectorsTypes
<1> QED BY <1>1, <1>2, <1>3, <1>4, <1>5, <1>6, ControlOnly DEF CollectorsTypes

\* Processes are gone, and what they had open with them.
LEMMA AbandonKeeps ==
    ASSUME CollectKept, NEW ps, ps \subseteq Collectors, Abandoned(ps),
           UNCHANGED <<checkpoints, plan, raw, ledger, outcome>>,
           \A q \in ps : ~Running(q)' /\ local'[q] = Idle,
           \A q \in Collectors \ ps : pc'[q] = pc[q] /\ local'[q] = local[q],
           pc' \in [Collectors -> Places], local' = [q \in Collectors |-> local'[q]],
           supervisor' \in {"off", "legacy", "workers", "running", "stopping", "mark"},
           Control'
    PROVE  CollectKept'
<1>1. CollectorsTypes /\ Control /\ Durable /\ \A q \in Collectors : Numbering(q)
  BY DEF CollectKept
<1>2. sealed' = sealed \ UNION {local[p].open : p \in ps}
      /\ orphans' = orphans \cup {a.bucket : a \in UNION {local[p].open : p \in ps}}
  BY DEF Abandoned
<1>3. \A q \in ps : local[q].open \subseteq Archive
  BY <1>1 DEF CollectorsTypes, LocalMemory
<1>4. orphans' \subseteq Buckets
  BY <1>1, <1>2, <1>3 DEF CollectorsTypes, Archive
<1>5. \A q \in Collectors : local'[q] \in LocalMemory
  BY <1>1, IdleFacts DEF CollectorsTypes
<1>6. local' \in [Collectors -> LocalMemory]
  BY <1>5
<1>7. CollectorsTypes'
  BY <1>1, <1>2, <1>4, <1>6 DEF CollectorsTypes
<1>8. ASSUME NEW q \in Collectors PROVE Numbering(q)'
  <2>1. CASE q \in ps
    <3>1. local'[q].open = {} /\ ~Running(q)'
      BY <2>1, IdleFacts
    <3> QED BY <1>1, <3>1, NumberingFrame
  <2>2. CASE q \notin ps
    <3>1. local'[q] = local[q] /\ (Running(q)' => Running(q))
      BY <2>2 DEF Running
    <3> QED BY <1>1, <3>1, NumberingFrame
  <2> QED BY <2>1, <2>2
<1>9. Durable'
  <2>1. AllCheckpointed' = AllCheckpointed
    BY DEF AllCheckpointed, Checkpointed
  <2>2. ASSUME NEW x \in AllCheckpointed \ raw PROVE x \in sealed'
    <3>1. \A q \in Collectors : x \notin local[q].open
      BY <1>1, CheckpointedApart
    <3> QED BY <1>1, <1>2, <3>1 DEF Durable
  <2>3. ASSUME NEW q \in Collectors, pc'[q] = "checkpoint" PROVE local'[q].open \subseteq sealed'
    <3>1. q \notin ps /\ local'[q] = local[q] /\ pc[q] = "checkpoint"
      BY <2>3 DEF Running
    <3>2. ASSUME NEW x \in local[q].open, NEW p \in ps PROVE x \notin local[p].open
      <4>1. x \in Held(q) /\ p \in Collectors /\ p # q
        BY <3>1 DEF Held
      <4>2. \A y \in Held(p) : Name(x) # Name(y)
        BY <1>1, <4>1, ProcessesApart
      <4> QED BY <4>2 DEF Held
    <3>3. local[q].open \subseteq sealed
      BY <1>1, <3>1 DEF Durable
    <3> QED BY <1>2, <3>1, <3>2, <3>3
  <2> QED BY <1>1, <2>1, <2>2, <2>3 DEF Durable
<1> QED BY <1>7, <1>8, <1>9 DEF CollectKept

\* A worker fails.
LEMMA WorkerFailsKeeps ==
    ASSUME CollectKept, NEW w \in WorkerSet, WorkerFails(w)
    PROVE  CollectKept'
<1>1. CollectorsTypes /\ Control
  BY DEF CollectKept
<1>2. /\ pc[w] = "rows" /\ Abandoned({w}) /\ pc' = [pc EXCEPT ![w] = "failed"]
      /\ local' = [local EXCEPT ![w] = Idle]
      /\ UNCHANGED <<checkpoints, plan, raw, ledger, supervisor, outcome>>
  BY DEF WorkerFails, Goto
<1>3. w \in Collectors /\ "stack" \in Collectors /\ WorkerSet \subseteq Collectors /\ "stack" \notin WorkerSet
  BY WorkerIds DEF Collectors
<1>4. pc'[w] = "failed" /\ local'[w] = Idle
      /\ \A q \in Collectors \ {w} : pc'[q] = pc[q] /\ local'[q] = local[q]
  BY <1>1, <1>2, <1>3 DEF CollectorsTypes
<1>5. pc' \in [Collectors -> Places] /\ local' = [q \in Collectors |-> local'[q]]
  BY <1>1, <1>2 DEF CollectorsTypes, Places
<1>6. Control'
  <2>1. \A q \in Collectors :
          /\ pc'[q] \in {"off", "recover", "failed", "publish", "mark"} => local'[q].open = {}
          /\ pc'[q] = "failed" => q \in WorkerSet
          /\ pc'[q] = "mark" => q \notin WorkerSet
    <3>1. \A q \in Collectors :
          /\ pc[q] \in {"off", "recover", "failed", "publish", "mark"} => local[q].open = {}
          /\ pc[q] = "failed" => q \in WorkerSet
          /\ pc[q] = "mark" => q \notin WorkerSet
      BY <1>1 DEF Control
    <3> QED BY <1>4, <3>1, IdleFacts
  <2>2. Cursor("stack")' = Cursor("stack")
    BY <1>2 DEF Cursor, FirstCursor
  <2>3. supervisor \in {"running", "stopping"}
    BY <1>1, <1>2 DEF Control
  <2> QED BY <1>1, <1>2, <1>3, <1>4, <2>1, <2>2, <2>3 DEF Control
<1>7. \A q \in {w} : ~Running(q)' /\ local'[q] = Idle
  BY <1>4 DEF Running
<1>8. supervisor' \in {"off", "legacy", "workers", "running", "stopping", "mark"}
  BY <1>1, <1>2 DEF CollectorsTypes
<1> DEFINE ps == {w}
<1>9. ps \subseteq Collectors /\ Abandoned(ps) /\ (\A q \in ps : ~Running(q)' /\ local'[q] = Idle)
      /\ \A q \in Collectors \ ps : pc'[q] = pc[q] /\ local'[q] = local[q]
  BY <1>2, <1>3, <1>4, <1>7
<1> HIDE DEF ps
<1> QED BY <1>2, <1>5, <1>6, <1>8, <1>9, AbandonKeeps

\* The machine takes all with it.
LEMMA KillCollectorsKeeps ==
    ASSUME CollectKept, KillCollectors
    PROVE  CollectKept'
<1>1. CollectorsTypes /\ Control
  BY DEF CollectKept
<1>2. /\ Abandoned(Collectors) /\ pc' = [p \in Collectors |-> "off"]
      /\ local' = [p \in Collectors |-> Idle] /\ supervisor' = "off"
      /\ UNCHANGED <<checkpoints, plan, raw, ledger, outcome>>
  BY DEF KillCollectors
<1>3. (\A q \in Collectors : pc'[q] = "off" /\ ~Running(q)' /\ local'[q] = Idle)
      /\ pc' \in [Collectors -> Places]
  BY <1>2 DEF Running, Places
<1>4. Control'
  <2>1. Cursor("stack")' = Cursor("stack") /\ "stack" \in Collectors /\ WorkerSet \subseteq Collectors
    BY <1>2 DEF Cursor, FirstCursor, Collectors
  <2> QED BY <1>1, <1>2, <1>3, <2>1, IdleFacts DEF Control
<1>5. local' = [q \in Collectors |-> local'[q]]
  BY <1>2
<1> QED BY <1>2, <1>3, <1>4, <1>5, AbandonKeeps

\* Every step of the collectors.
LEMMA CollectorsKeep ==
    ASSUME CollectKept, CollectorsNext
    PROVE  CollectKept'
<1>1. WorkerSet \subseteq Collectors
  BY DEF Collectors
<1>2. ASSUME NEW p \in Collectors, Launch(p) \/ Work(p) PROVE CollectKept'
  BY <1>2, LaunchKeeps, RecoverKeeps, BeginKeeps, TakeRowKeeps, EndShardKeeps, ExhaustedKeeps, SealKeeps,
     WriteCheckpointKeeps, CommittedKeeps, MarkKeeps DEF Work
<1>3. CASE LaunchParallel \/ Supervision \/ MoveOrphans
  BY <1>3, LaunchParallelKeeps, PlanKeeps, StartWorkersKeeps, SuperviseKeeps, JoinKeeps, MarkParallelKeeps
     DEF Supervision
<1> QED BY <1>2, <1>3, WorkerFailsKeeps, KillCollectorsKeeps DEF CollectorsNext

\* Before anything is collected.
LEMMA CollectorsStart == CollectorsInit => CollectKept
<1> SUFFICES ASSUME CollectorsInit PROVE CollectKept
  OBVIOUS
<1>1. /\ raw = {} /\ ledger = {} /\ orphans = {} /\ sealed = {} /\ plan = None /\ supervisor = "off"
      /\ checkpoints = [p \in Collectors |-> <<>>] /\ pc = [p \in Collectors |-> "off"]
      /\ local = [p \in Collectors |-> Idle] /\ outcome = [s \in Sources |-> "none"]
  BY DEF CollectorsInit, CollectionInit
<1>2. \A p \in Collectors : local[p] = Idle /\ pc[p] = "off" /\ checkpoints[p] = <<>>
  BY <1>1
<1>3. \A p \in Collectors : Checkpointed(p) = {} /\ Held(p) = {} /\ ~Running(p) /\ local[p].open = {}
  BY <1>2, IdleFacts DEF Checkpointed, Held, Running, ToSet
<1>4. CollectorsTypes
  <2>1. <<>> \in Seq(Checkpoint) /\ "off" \in Places /\ "none" \in Outcomes
    BY DEF Places, Outcomes
  <2>2. local \in [Collectors -> LocalMemory] /\ checkpoints \in [Collectors -> Seq(Checkpoint)]
        /\ pc \in [Collectors -> Places] /\ outcome \in [Sources -> Outcomes]
    BY <1>1, <2>1, IdleFacts
  <2>3. 0 \in Nat /\ \A a \in raw : a.index <= 0
    BY <1>1
  <2> QED BY <1>1, <2>2, <2>3 DEF CollectorsTypes
<1>5. Control
  <2>1. WorkerSet \subseteq Collectors
    BY DEF Collectors
  <2> QED BY <1>1, <1>2, <1>3, <2>1 DEF Control
<1>6. \A p \in Collectors : Numbering(p)
  BY <1>3 DEF Numbering
<1>7. Durable
  BY <1>1, <1>2, <1>3 DEF Durable, AllCheckpointed
<1> QED BY <1>4, <1>5, <1>6, <1>7 DEF CollectKept

\* While the preprocessor acts the collectors are at rest, and nothing is
\* said of what the abstract collection grows.
CollectInvariant == scene \in {"collect", "preprocess"} /\ (scene = "collect" => CollectKept)

\* Through stops, failing workers and losses of the machine: names are unique over all processes and runs,
\* a worker never leaves its residue class, records follow renames follow
\* checkpoints, and no legacy frontier moves under a plan
\* (worker_archive_index, commit_worker_checkpoint, create_or_load_plan).
THEOREM CollectInvariantHolds == IntakeSpec => []CollectInvariant
<1>1. IntakeInit => CollectInvariant
  BY CollectorsStart DEF IntakeInit, CollectInvariant
<1>2. CollectInvariant /\ [IntakeNext]_intakeVars => CollectInvariant'
  <2> SUFFICES ASSUME CollectInvariant, [IntakeNext]_intakeVars PROVE CollectInvariant'
    OBVIOUS
  <2>1. CASE Collect
    BY <2>1, CollectorsKeep DEF Collect, CollectInvariant
  <2>2. CASE Audit \/ Grow
    BY <2>2 DEF Audit, Grow, CollectInvariant
  <2>3. CASE UNCHANGED intakeVars
    <3>1. UNCHANGED <<raw, ledger, orphans, markers, checkpoints, sealed, plan, pc, local, supervisor,
                      outcome, faults, scene>>
      BY <2>3 DEF intakeVars, collectorVars, durable, collection
    <3>2. CollectKept => CollectKept'
      <4> SUFFICES ASSUME CollectKept PROVE CollectKept'
        OBVIOUS
      <4>1. \A q \in Collectors : Running(q)' => Running(q)
        BY <3>1 DEF Running
      <4> QED BY <3>1, <4>1, ControlOnly, ControlFrame DEF CollectKept, CollectorsTypes
    <3> QED BY <3>1, <3>2 DEF CollectInvariant
  <2> QED BY <2>1, <2>2, <2>3 DEF IntakeNext
<1> QED BY <1>1, <1>2, PTL DEF IntakeSpec

\* Nothing the collectors leave behind is beyond a restart: what a checkpoint
\* lists is sealed or in place, no record is in the way, and no plan refuses the
\* frontier it began from (recover_worker_checkpoints, create_or_load_plan).
THEOREM CollectorsAlwaysRecoverable == IntakeSpec => []CollectorsRecoverable
<1>1. CollectInvariant => CollectorsRecoverable
  <2> SUFFICES ASSUME CollectInvariant, scene = "collect" PROVE LedgerRecoverable
    BY DEF CollectorsRecoverable
  <2>1. CollectorsTypes /\ Control /\ Durable /\ \A q \in Collectors : Numbering(q)
    BY DEF CollectInvariant, CollectKept
  <2>2. ASSUME NEW p \in Collectors PROVE ~Wedged(p)
    <3>1. ASSUME NEW a \in Pending(p),
                 IF Name(a) \in {Name(f) : f \in raw} THEN Name(a) \in {Name(f) : f \in ledger}
                 ELSE a \notin sealed
          PROVE  FALSE
      <4>1. a \in AllCheckpointed /\ (a \notin raw \/ a \notin ledger)
        BY DEF Pending, AllCheckpointed
      <4>2. \A x, y \in AllCheckpointed : x # y => Name(x) # Name(y)
        BY <2>1, CheckpointedApart
      <4>3. ledger \subseteq raw /\ raw \subseteq AllCheckpointed /\ AllCheckpointed \ raw \subseteq sealed
        BY <2>1 DEF Durable
      <4>4. CASE a \in raw
        BY <3>1, <4>1, <4>2, <4>3, <4>4
      <4>5. CASE a \notin raw
        BY <3>1, <4>1, <4>2, <4>3, <4>5
      <4> QED BY <4>4, <4>5
    <3> QED BY <3>1 DEF Wedged
  <2>3. \A s \in Sources : outcome[s] # "refused"
    BY <2>1 DEF CollectorsTypes, Outcomes
  <2> QED BY <2>1, <2>2, <2>3 DEF LedgerRecoverable, Durable
<1> QED BY <1>1, CollectInvariantHolds, PTL

-----------------------------------------------------------------------------
(* The scan: where a row stands in the assignment of the process that is to*)
(* take it, and which rows are behind a process's cursor or its place.     *)
Mine(p, r, k, i) ==
    /\ k \in Nat \ {0} /\ HasShard(p, k) /\ i \in 1..Len(Shard(p, k)) /\ r = Shard(p, k)[i]
    /\ k = 1 => i > FirstCursor(p).row
Behind(k, i, at, row) == k < at \/ (k = at /\ i <= row)
Past(p, k, i) == Behind(k, i, Cursor(p).at, Cursor(p).row)
New(p, k, i) == Behind(k, i, local[p].at, local[p].row) /\ ~Past(p, k, i)
Placed(p, at, row) ==
    /\ HasShard(p, at) => row <= Len(Shard(p, at))
    /\ ~HasShard(p, at) => row = 0
    /\ at > 1 => HasShard(p, at - 1)
OpenRows(p) == UNION {x.rows : x \in local[p].open}
Filling(p) == pc[p] \in {"rows", "commit", "checkpoint"}
Started(p) == p \in WorkerSet => plan # None
Full(b) == Tokens(AllCheckpointed, b) >= Target[b]

(* What is checkpointed is taken from behind the cursor, and what is not   *)
(* was skipped in a full bucket.                                           *)
ScanDone(p) ==
    /\ Placed(p, Cursor(p).at, Cursor(p).row)
    /\ Cursor(p).at = 1 => FirstCursor(p).row <= Cursor(p).row
    /\ \A x \in Checkpointed(p) : \A r \in x.rows :
          \E k, i \in Nat : Mine(p, r, k, i) /\ Past(p, k, i)
    /\ \A x, y \in Checkpointed(p) : x # y => x.rows \cap y.rows = {}
    /\ \A c \in ToSet(checkpoints[p]) : Cardinality(UNION {a.rows : a \in c.archives}) <= CheckpointRows
Missed(p) ==
    \A k, i \in Nat : \A r \in RowsOf(SourceOf(p)) :
       Mine(p, r, k, i) /\ Past(p, k, i)
          => (\E x \in Checkpointed(p) : r \in x.rows) \/ Full(r.bucket)
(* The same for what a process has open, between its cursor and its place. *)
ScanOpen(p) ==
    /\ Placed(p, local[p].at, local[p].row)
    /\ Behind(Cursor(p).at, Cursor(p).row, local[p].at, local[p].row)
    /\ \A r \in OpenRows(p) : \E k, i \in Nat : Mine(p, r, k, i) /\ New(p, k, i)
    /\ \A k, i \in Nat : \A r \in RowsOf(SourceOf(p)) :
          Mine(p, r, k, i) /\ New(p, k, i)
             => r \in OpenRows(p) \/ live_total(p, r.bucket) >= Target[r.bucket]
    /\ Cardinality(OpenRows(p)) <= (IF pc[p] = "rows" THEN local[p].since ELSE CheckpointRows)
    /\ pc[p] = "rows" => local[p].since < CheckpointRows
Scan(p) ==
    /\ Started(p) => ScanDone(p) /\ Missed(p)
    /\ Filling(p) => ScanOpen(p)
    /\ pc[p] = "publish" => local[p].at = Cursor(p).at /\ local[p].row = Cursor(p).row
PlanExact == plan # None => plan.shard = plan.legacy.at /\ plan.row = plan.legacy.row

(* The totals a process goes by are those of the ledger as it once was, and*)
(* of two such readings one contains the other.                            *)
EarlyOf(p, b) == {x \in Checkpointed(p) \ LastOf(p, b) : x.bucket = b}
ViewOf(p, A) ==
    /\ \A b \in Buckets : local[p].totals[b] = Tokens(A, b)
    /\ Filling(p) => Checkpointed(p) \subseteq A
    /\ \A x \in local[p].open : local[p].totals[x.bucket] < Target[x.bucket]
EarlyBelow(b, A) ==
    /\ Tokens(A, b) < Target[b]
    /\ \A p \in Collectors : EarlyOf(p, b) \subseteq A
Views ==
    \E readings \in SUBSET SUBSET ledger :
       /\ \A A, B \in readings : A \subseteq B \/ B \subseteq A
       /\ \A p \in Collectors : Running(p) => \E A \in readings : ViewOf(p, A)
       /\ \A b \in Buckets : \E A \in readings : EarlyBelow(b, A)
Scans == PlanExact /\ \A p \in Collectors : Scan(p)

-----------------------------------------------------------------------------
\* Sources share no bucket.
LEMMA SourcesApart ==
    ASSUME NEW p \in Collectors, NEW q \in Collectors,
           NEW b \in BucketsOf(SourceOf(p)), b \in BucketsOf(SourceOf(q))
    PROVE  SourceOf(p) = SourceOf(q)
<1>1. "stack" \notin Texts /\ Texts \cap Code = {}
  BY RowsAssumption
<1> QED BY <1>1, CollectorsAssumption DEF SourceOf, BucketsOf

\* A row of an assignment is a row of the source, at one place.
LEMMA MineFacts ==
    ASSUME CollectorsTypes, NEW p \in Collectors, Started(p), NEW r, NEW k, NEW i, Mine(p, r, k, i)
    PROVE  /\ k \in Nat \ {0} /\ i \in Nat \ {0} /\ r \in RowsOf(SourceOf(p))
           /\ assigned_source_shard(p, k) \in DOMAIN Shards[SourceOf(p)]
           /\ i \in DOMAIN Shards[SourceOf(p)][assigned_source_shard(p, k)]
           /\ r = Shards[SourceOf(p)][assigned_source_shard(p, k)][i]
           /\ SourceOf(p) \in Sources
<1>1. k \in Nat \ {0} /\ HasShard(p, k) /\ i \in 1..Len(Shard(p, k)) /\ r = Shard(p, k)[i]
  BY DEF Mine
<1>2. /\ assigned_source_shard(p, k) \in 1..Len(Shards[SourceOf(p)])
      /\ Shard(p, k) \in Seq(RowsOf(SourceOf(p))) /\ SourceOf(p) \in Sources
  BY <1>1, ShardFacts DEF Started
<1>3. Shards[SourceOf(p)] \in Seq(Seq(RowsOf(SourceOf(p))))
  BY <1>2, RowsAssumption
<1>4. DOMAIN Shards[SourceOf(p)] = 1..Len(Shards[SourceOf(p)])
  BY <1>3
<1>5. DOMAIN Shard(p, k) = 1..Len(Shard(p, k)) /\ Shard(p, k)[i] \in RowsOf(SourceOf(p)) /\ i \in Nat \ {0}
  BY <1>1, <1>2
<1> QED BY <1>1, <1>2, <1>4, <1>5 DEF Shard

\* The place of a worker's k-th shard.
LEMMA WorkerPlace ==
    ASSUME CollectorsTypes, NEW w \in WorkerSet, plan # None, NEW k \in Nat \ {0}
    PROVE  /\ plan.shard \in Nat \ {0} /\ plan.row \in Nat /\ WorkerId(w) \in 0..(Len(Workers) - 1)
           /\ Len(Workers) \in Nat \ {0} /\ k - 1 \in Nat /\ Len(Workers) * (k - 1) \in Nat
           /\ assigned_source_shard(w, k) = plan.shard + (WorkerId(w) + Len(Workers) * (k - 1))
<1>1. plan.shard \in Nat \ {0} /\ plan.row \in Nat
  BY DEF CollectorsTypes, Plans
<1>2. WorkerId(w) \in 0..(Len(Workers) - 1) /\ Len(Workers) \in Nat \ {0} /\ k - 1 \in Nat
  BY WorkerIds
<1> DEFINE m == Len(Workers) * (k - 1)
<1>3. m \in Nat
  BY <1>2
<1>4. assigned_source_shard(w, k) = plan.shard + WorkerId(w) + m
  BY DEF assigned_source_shard
<1>5. WorkerId(w) \in Nat
  BY <1>2
<1> HIDE DEF m
<1>6. plan.shard + WorkerId(w) + m = plan.shard + (WorkerId(w) + m)
  BY <1>1, <1>3, <1>5
<1> QED BY <1>1, <1>2, <1>3, <1>4, <1>6 DEF m

\* A source has a row at one place only.
LEMMA OnePlace ==
    ASSUME NEW s \in Sources, NEW k \in DOMAIN Shards[s], NEW l \in DOMAIN Shards[s],
           NEW i \in DOMAIN Shards[s][k], NEW j \in DOMAIN Shards[s][l], Shards[s][k][i] = Shards[s][l][j]
    PROVE  k = l /\ i = j
BY RowsAssumption

\* A number is not changed by adding it on both sides.
LEMMA Cancelled ==
    ASSUME NEW a \in Nat, NEW b \in Nat, NEW c \in Nat, a + b = a + c
    PROVE  b = c
OBVIOUS

\* A row stands at one place of one assignment.
LEMMA MineOnce ==
    ASSUME CollectorsTypes, NEW p \in Collectors, Started(p), NEW r, NEW k, NEW i, Mine(p, r, k, i),
           NEW l, NEW j, Mine(p, r, l, j)
    PROVE  k = l /\ i = j
<1>1. /\ k \in Nat \ {0} /\ l \in Nat \ {0} /\ SourceOf(p) \in Sources
      /\ assigned_source_shard(p, k) = assigned_source_shard(p, l) /\ i = j
  <2>1. /\ k \in Nat \ {0} /\ SourceOf(p) \in Sources
        /\ assigned_source_shard(p, k) \in DOMAIN Shards[SourceOf(p)]
        /\ i \in DOMAIN Shards[SourceOf(p)][assigned_source_shard(p, k)]
        /\ r = Shards[SourceOf(p)][assigned_source_shard(p, k)][i]
    BY MineFacts
  <2>2. /\ l \in Nat \ {0}
        /\ assigned_source_shard(p, l) \in DOMAIN Shards[SourceOf(p)]
        /\ j \in DOMAIN Shards[SourceOf(p)][assigned_source_shard(p, l)]
        /\ r = Shards[SourceOf(p)][assigned_source_shard(p, l)][j]
    BY MineFacts
  <2> DEFINE s == SourceOf(p)
             a == assigned_source_shard(p, k)
             b == assigned_source_shard(p, l)
  <2>3. /\ s \in Sources /\ a \in DOMAIN Shards[s] /\ b \in DOMAIN Shards[s]
        /\ i \in DOMAIN Shards[s][a] /\ j \in DOMAIN Shards[s][b] /\ Shards[s][a][i] = Shards[s][b][j]
    BY <2>1, <2>2
  <2> HIDE DEF s, a, b
  <2>4. a = b /\ i = j
    BY <2>3, OnePlace
  <2> QED BY <2>1, <2>2, <2>4 DEF a, b
<1>2. CASE p \notin WorkerSet
  BY <1>1, <1>2 DEF assigned_source_shard
<1>3. CASE p \in WorkerSet
  <2> DEFINE x == k - 1
             y == l - 1
             n == Len(Workers)
             id == WorkerId(p)
  <2>1. /\ x \in Nat /\ y \in Nat /\ n \in Nat \ {0} /\ id \in 0..(n - 1) /\ plan.shard \in Nat
        /\ n * x \in Nat /\ n * y \in Nat
        /\ assigned_source_shard(p, k) = plan.shard + (id + n * x)
        /\ assigned_source_shard(p, l) = plan.shard + (id + n * y)
    BY <1>1, <1>3, WorkerPlace DEF Started
  <2>2. x = y => k = l
    BY <1>1
  <2> HIDE DEF x, y, n, id
  <2>3. id + n * x = id + n * y
    <3> DEFINE a == id + n * x
               b == id + n * y
    <3>1. a \in Nat /\ b \in Nat
      BY <2>1
    <3>2. plan.shard + a = plan.shard + b /\ plan.shard \in Nat
      BY <1>1, <2>1
    <3> HIDE DEF a, b
    <3>3. a = b
      BY <3>1, <3>2, Cancelled
    <3> QED BY <3>3 DEF a, b
  <2> QED BY <1>1, <2>1, <2>2, <2>3, Residues
<1> QED BY <1>1, <1>2, <1>3

\* Two processes have a row in common only where the legacy frontier would have
\* gone on, beyond the plan's.
LEMMA MineApart ==
    ASSUME CollectorsTypes, NEW p \in Collectors, NEW q \in Collectors, Started(p), Started(q), p # q,
           NEW r, NEW k, NEW i, Mine(p, r, k, i), NEW l, NEW j, Mine(q, r, l, j)
    PROVE  \/ p = "stack" /\ q \in WorkerSet /\ ~Behind(k, i, plan.shard, plan.row)
           \/ q = "stack" /\ p \in WorkerSet /\ ~Behind(l, j, plan.shard, plan.row)
<1>1. /\ k \in Nat \ {0} /\ i \in Nat \ {0} /\ r \in RowsOf(SourceOf(p)) /\ SourceOf(p) \in Sources
      /\ assigned_source_shard(p, k) \in DOMAIN Shards[SourceOf(p)]
      /\ i \in DOMAIN Shards[SourceOf(p)][assigned_source_shard(p, k)]
      /\ r = Shards[SourceOf(p)][assigned_source_shard(p, k)][i]
  BY MineFacts
<1>2. /\ l \in Nat \ {0} /\ j \in Nat \ {0} /\ r \in RowsOf(SourceOf(q)) /\ SourceOf(q) \in Sources
      /\ assigned_source_shard(q, l) \in DOMAIN Shards[SourceOf(q)]
      /\ j \in DOMAIN Shards[SourceOf(q)][assigned_source_shard(q, l)]
      /\ r = Shards[SourceOf(q)][assigned_source_shard(q, l)][j]
  BY MineFacts
<1>3. SourceOf(p) = SourceOf(q)
  <2>1. r.bucket \in BucketsOf(SourceOf(p)) /\ r.bucket \in BucketsOf(SourceOf(q))
    BY <1>1, <1>2, RowsAssumption
  <2> QED BY <2>1, SourcesApart
<1>4. assigned_source_shard(p, k) = assigned_source_shard(q, l) /\ i = j
  <2> DEFINE s == SourceOf(p)
             a == assigned_source_shard(p, k)
             b == assigned_source_shard(q, l)
  <2>1. /\ s \in Sources /\ a \in DOMAIN Shards[s] /\ i \in DOMAIN Shards[s][a] /\ r = Shards[s][a][i]
    BY <1>1
  <2>2. b \in DOMAIN Shards[s] /\ j \in DOMAIN Shards[s][b] /\ r = Shards[s][b][j]
    BY <1>2, <1>3
  <2> HIDE DEF s, a, b
  <2>3. Shards[s][a][i] = Shards[s][b][j]
    BY <2>1, <2>2
  <2>4. a = b /\ i = j
    BY <2>1, <2>2, <2>3, OnePlace
  <2> QED BY <2>4 DEF a, b
<1>5. p \in WorkerSet \cup {"stack"} /\ q \in WorkerSet \cup {"stack"}
  BY <1>3, RowsAssumption, CollectorsAssumption DEF SourceOf, Collectors
<1>6. "stack" \notin WorkerSet
  BY WorkerIds
<1>7. CASE p \in WorkerSet /\ q \in WorkerSet
  <2>1. WorkerId(p) # WorkerId(q)
    BY <1>7, WorkerIds
  <2> DEFINE x == k - 1
             y == l - 1
             n == Len(Workers)
  <2>2. /\ x \in Nat /\ y \in Nat /\ n \in Nat \ {0} /\ WorkerId(p) \in 0..(n - 1) /\ WorkerId(q) \in 0..(n - 1)
        /\ plan.shard \in Nat /\ n * x \in Nat /\ n * y \in Nat
        /\ assigned_source_shard(p, k) = plan.shard + (WorkerId(p) + n * x)
        /\ assigned_source_shard(q, l) = plan.shard + (WorkerId(q) + n * y)
    BY <1>1, <1>2, <1>7, WorkerPlace DEF Started
  <2> HIDE DEF x, y, n
  <2>3. WorkerId(p) + n * x = WorkerId(q) + n * y
    <3> DEFINE a == WorkerId(p) + n * x
               b == WorkerId(q) + n * y
    <3>1. a \in Nat /\ b \in Nat
      BY <2>2
    <3>2. plan.shard + a = plan.shard + b /\ plan.shard \in Nat
      BY <1>4, <2>2
    <3> HIDE DEF a, b
    <3>3. a = b
      BY <3>1, <3>2, Cancelled
    <3> QED BY <3>3 DEF a, b
  <2> DEFINE a == WorkerId(p)
             b == WorkerId(q)
  <2>4. a \in 0..(n - 1) /\ b \in 0..(n - 1) /\ n \in Nat \ {0} /\ a + n * x = b + n * y
    BY <2>2, <2>3
  <2>5. a = b
    <3> HIDE DEF a, b
    <3> QED BY <2>2, <2>4, Residues
  <2> QED BY <2>1, <2>5
<1>8. ASSUME NEW w \in WorkerSet, plan # None, NEW x \in Nat \ {0}, NEW y \in Nat \ {0}, NEW z \in Nat,
             x = assigned_source_shard(w, y), y = 1 => z > FirstCursor(w).row
      PROVE  ~Behind(x, z, plan.shard, plan.row)
  <2> DEFINE m == Len(Workers) * (y - 1)
  <2>1. /\ plan.shard \in Nat \ {0} /\ plan.row \in Nat /\ WorkerId(w) \in Nat /\ m \in Nat
        /\ x = plan.shard + (WorkerId(w) + m) /\ Len(Workers) \in Nat \ {0} /\ y - 1 \in Nat
    BY <1>8, WorkerPlace
  <2>2. m = 0 => y = 1
    BY <2>1
  <2>3. WorkerId(w) = 0 => Workers[1] = w
    BY WorkerIds
  <2> HIDE DEF m
  <2>4. x = plan.shard => WorkerId(w) = 0 /\ m = 0
    BY <2>1
  <2>5. x = plan.shard => z > plan.row
    BY <1>8, <2>2, <2>3, <2>4 DEF FirstCursor
  <2> QED BY <2>1, <2>5 DEF Behind
<1>9. CASE p = "stack" /\ q \in WorkerSet
  <2>1. k = assigned_source_shard(q, l)
    BY <1>4, <1>6, <1>9 DEF assigned_source_shard
  <2>2. l = 1 => i > FirstCursor(q).row
    BY <1>4 DEF Mine
  <2> QED BY <1>1, <1>2, <1>8, <1>9, <2>1, <2>2 DEF Started
<1>10. CASE q = "stack" /\ p \in WorkerSet
  <2>1. l = assigned_source_shard(p, k)
    BY <1>4, <1>6, <1>10 DEF assigned_source_shard
  <2>2. k = 1 => j > FirstCursor(p).row
    BY <1>4 DEF Mine
  <2> QED BY <1>1, <1>2, <1>8, <1>10, <2>1, <2>2 DEF Started
<1> QED BY <1>5, <1>7, <1>9, <1>10

\* Archives that hold more rows of a bucket hold more of its tokens, and archives
\* apart from one another hold theirs together.
LEMMA TokensOrder ==
    ASSUME NEW A, NEW B, A \subseteq Archive, B \subseteq Archive, NEW b,
           \A x \in A : x.bucket = b => \A r \in x.rows : \E y \in B : y.bucket = b /\ r \in y.rows
    PROVE  Tokens(A, b) <= Tokens(B, b)
<1> DEFINE R(C) == UNION {a.rows : a \in {x \in C : x.bucket = b}}
<1>1. R(A) \subseteq R(B) /\ R(A) \subseteq Rows /\ R(B) \subseteq Rows
  BY DEF Archive
<1>2. Tokens(A, b) = TokensIn(R(A)) /\ Tokens(B, b) = TokensIn(R(B))
  BY DEF Tokens
<1> HIDE DEF R
<1> DEFINE S == R(A)
           T == R(B)
<1>3. S \subseteq T /\ S \subseteq Rows /\ T \subseteq Rows
  BY <1>1
<1>4. Counted(S) /\ Counted(T)
  <2> HIDE DEF S, T
  <2>1. IsFiniteSet(S) /\ IsFiniteSet(T)
    BY <1>3, RowsFinite, FS_Subset
  <2> QED BY <1>3, <2>1, RowsFinite DEF Counted
<1>5. TokensIn(S) <= TokensIn(T)
  <2> HIDE DEF S, T
  <2>1. TokenSet(S) \subseteq TokenSet(T)
    BY <1>3 DEF TokenSet
  <2>2. IsFiniteSet(TokenSet(T)) /\ TokensIn(S) = Cardinality(TokenSet(S))
        /\ TokensIn(T) = Cardinality(TokenSet(T))
    BY <1>4, TokensFinite
  <2> QED BY <2>1, <2>2, FS_Subset
<1> QED BY <1>2, <1>5

\* Archives whose rows are apart add up.
LEMMA TokensApart ==
    ASSUME NEW A, NEW B, A \subseteq Archive, B \subseteq Archive, NEW b,
           \A x \in A, y \in B : x.rows \cap y.rows = {}
    PROVE  Tokens(A \cup B, b) = Tokens(A, b) + Tokens(B, b)
<1> DEFINE R(C) == UNION {a.rows : a \in {x \in C : x.bucket = b}}
<1>1. R(A \cup B) = R(A) \cup R(B) /\ R(A) \subseteq Rows /\ R(B) \subseteq Rows /\ R(A) \cap R(B) = {}
  BY DEF Archive
<1>2. Tokens(A, b) = TokensIn(R(A)) /\ Tokens(B, b) = TokensIn(R(B))
      /\ Tokens(A \cup B, b) = TokensIn(R(A) \cup R(B))
  BY <1>1 DEF Tokens
<1> HIDE DEF R
<1> DEFINE S == R(A)
           T == R(B)
<1>3. Counted(S) /\ Counted(T) /\ S \cap T = {}
  <2>1. S \subseteq Rows /\ T \subseteq Rows /\ S \cap T = {}
    BY <1>1
  <2> HIDE DEF S, T
  <2>2. IsFiniteSet(S) /\ IsFiniteSet(T)
    BY <2>1, RowsFinite, FS_Subset
  <2> QED BY <2>1, <2>2, RowsFinite DEF Counted
<1>4. TokensIn(S \cup T) = TokensIn(S) + TokensIn(T)
  <2> HIDE DEF S, T
  <2> QED BY <1>3, TokensSplit
<1> QED BY <1>2, <1>4

\* All that is checkpointed is archives.
LEMMA CheckpointedType ==
    CollectorsTypes =>
      /\ AllCheckpointed \subseteq Archive /\ \A p \in Collectors : Checkpointed(p) \subseteq AllCheckpointed
      /\ ledger \subseteq Archive
<1> SUFFICES ASSUME CollectorsTypes
    PROVE  /\ AllCheckpointed \subseteq Archive
           /\ \A p \in Collectors : Checkpointed(p) \subseteq AllCheckpointed
           /\ ledger \subseteq Archive
  OBVIOUS
<1>1. \A p \in Collectors : Checkpointed(p) \subseteq Archive
  BY HeldArchives DEF Held
<1> QED BY <1>1 DEF AllCheckpointed, CollectorsTypes

\* The same, of one state or the next.
LEMMA CheckpointedArchives == CollectorsTypes => AllCheckpointed \subseteq Archive
BY CheckpointedType

\* A bucket that is full stays full.
LEMMA FullStays ==
    ASSUME CollectorsTypes, CollectorsTypes', AllCheckpointed \subseteq AllCheckpointed',
           NEW b \in Buckets, Full(b)
    PROVE  Full(b)'
<1> DEFINE A == AllCheckpointed
           B == AllCheckpointed'
<1>1. A \subseteq Archive /\ A \subseteq B
  BY CheckpointedType
<1>2. B \subseteq Archive
  <2>1. (CollectorsTypes => AllCheckpointed \subseteq Archive)'
    BY CheckpointedArchives, PTL
  <2> QED BY <2>1
<1> HIDE DEF A, B
<1>3. Tokens(A, b) <= Tokens(B, b) /\ Tokens(A, b) \in Nat /\ Tokens(B, b) \in Nat
  <2>1. \A x \in A : x.bucket = b => \A r \in x.rows : \E y \in B : y.bucket = b /\ r \in y.rows
    BY <1>1
  <2> QED BY <1>1, <1>2, <2>1, TokensOrder, TokensType
<1>4. Target[b] \in Nat
  BY CollectorsAssumption
<1> QED BY <1>3, <1>4 DEF Full, A, B

\* The scan of a process stays as long as its checkpoints do, and the plan.
LEMMA ScanStill ==
    ASSUME NEW p \in Collectors, checkpoints'[p] = checkpoints[p], plan' = plan \/ p \notin WorkerSet
    PROVE  /\ Cursor(p)' = Cursor(p) /\ Checkpointed(p)' = Checkpointed(p)
           /\ FirstCursor(p)' = FirstCursor(p) /\ (Started(p)' <=> Started(p))
           /\ \A k : (HasShard(p, k)' <=> HasShard(p, k)) /\ Shard(p, k)' = Shard(p, k)
           /\ \A r, k, i : Mine(p, r, k, i)' <=> Mine(p, r, k, i)
           /\ \A k, i : Past(p, k, i)' <=> Past(p, k, i)
           /\ \A at, row : Placed(p, at, row)' <=> Placed(p, at, row)
           /\ ScanDone(p) => ScanDone(p)'
<1>1. p \notin WorkerSet => p # Workers[1]
  BY WorkerIds
<1>2. FirstCursor(p)' = FirstCursor(p) /\ (Started(p)' <=> Started(p))
  BY <1>1 DEF FirstCursor, Started
<1>3. Cursor(p)' = Cursor(p) /\ Checkpointed(p)' = Checkpointed(p)
  BY <1>2 DEF Cursor, Checkpointed
<1>4. \A k : assigned_source_shard(p, k)' = assigned_source_shard(p, k)
  BY DEF assigned_source_shard
<1>5. \A k : (HasShard(p, k)' <=> HasShard(p, k)) /\ Shard(p, k)' = Shard(p, k)
  BY <1>4 DEF HasShard, Shard
<1>6. \A r, k, i : Mine(p, r, k, i)' <=> Mine(p, r, k, i)
  BY <1>2, <1>5 DEF Mine
<1>7. \A k, i : Past(p, k, i)' <=> Past(p, k, i)
  BY <1>3 DEF Past
<1>8. \A at, row : Placed(p, at, row)' <=> Placed(p, at, row)
  BY <1>5 DEF Placed
<1>9. ScanDone(p) => ScanDone(p)'
  BY <1>2, <1>3, <1>6, <1>7, <1>8 DEF ScanDone
<1> QED BY <1>2, <1>3, <1>5, <1>6, <1>7, <1>8, <1>9

\* What is missing from the scan was full, and is still.
LEMMA MissedStays ==
    ASSUME CollectorsTypes, CollectorsTypes', AllCheckpointed \subseteq AllCheckpointed', NEW p \in Collectors,
           checkpoints'[p] = checkpoints[p], plan' = plan \/ p \notin WorkerSet, Missed(p)
    PROVE  Missed(p)'
<1>1. /\ Checkpointed(p)' = Checkpointed(p)
      /\ \A r, k, i : Mine(p, r, k, i)' <=> Mine(p, r, k, i)
      /\ \A k, i : Past(p, k, i)' <=> Past(p, k, i)
  BY ScanStill
<1>2. ASSUME NEW r \in RowsOf(SourceOf(p)), Full(r.bucket) PROVE Full(r.bucket)'
  <2>1. r.bucket \in Buckets
    <3>1. SourceOf(p) \in Sources
      BY DEF SourceOf, Sources, Collectors
    <3>2. r.bucket \in BucketsOf(SourceOf(p))
      BY <3>1, RowsAssumption
    <3> QED BY <3>1, <3>2 DEF BucketsOf, Buckets, Sources
  <2> DEFINE b == r.bucket
  <2>2. b \in Buckets /\ Full(b)
    BY <1>2, <2>1
  <2>3. Full(b)'
    <3> HIDE DEF b
    <3> QED BY <2>2, FullStays
  <2> QED BY <2>3
<1> QED BY <1>1, <1>2 DEF Missed

\* A process that changes neither its place nor its memory of the scan keeps it.
LEMMA ScanStays ==
    ASSUME CollectorsTypes, CollectorsTypes', AllCheckpointed \subseteq AllCheckpointed', NEW p \in Collectors,
           checkpoints'[p] = checkpoints[p], plan' = plan \/ p \notin WorkerSet, Scan(p),
           Filling(p)' =>
              /\ pc'[p] = pc[p] \/ (pc[p] = "commit" /\ pc'[p] = "checkpoint")
              /\ local'[p].at = local[p].at /\ local'[p].row = local[p].row /\ local'[p].open = local[p].open
              /\ local'[p].totals = local[p].totals /\ local'[p].since = local[p].since,
           pc'[p] = "publish" =>
              pc[p] = "publish" /\ local'[p].at = local[p].at /\ local'[p].row = local[p].row
    PROVE  Scan(p)'
<1>1. /\ Cursor(p)' = Cursor(p) /\ Checkpointed(p)' = Checkpointed(p) /\ (Started(p)' <=> Started(p))
      /\ \A r, k, i : Mine(p, r, k, i)' <=> Mine(p, r, k, i)
      /\ \A k, i : Past(p, k, i)' <=> Past(p, k, i)
      /\ \A at, row : Placed(p, at, row)' <=> Placed(p, at, row)
      /\ ScanDone(p) => ScanDone(p)'
  BY ScanStill
<1>2. Started(p)' => ScanDone(p)' /\ Missed(p)'
  BY <1>1, MissedStays DEF Scan
<1>3. ASSUME Filling(p)' PROVE ScanOpen(p)'
  <2>1. /\ pc'[p] = pc[p] \/ (pc[p] = "commit" /\ pc'[p] = "checkpoint")
        /\ local'[p].at = local[p].at /\ local'[p].row = local[p].row /\ local'[p].open = local[p].open
        /\ local'[p].totals = local[p].totals /\ local'[p].since = local[p].since
    BY <1>3
  <2>2. Filling(p) /\ ScanOpen(p)
    BY <1>3, <2>1 DEF Filling, Scan
  <2>3. OpenRows(p)' = OpenRows(p) /\ \A k, i : New(p, k, i)' <=> New(p, k, i)
    BY <1>1, <2>1 DEF OpenRows, New
  <2>4. \A b : live_total(p, b)' = live_total(p, b)
    BY <2>1 DEF live_total, Tokens
  <2>5. Placed(p, local[p].at, local[p].row)'
    BY <2>1, <2>2 DEF ScanOpen, Placed, HasShard, Shard, assigned_source_shard
  <2>6. Behind(Cursor(p).at, Cursor(p).row, local[p].at, local[p].row)'
    BY <1>1, <2>1, <2>2 DEF ScanOpen, Behind
  <2>7. \A r \in OpenRows(p)' : \E k, i \in Nat : Mine(p, r, k, i)' /\ New(p, k, i)'
    BY <1>1, <2>2, <2>3 DEF ScanOpen
  <2>8. \A k, i \in Nat : \A r \in RowsOf(SourceOf(p)) :
          Mine(p, r, k, i)' /\ New(p, k, i)'
             => r \in OpenRows(p)' \/ live_total(p, r.bucket)' >= Target[r.bucket]
    BY <1>1, <2>2, <2>3, <2>4 DEF ScanOpen
  <2>9. /\ Cardinality(OpenRows(p)') <= (IF pc'[p] = "rows" THEN local'[p].since ELSE CheckpointRows)
        /\ pc'[p] = "rows" => local'[p].since < CheckpointRows
    BY <2>1, <2>2, <2>3 DEF ScanOpen
  <2> QED BY <2>5, <2>6, <2>7, <2>8, <2>9 DEF ScanOpen
<1>4. pc'[p] = "publish" => local'[p].at = Cursor(p)'.at /\ local'[p].row = Cursor(p)'.row
  BY <1>1 DEF Scan
<1> QED BY <1>2, <1>3, <1>4 DEF Scan

\* A process begins its rows where its cursor is, with nothing open.
LEMMA ScanBegins ==
    ASSUME CollectorsTypes, CollectorsTypes', AllCheckpointed \subseteq AllCheckpointed', NEW p \in Collectors,
           checkpoints'[p] = checkpoints[p], plan' = plan, Scan(p), Started(p), pc'[p] = "rows",
           local'[p].at = Cursor(p).at, local'[p].row = Cursor(p).row, local'[p].open = {}, local'[p].since = 0
    PROVE  Scan(p)'
<1>1. /\ Cursor(p)' = Cursor(p) /\ (Started(p)' <=> Started(p))
      /\ \A k, i : Past(p, k, i)' <=> Past(p, k, i)
      /\ \A at, row : Placed(p, at, row)' <=> Placed(p, at, row)
      /\ ScanDone(p) => ScanDone(p)'
  BY ScanStill
<1>2. ScanDone(p) /\ ScanDone(p)' /\ Missed(p)'
  BY <1>1, MissedStays DEF Scan
<1>3. OpenRows(p)' = {} /\ \A k, i : ~New(p, k, i)'
  BY <1>1 DEF OpenRows, New, Past
<1>4. Placed(p, local[p].at, local[p].row)'
  BY <1>2 DEF ScanDone, Placed, HasShard, Shard, assigned_source_shard
<1>5. Behind(Cursor(p).at, Cursor(p).row, local[p].at, local[p].row)'
  <2>1. Cursor(p) \in Cursors
    BY CursorType DEF Started
  <2>2. Cursor(p).row <= Cursor(p).row
    BY <2>1 DEF Cursors
  <2> QED BY <1>1, <2>2 DEF Behind
<1>6. Cardinality({}) = 0 /\ 0 <= local'[p].since /\ local'[p].since < CheckpointRows
  BY FS_EmptySet, CollectorsAssumption
<1>7. ScanOpen(p)'
  BY <1>3, <1>4, <1>5, <1>6 DEF ScanOpen
<1> QED BY <1>1, <1>2, <1>7 DEF Scan

\* No row is in two archives that are checkpointed, or in one that is and one
\* that is open.
LEMMA RowsApart ==
    ASSUME CollectKept, PlanExact, \A p \in Collectors : Scan(p),
           NEW p \in Collectors, NEW x \in Checkpointed(p), NEW q \in Collectors
    PROVE  /\ \A y \in Checkpointed(q) : x # y => x.rows \cap y.rows = {}
           /\ Filling(q) => \A y \in local[q].open : x.rows \cap y.rows = {}
<1>1. CollectorsTypes /\ Control /\ Scan(p) /\ Scan(q) /\ Numbering(p) /\ Numbering(q)
  BY DEF CollectKept
<1>2. Started(p) /\ ScanDone(p)
  <2>1. x \in Held(p)
    BY DEF Held
  <2> QED BY <1>1, <2>1, WorkerIndex DEF Started, Scan
<1>3. plan # None => Cursor("stack").at = plan.shard /\ Cursor("stack").row = plan.row /\ pc["stack"] = "off"
  BY <1>1 DEF Control, PlanExact
<1>4. ASSUME NEW r \in x.rows, NEW l, NEW j, Mine(q, r, l, j), Past(q, l, j) \/ Filling(q), Started(q), p # q
      PROVE  FALSE
  <2>1. PICK k \in Nat, i \in Nat : Mine(p, r, k, i) /\ Past(p, k, i)
    BY <1>2 DEF ScanDone
  <2>2. CASE p = "stack" /\ q \in WorkerSet /\ ~Behind(k, i, plan.shard, plan.row)
    BY <1>3, <1>4, <2>1, <2>2 DEF Started, Past
  <2>3. CASE q = "stack" /\ p \in WorkerSet /\ ~Behind(l, j, plan.shard, plan.row)
    BY <1>2, <1>3, <1>4, <2>3 DEF Started, Past, Filling
  <2> QED BY <1>1, <1>2, <1>4, <2>1, <2>2, <2>3, MineApart
<1>5. ASSUME NEW y \in Checkpointed(q), x # y, NEW r \in x.rows, r \in y.rows PROVE FALSE
  <2>1. Started(q) /\ ScanDone(q)
    <3>1. y \in Held(q)
      BY DEF Held
    <3> QED BY <1>1, <3>1, WorkerIndex DEF Started, Scan
  <2>2. PICK l \in Nat, j \in Nat : Mine(q, r, l, j) /\ Past(q, l, j)
    BY <1>5, <2>1 DEF ScanDone
  <2>3. p = q
    BY <1>4, <2>1, <2>2
  <2> QED BY <1>5, <2>1, <2>3 DEF ScanDone
<1>6. ASSUME Filling(q), NEW y \in local[q].open, NEW r \in x.rows, r \in y.rows PROVE FALSE
  <2>1. Started(q) /\ ScanOpen(q)
    <3>1. y \in Held(q)
      BY DEF Held
    <3> QED BY <1>1, <1>6, <3>1, WorkerIndex DEF Started, Scan
  <2>2. r \in OpenRows(q)
    BY <1>6 DEF OpenRows
  <2>3. PICK l \in Nat, j \in Nat : Mine(q, r, l, j) /\ New(q, l, j)
    BY <2>1, <2>2 DEF ScanOpen
  <2>4. p = q
    BY <1>4, <1>6, <2>1, <2>3
  <2>5. PICK k \in Nat, i \in Nat : Mine(p, r, k, i) /\ Past(p, k, i)
    BY <1>2, <1>6 DEF ScanDone
  <2>6. k = l /\ i = j
    BY <1>1, <1>2, <2>3, <2>4, <2>5, MineOnce
  <2> QED BY <2>3, <2>4, <2>5, <2>6 DEF New
<1> QED BY <1>5, <1>6

\* What a process has open is finite.
LEMMA OpenFinite ==
    ASSUME NEW p, local[p] \in LocalMemory
    PROVE  OpenRows(p) \subseteq Rows /\ IsFiniteSet(OpenRows(p)) /\ Cardinality(OpenRows(p)) \in Nat
<1>1. local[p].open \subseteq Archive
  BY DEF LocalMemory
<1>2. OpenRows(p) \subseteq Rows
  BY <1>1 DEF OpenRows, Archive
<1> QED BY <1>2, RowsFinite, FS_Subset, FS_CardinalityType

\* A shard has been read to its end.
LEMMA EndShardScan ==
    ASSUME CollectKept, CollectorsTypes', NEW p \in Collectors, EndShard(p), Scan(p)
    PROVE  Scan(p)'
<1>1. /\ pc[p] = "rows" /\ HasShard(p, local[p].at) /\ local[p].row = Len(Shard(p, local[p].at))
      /\ pc'[p] = "commit" /\ UNCHANGED <<checkpoints, plan, ledger>>
  BY DEF EndShard, Goto, durable, collection, CollectKept, CollectorsTypes
<1>2. local[p] \in LocalMemory /\ Started(p) /\ Filling(p) /\ Filling(p)'
  BY <1>1, ProcessFacts DEF Started, Filling
<1>3. /\ local'[p].at = local[p].at + 1 /\ local'[p].row = 0 /\ local'[p].open = local[p].open
      /\ local'[p].totals = local[p].totals /\ local'[p].since = local[p].since
  BY <1>2 DEF EndShard, CollectKept, CollectorsTypes, LocalMemory
<1>4. /\ Cursor(p)' = Cursor(p) /\ Checkpointed(p)' = Checkpointed(p) /\ (Started(p)' <=> Started(p))
      /\ \A r, k, i : Mine(p, r, k, i)' <=> Mine(p, r, k, i)
      /\ \A k, i : Past(p, k, i)' <=> Past(p, k, i)
      /\ ScanDone(p) => ScanDone(p)'
  BY <1>1, ScanStill
<1>5. ScanDone(p) /\ Missed(p) /\ ScanOpen(p)
  BY <1>2 DEF Scan
<1>6. Missed(p)'
  <2>1. AllCheckpointed \subseteq AllCheckpointed'
    BY <1>1 DEF AllCheckpointed, Checkpointed
  <2> QED BY <1>1, <1>5, <2>1, MissedStays DEF CollectKept
<1>7. local[p].at \in Nat \ {0} /\ local[p].row \in Nat /\ Cursor(p).at \in Nat /\ Cursor(p).row \in Nat
  <2>1. Cursor(p) \in Cursors
    BY <1>2, CursorType DEF Started, CollectKept
  <2> QED BY <1>2, <2>1 DEF LocalMemory, Cursors
<1>8. Placed(p, local[p].at, local[p].row)'
  <2>1. HasShard(p, local'[p].at) => 0 <= Len(Shard(p, local'[p].at))
    <3> DEFINE at == local'[p].at
    <3>1. at \in Nat \ {0}
      BY <1>3, <1>7
    <3> HIDE DEF at
    <3>2. HasShard(p, at) => Shard(p, at) \in Seq(RowsOf(SourceOf(p)))
      BY <1>2, <3>1, ShardFacts DEF CollectKept, Started
    <3>3. HasShard(p, at) => 0 <= Len(Shard(p, at))
      BY <3>2
    <3> QED BY <3>3 DEF at
  <2>2. local'[p].at - 1 = local[p].at
    BY <1>3, <1>7
  <2>3. Placed(p, local'[p].at, 0)
    BY <1>1, <2>1, <2>2 DEF Placed
  <2> QED BY <1>1, <1>3, <2>3 DEF Placed, HasShard, Shard, assigned_source_shard
<1>9. Behind(Cursor(p).at, Cursor(p).row, local[p].at, local[p].row)'
  BY <1>3, <1>4, <1>5, <1>7 DEF ScanOpen, Behind
<1>10. OpenRows(p)' = OpenRows(p) /\ \A b : live_total(p, b)' = live_total(p, b)
  BY <1>3 DEF OpenRows, live_total, Tokens
<1>11. \A r, k, i : Mine(p, r, k, i) => (New(p, k, i)' <=> New(p, k, i))
  <2> SUFFICES ASSUME NEW r, NEW k, NEW i, Mine(p, r, k, i)
               PROVE  Behind(k, i, local'[p].at, local'[p].row) <=> Behind(k, i, local[p].at, local[p].row)
    BY <1>4 DEF New
  <2>1. k \in Nat \ {0} /\ i \in Nat \ {0} /\ i \in 1..Len(Shard(p, k))
    BY <1>2, MineFacts DEF CollectKept, Mine
  <2>2. k = local[p].at => i <= local[p].row
    BY <1>1, <2>1
  <2> QED BY <1>3, <1>7, <2>1, <2>2 DEF Behind
<1>12. /\ \A r \in OpenRows(p)' : \E k, i \in Nat : Mine(p, r, k, i)' /\ New(p, k, i)'
       /\ \A k, i \in Nat : \A r \in RowsOf(SourceOf(p)) :
          Mine(p, r, k, i)' /\ New(p, k, i)'
             => r \in OpenRows(p)' \/ live_total(p, r.bucket)' >= Target[r.bucket]
  BY <1>4, <1>5, <1>10, <1>11 DEF ScanOpen
<1>13. Cardinality(OpenRows(p)') <= CheckpointRows
  <2>1. Cardinality(OpenRows(p)) <= local[p].since /\ local[p].since < CheckpointRows
    BY <1>1, <1>5 DEF ScanOpen
  <2>2. local[p].since \in Nat /\ CheckpointRows \in Nat
    BY <1>2, CollectorsAssumption DEF LocalMemory
  <2>3. Cardinality(OpenRows(p)) \in Nat
    BY <1>2, OpenFinite
  <2> QED BY <1>10, <2>1, <2>2, <2>3
<1>14. ScanOpen(p)'
  BY <1>1, <1>8, <1>9, <1>12, <1>13 DEF ScanOpen
<1> QED BY <1>1, <1>4, <1>5, <1>6, <1>14 DEF Scan

\* What taking a row does to the process's place and memory.
LEMMA TakeRowMoves ==
    ASSUME CollectKept, NEW p \in Collectors, TakeRow(p)
    PROVE  /\ \A q \in Collectors \ {p} : local'[q] = local[q] /\ pc'[q] = pc[q]
           /\ UNCHANGED <<checkpoints, sealed, plan, raw, ledger, orphans, markers, supervisor>>
           /\ pc[p] = "rows"
           /\ \/ pc'[p] = "off" /\ local'[p] = Idle
              \/ /\ \/ pc'[p] = "commit"
                    \/ pc'[p] = "rows" /\ local'[p].since = local[p].since + 1
                       /\ local[p].since + 1 < CheckpointRows
                 /\ local'[p].at = local[p].at /\ local'[p].row = local[p].row + 1
                 /\ local'[p].open = Filled(p).open /\ local'[p].totals = local[p].totals
                 /\ outcome' = outcome
<1>1. pc \in [Collectors -> Places] /\ local \in [Collectors -> LocalMemory]
  BY DEF CollectKept, CollectorsTypes
<1>2. UNCHANGED <<checkpoints, sealed, plan, raw, ledger, orphans, markers, supervisor>> /\ pc[p] = "rows"
  BY TakeRowCases DEF durable, collection
<1>3. CASE Leave(p, "off", "stopped")
  BY <1>1, <1>2, <1>3 DEF Leave, Goto
<1> DEFINE f == Filled(p)
<1>4. /\ f \in LocalMemory /\ f.at = local[p].at /\ f.row = local[p].row
      /\ f.totals = local[p].totals /\ f.since = local[p].since
  BY FilledFacts
<1>5. ASSUME NEW halt \in BOOLEAN, outcome' = outcome, pc' = [pc EXCEPT ![p] = "commit"],
             local' = [local EXCEPT ![p] = [f EXCEPT !.row = @ + 1, !.halt = halt, !.ended = FALSE]]
      PROVE  /\ \A q \in Collectors \ {p} : local'[q] = local[q] /\ pc'[q] = pc[q]
             /\ pc'[p] = "commit" /\ local'[p].at = local[p].at /\ local'[p].row = local[p].row + 1
             /\ local'[p].open = f.open /\ local'[p].totals = local[p].totals
  <2> HIDE DEF f
  <2>1. local'[p] = [f EXCEPT !.row = @ + 1, !.halt = halt, !.ended = FALSE]
    BY <1>1, <1>5
  <2>2. local'[p].at = f.at /\ local'[p].row = f.row + 1 /\ local'[p].open = f.open /\ local'[p].totals = f.totals
    BY <1>4, <2>1 DEF LocalMemory
  <2> QED BY <1>1, <1>4, <1>5, <2>2
<1>6. ASSUME outcome' = outcome, pc' = [pc EXCEPT ![p] = "rows"], local[p].since + 1 < CheckpointRows,
             local' = [local EXCEPT ![p] = [f EXCEPT !.row = @ + 1, !.since = @ + 1]]
      PROVE  /\ \A q \in Collectors \ {p} : local'[q] = local[q] /\ pc'[q] = pc[q]
             /\ pc'[p] = "rows" /\ local'[p].since = local[p].since + 1
             /\ local'[p].at = local[p].at /\ local'[p].row = local[p].row + 1
             /\ local'[p].open = f.open /\ local'[p].totals = local[p].totals
  <2> HIDE DEF f
  <2>1. local'[p] = [f EXCEPT !.row = @ + 1, !.since = @ + 1]
    BY <1>1, <1>6
  <2>2. local'[p].at = f.at /\ local'[p].row = f.row + 1 /\ local'[p].open = f.open /\ local'[p].totals = f.totals
        /\ local'[p].since = f.since + 1
    BY <1>4, <2>1 DEF LocalMemory
  <2> QED BY <1>1, <1>4, <1>6, <2>2
<1>7. CASE \E halt \in BOOLEAN :
             /\ outcome' = outcome /\ pc' = [pc EXCEPT ![p] = "commit"]
             /\ local' = [local EXCEPT ![p] = [f EXCEPT !.row = @ + 1, !.halt = halt, !.ended = FALSE]]
  BY <1>2, <1>5, <1>7
<1>8. CASE /\ outcome' = outcome /\ pc' = [pc EXCEPT ![p] = "rows"] /\ local[p].since + 1 < CheckpointRows
           /\ local' = [local EXCEPT ![p] = [f EXCEPT !.row = @ + 1, !.since = @ + 1]]
  BY <1>2, <1>6, <1>8
<1>9. \/ Leave(p, "off", "stopped")
      \/ \E halt \in BOOLEAN :
             /\ outcome' = outcome /\ pc' = [pc EXCEPT ![p] = "commit"]
             /\ local' = [local EXCEPT ![p] = [f EXCEPT !.row = @ + 1, !.halt = halt, !.ended = FALSE]]
      \/ /\ outcome' = outcome /\ pc' = [pc EXCEPT ![p] = "rows"] /\ local[p].since + 1 < CheckpointRows
         /\ local' = [local EXCEPT ![p] = [f EXCEPT !.row = @ + 1, !.since = @ + 1]]
  BY TakeRowCases
<1> QED BY <1>3, <1>7, <1>8, <1>9

\* A set of archives in which one is replaced by a larger one of its bucket.
LEMMA Replaced ==
    ASSUME NEW o, NEW m \in o, NEW a, NEW r, a.rows = m.rows \cup {r}, a.bucket = m.bucket,
           NEW n, n = (o \ {m}) \cup {a}
    PROVE  /\ \A x : x \in UNION {y.rows : y \in n} <=> x = r \/ x \in UNION {y.rows : y \in o}
           /\ \A x \in o : \E y \in n : y.bucket = x.bucket /\ x.rows \subseteq y.rows
<1>1. ASSUME NEW x \in UNION {y.rows : y \in n} PROVE x = r \/ x \in UNION {y.rows : y \in o}
  OBVIOUS
<1>2. a \in n /\ \A x \in o : x = m \/ x \in n
  OBVIOUS
<1>3. ASSUME NEW x \in o PROVE \E y \in n : y.bucket = x.bucket /\ x.rows \subseteq y.rows
  BY <1>2
<1>4. r \in UNION {y.rows : y \in n}
  BY <1>2
<1>5. ASSUME NEW x \in UNION {y.rows : y \in o} PROVE x \in UNION {y.rows : y \in n}
  <2>1. PICK y \in o : x \in y.rows
    OBVIOUS
  <2>2. PICK z \in n : y.rows \subseteq z.rows
    BY <1>3
  <2> QED BY <2>1, <2>2
<1> QED BY <1>1, <1>3, <1>4, <1>5

\* The rows a process has open once it has looked at another.
LEMMA FilledRows ==
    ASSUME CollectKept, NEW p \in Collectors, TakeRow(p)
    PROVE  /\ \/ /\ live_total(p, RowAt(p).bucket) < Target[RowAt(p).bucket]
                 /\ UNION {x.rows : x \in Filled(p).open} = OpenRows(p) \cup {RowAt(p)}
              \/ /\ live_total(p, RowAt(p).bucket) >= Target[RowAt(p).bucket]
                 /\ Filled(p).open = local[p].open
           /\ \A b : /\ Tokens(local[p].open, b) <= Tokens(Filled(p).open, b)
                     /\ Tokens(local[p].open, b) \in Nat /\ Tokens(Filled(p).open, b) \in Nat
<1> DEFINE r == RowAt(p)
           o == local[p].open
           n == Filled(p).open
           b == r.bucket
<1>1. pc[p] = "rows" /\ r \in RowsOf(SourceOf(p))
  BY TakeRowCases
<1>2. Filled(p) \in LocalMemory /\ local[p] \in LocalMemory
  BY FilledFacts, ProcessFacts
<1>3. n \subseteq Archive /\ o \subseteq Archive
  BY <1>2 DEF LocalMemory
<1>4. live_total(p, b) \in Int /\ Target[b] \in Nat
  <2>1. b \in Buckets
    BY <1>1, OpenedFacts
  <2> HIDE DEF b
  <2>2. local[p].totals[b] \in Nat
    BY <1>2, <2>1 DEF LocalMemory
  <2>3. Tokens(o, b) \in Nat
    <3> HIDE DEF o
    <3> QED BY <1>3, TokensType
  <2> QED BY <2>1, <2>2, <2>3, CollectorsAssumption DEF live_total
<1>5. CASE live_total(p, b) < Target[b]
  <2>1. n = Opened(p, r).open
    BY <1>5 DEF Filled
  <2>2. \/ \E m \in o : m.bucket = b /\ n = (o \ {m}) \cup {[bucket |-> b, index |-> m.index, rows |-> m.rows \cup {r}]}
        \/ n = o \cup {[bucket |-> b, index |-> ArchiveIndex(p, b), rows |-> {r}]}
    <3> DEFINE z == r
    <3>1. z \in RowsOf(SourceOf(p)) /\ n = Opened(p, z).open
      BY <1>1, <2>1
    <3> HIDE DEF z, n
    <3>2. \/ \E m \in local[p].open :
                    /\ m.bucket = z.bucket /\ Opened(p, z).next = local[p].next
                    /\ Opened(p, z).open = (local[p].open \ {m})
                          \cup {[bucket |-> z.bucket, index |-> m.index, rows |-> m.rows \cup {z}]}
          \/ Opened(p, z).open = local[p].open
                       \cup {[bucket |-> z.bucket, index |-> ArchiveIndex(p, z.bucket), rows |-> {z}]}
      BY <1>1, <3>1, OpenedFacts
    <3> QED BY <3>1, <3>2 DEF z
  <2> HIDE DEF n, o, r, b
  <2>3. /\ \A x : x \in UNION {y.rows : y \in n} <=> x = r \/ x \in UNION {y.rows : y \in o}
        /\ \A x \in o : \E y \in n : y.bucket = x.bucket /\ x.rows \subseteq y.rows
    <3>1. CASE n = o \cup {[bucket |-> b, index |-> ArchiveIndex(p, b), rows |-> {r}]}
      <4> DEFINE a == [bucket |-> b, index |-> ArchiveIndex(p, b), rows |-> {r}]
      <4>1. a.rows = {r} /\ n = o \cup {a}
        BY <3>1
      <4> HIDE DEF a
      <4> QED BY <4>1
    <3>2. CASE \E m \in o : m.bucket = b
                 /\ n = (o \ {m}) \cup {[bucket |-> b, index |-> m.index, rows |-> m.rows \cup {r}]}
      <4>1. PICK m \in o : m.bucket = b
                 /\ n = (o \ {m}) \cup {[bucket |-> b, index |-> m.index, rows |-> m.rows \cup {r}]}
        BY <3>2
      <4> DEFINE a == [bucket |-> b, index |-> m.index, rows |-> m.rows \cup {r}]
      <4>2. a.rows = m.rows \cup {r} /\ a.bucket = m.bucket
        BY <4>1
      <4>3. n = (o \ {m}) \cup {a}
        BY <4>1
      <4> HIDE DEF a
      <4> QED BY <4>2, <4>3, Replaced
    <3> QED BY <2>2, <3>1, <3>2
  <2>4. \A c : Tokens(o, c) <= Tokens(n, c) /\ Tokens(o, c) \in Nat /\ Tokens(n, c) \in Nat
    <3>1. ASSUME NEW c PROVE Tokens(o, c) <= Tokens(n, c)
      <4>1. \A x \in o : x.bucket = c => \A y \in x.rows : \E z \in n : z.bucket = c /\ y \in z.rows
        BY <2>3
      <4> QED BY <1>3, <4>1, TokensOrder
    <3> QED BY <1>3, <3>1, TokensType
  <2>5. UNION {x.rows : x \in n} = (UNION {y.rows : y \in o}) \cup {r}
    BY <2>3
  <2>6. OpenRows(p) = UNION {y.rows : y \in o}
    BY DEF OpenRows, o
  <2> QED BY <1>5, <2>4, <2>5, <2>6 DEF n, o, r, b
<1>6. CASE ~(live_total(p, b) < Target[b])
  <2>1. n = o /\ live_total(p, b) >= Target[b]
    BY <1>4, <1>6 DEF Filled
  <2>2. \A c : Tokens(o, c) \in Nat
    <3> HIDE DEF o
    <3> QED BY <1>3, TokensType
  <2>3. \A c : Tokens(o, c) <= Tokens(n, c) /\ Tokens(n, c) \in Nat
    BY <2>1, <2>2
  <2> QED BY <2>1, <2>2, <2>3
<1> QED BY <1>5, <1>6

-----------------------------------------------------------------------------
\* One row further.
LEMMA OneFurther ==
    ASSUME NEW at \in Nat, NEW row \in Nat, NEW cat \in Nat, NEW crow \in Nat, Behind(cat, crow, at, row)
    PROVE  /\ Behind(cat, crow, at, row + 1)
           /\ ~Behind(at, row + 1, cat, crow)
           /\ \A k, i \in Nat : Behind(k, i, at, row + 1) <=> Behind(k, i, at, row) \/ (k = at /\ i = row + 1)
BY DEF Behind

\* The row a process looks at is the next of its assignment.
LEMMA RowIsNext ==
    ASSUME CollectKept, NEW p \in Collectors, TakeRow(p), Scan(p)
    PROVE  /\ Started(p) /\ ScanDone(p) /\ Missed(p) /\ ScanOpen(p)
           /\ local[p].at \in Nat \ {0} /\ local[p].row \in Nat /\ local[p].row + 1 \in Nat
           /\ Cursor(p).at \in Nat \ {0} /\ Cursor(p).row \in Nat
           /\ Behind(Cursor(p).at, Cursor(p).row, local[p].at, local[p].row)
           /\ Mine(p, RowAt(p), local[p].at, local[p].row + 1)
           /\ Placed(p, local[p].at, local[p].row + 1)
<1>1. pc[p] = "rows" /\ HasShard(p, local[p].at) /\ local[p].row < Len(Shard(p, local[p].at))
  BY TakeRowCases
<1>2. local[p] \in LocalMemory /\ Started(p) /\ Filling(p)
  BY <1>1, ProcessFacts DEF Started, Filling
<1>3. ScanDone(p) /\ Missed(p) /\ ScanOpen(p)
  BY <1>2 DEF Scan
<1>4. Cursor(p) \in Cursors
  BY <1>2, CursorType DEF Started, CollectKept
<1> DEFINE at == local[p].at
           row == local[p].row
           cat == Cursor(p).at
           crow == Cursor(p).row
           n == Len(Shard(p, at))
<1>5. at \in Nat \ {0} /\ row \in Nat /\ cat \in Nat \ {0} /\ crow \in Nat /\ n \in Nat
  <2>1. at \in Nat \ {0} /\ row \in Nat
    BY <1>2 DEF LocalMemory
  <2>2. cat \in Nat \ {0} /\ crow \in Nat
    BY <1>4 DEF Cursors
  <2> DEFINE k == local[p].at
  <2>3. k \in Nat \ {0} /\ HasShard(p, k)
    BY <1>1, <2>1
  <2>4. Shard(p, k) \in Seq(RowsOf(SourceOf(p)))
    <3> HIDE DEF k
    <3> QED BY <1>2, <2>3, ShardFacts DEF CollectKept, Started
  <2>5. n \in Nat
    <3> DEFINE q == Shard(p, k)
    <3>1. q \in Seq(RowsOf(SourceOf(p)))
      BY <2>4
    <3> HIDE DEF q
    <3>2. Len(q) \in Nat
      BY <3>1
    <3> QED BY <3>2 DEF q
  <2> QED BY <2>1, <2>2, <2>5
<1>6. Behind(cat, crow, at, row) /\ Placed(p, at, row)
  BY <1>3 DEF ScanOpen
<1>7. row < n /\ HasShard(p, at)
  BY <1>1
<1>8. cat = 1 => FirstCursor(p).row <= crow
  BY <1>3 DEF ScanDone
<1>9. FirstCursor(p).row \in Nat
  <2>1. CASE p = Workers[1]
    <3>1. plan # None
      BY <1>2, <2>1, WorkerIds DEF Started
    <3>2. plan.row \in Nat
      BY <3>1 DEF CollectKept, CollectorsTypes, Plans
    <3> QED BY <2>1, <3>2 DEF FirstCursor
  <2>2. CASE p # Workers[1]
    BY <2>2 DEF FirstCursor
  <2> QED BY <2>1, <2>2
<1>10. RowAt(p) = Shard(p, at)[row + 1]
  BY DEF RowAt
<1>11. n = Len(Shard(p, at))
  OBVIOUS
<1> HIDE DEF at, row, cat, crow, n
<1>12. row + 1 \in Nat /\ row + 1 <= n /\ row + 1 \in 1..n
  BY <1>5, <1>7
<1>13. at = 1 => row + 1 > FirstCursor(p).row
  BY <1>5, <1>6, <1>8, <1>9 DEF Behind
<1>14. Mine(p, RowAt(p), at, row + 1)
  BY <1>5, <1>7, <1>10, <1>11, <1>12, <1>13 DEF Mine
<1>15. Placed(p, at, row + 1)
  BY <1>6, <1>7, <1>11, <1>12 DEF Placed
<1> QED BY <1>2, <1>3, <1>5, <1>6, <1>12, <1>14, <1>15 DEF at, row, cat, crow

\* A process that has looked at a row has it, or found its bucket full.
LEMMA TakeRowScan ==
    ASSUME CollectKept, CollectorsTypes', NEW p \in Collectors, TakeRow(p), Scan(p)
    PROVE  Scan(p)'
<1>1. /\ UNCHANGED <<checkpoints, sealed, plan, raw, ledger, orphans, markers, supervisor>>
      /\ pc[p] = "rows"
  BY TakeRowMoves
<1>2. CollectorsTypes /\ AllCheckpointed \subseteq AllCheckpointed'
  BY <1>1 DEF AllCheckpointed, Checkpointed, CollectKept
<1>3. CASE pc'[p] = "off" /\ local'[p] = Idle
  BY <1>1, <1>2, <1>3, ScanStays DEF Filling
<1>4. CASE /\ \/ pc'[p] = "commit"
              \/ pc'[p] = "rows" /\ local'[p].since = local[p].since + 1
                 /\ local[p].since + 1 < CheckpointRows
           /\ local'[p].at = local[p].at /\ local'[p].row = local[p].row + 1
           /\ local'[p].open = Filled(p).open /\ local'[p].totals = local[p].totals
  <2> DEFINE at == local[p].at
             row == local[p].row
             r == RowAt(p)
  <2>1. /\ Started(p) /\ ScanDone(p) /\ Missed(p) /\ ScanOpen(p)
        /\ at \in Nat \ {0} /\ row \in Nat /\ row + 1 \in Nat
        /\ Cursor(p).at \in Nat \ {0} /\ Cursor(p).row \in Nat
        /\ Behind(Cursor(p).at, Cursor(p).row, at, row)
        /\ Mine(p, r, at, row + 1) /\ Placed(p, at, row + 1)
    BY RowIsNext
  <2>2. /\ Cursor(p)' = Cursor(p) /\ Checkpointed(p)' = Checkpointed(p) /\ (Started(p)' <=> Started(p))
        /\ \A x, k, i : Mine(p, x, k, i)' <=> Mine(p, x, k, i)
        /\ \A k, i : Past(p, k, i)' <=> Past(p, k, i)
        /\ ScanDone(p) => ScanDone(p)'
    BY <1>1, ScanStill
  <2>3. Missed(p)'
    BY <1>1, <1>2, <2>1, MissedStays
  <2>4. /\ \/ /\ live_total(p, r.bucket) < Target[r.bucket]
              /\ UNION {x.rows : x \in Filled(p).open} = OpenRows(p) \cup {r}
           \/ /\ live_total(p, r.bucket) >= Target[r.bucket]
              /\ Filled(p).open = local[p].open
        /\ \A b : /\ Tokens(local[p].open, b) <= Tokens(Filled(p).open, b)
                  /\ Tokens(local[p].open, b) \in Nat /\ Tokens(Filled(p).open, b) \in Nat
    BY FilledRows
  <2>5. local'[p].at = at /\ local'[p].row = row + 1
    BY <1>4
  <2>6. OpenRows(p)' = UNION {x.rows : x \in Filled(p).open}
    BY <1>4 DEF OpenRows
  <2>7. OpenRows(p) \subseteq OpenRows(p)' /\ OpenRows(p)' \subseteq OpenRows(p) \cup {r}
        /\ (live_total(p, r.bucket) >= Target[r.bucket] \/ r \in OpenRows(p)')
    <3>1. CASE UNION {x.rows : x \in Filled(p).open} = OpenRows(p) \cup {r}
      BY <2>6, <3>1
    <3>2. CASE live_total(p, r.bucket) >= Target[r.bucket] /\ Filled(p).open = local[p].open
      BY <2>6, <3>2 DEF OpenRows
    <3> QED BY <2>4, <3>1, <3>2
  <2>8. ASSUME NEW b \in Buckets PROVE live_total(p, b) >= Target[b] => live_total(p, b)' >= Target[b]
    <3>1. local[p].totals[b] \in Nat /\ Target[b] \in Nat
      BY <1>2, CollectorsAssumption DEF CollectorsTypes, LocalMemory
    <3>2. live_total(p, b)' = local[p].totals[b] + Tokens(Filled(p).open, b)
      BY <1>4 DEF live_total, Tokens
    <3>3. live_total(p, b) = local[p].totals[b] + Tokens(local[p].open, b)
      BY DEF live_total
    <3> DEFINE s == Tokens(local[p].open, b)
               t == Tokens(Filled(p).open, b)
               u == local[p].totals[b]
               v == Target[b]
    <3>4. s \in Nat /\ t \in Nat /\ s <= t /\ u \in Nat /\ v \in Nat
      BY <2>4, <3>1
    <3>5. live_total(p, b)' = u + t /\ live_total(p, b) = u + s
      BY <3>2, <3>3
    <3> HIDE DEF s, t, u
    <3> QED BY <3>4, <3>5
  <2>9. /\ Behind(Cursor(p).at, Cursor(p).row, at, row + 1)
        /\ ~Behind(at, row + 1, Cursor(p).at, Cursor(p).row)
        /\ \A k, i \in Nat : Behind(k, i, at, row + 1) <=> Behind(k, i, at, row) \/ (k = at /\ i = row + 1)
    <3> DEFINE a == at
               b == row
               c == Cursor(p).at
               d == Cursor(p).row
    <3>1. a \in Nat /\ b \in Nat /\ c \in Nat /\ d \in Nat /\ Behind(c, d, a, b)
      BY <2>1
    <3> HIDE DEF a, b, c, d
    <3>2. /\ Behind(c, d, a, b + 1) /\ ~Behind(a, b + 1, c, d)
          /\ \A k, i \in Nat : Behind(k, i, a, b + 1) <=> Behind(k, i, a, b) \/ (k = a /\ i = b + 1)
      BY <3>1, OneFurther
    <3> QED BY <3>2 DEF a, b, c, d
  <2>10. \A k, i \in Nat : New(p, k, i)' <=> New(p, k, i) \/ (k = at /\ i = row + 1)
    <3>1. ASSUME NEW k \in Nat, NEW i \in Nat
          PROVE  New(p, k, i)' <=> New(p, k, i) \/ (k = at /\ i = row + 1)
      <4>1. New(p, k, i)' <=> Behind(k, i, at, row + 1) /\ ~Past(p, k, i)
        BY <2>2, <2>5 DEF New
      <4>2. New(p, k, i) <=> Behind(k, i, at, row) /\ ~Past(p, k, i)
        BY DEF New
      <4>3. k = at /\ i = row + 1 => ~Past(p, k, i)
        BY <2>9 DEF Past
      <4> QED BY <2>9, <4>1, <4>2, <4>3
    <3> QED BY <3>1
  <2>11. Placed(p, local[p].at, local[p].row)'
    <3>1. \A x, y : Placed(p, x, y)' <=> Placed(p, x, y)
      BY <1>1, ScanStill
    <3> QED BY <1>1, <2>1, <2>5 DEF Placed, HasShard, Shard, assigned_source_shard
  <2>12. Behind(Cursor(p).at, Cursor(p).row, local[p].at, local[p].row)'
    BY <2>2, <2>5, <2>9 DEF Behind
  <2>13. \A x \in OpenRows(p)' : \E k, i \in Nat : Mine(p, x, k, i)' /\ New(p, k, i)'
    <3>1. \A x \in OpenRows(p) : \E k, i \in Nat : Mine(p, x, k, i) /\ New(p, k, i)
      BY <2>1 DEF ScanOpen
    <3> QED BY <2>1, <2>2, <2>7, <2>10, <3>1
  <2>14. \A k, i \in Nat : \A x \in RowsOf(SourceOf(p)) :
            Mine(p, x, k, i)' /\ New(p, k, i)'
               => x \in OpenRows(p)' \/ live_total(p, x.bucket)' >= Target[x.bucket]
    <3> SUFFICES ASSUME NEW k \in Nat, NEW i \in Nat, NEW x \in RowsOf(SourceOf(p)),
                        Mine(p, x, k, i), New(p, k, i)'
                 PROVE  x \in OpenRows(p)' \/ live_total(p, x.bucket)' >= Target[x.bucket]
      BY <2>2
    <3>1. x.bucket \in Buckets
      <4>1. SourceOf(p) \in Sources /\ BucketsOf(SourceOf(p)) \subseteq Buckets
        BY ProcessFacts
      <4> QED BY <4>1, RowsAssumption
    <3>2. x \in OpenRows(p)' \/ live_total(p, x.bucket) >= Target[x.bucket]
      <4>1. CASE New(p, k, i)
        BY <2>1, <2>7, <4>1 DEF ScanOpen
      <4>2. CASE k = at /\ i = row + 1
        <5>1. x = r
          BY <2>1, <4>2 DEF Mine
        <5> QED BY <2>7, <5>1
      <4> QED BY <2>10, <4>1, <4>2
    <3> DEFINE b == x.bucket
    <3>3. b \in Buckets /\ (x \in OpenRows(p)' \/ live_total(p, b) >= Target[b])
      BY <3>1, <3>2
    <3> HIDE DEF b
    <3>4. x \in OpenRows(p)' \/ live_total(p, b)' >= Target[b]
      BY <2>8, <3>3
    <3> QED BY <3>4 DEF b
  <2>15. /\ Cardinality(OpenRows(p)') <= (IF pc'[p] = "rows" THEN local'[p].since ELSE CheckpointRows)
         /\ pc'[p] = "rows" => local'[p].since < CheckpointRows
    <3> DEFINE S == OpenRows(p)
               T == OpenRows(p)'
    <3>1. S \subseteq Rows /\ IsFiniteSet(S) /\ Cardinality(S) \in Nat
      BY ProcessFacts, OpenFinite
    <3>2. T \subseteq S \cup {r}
      BY <2>7
    <3>3. Cardinality(S) <= local[p].since /\ local[p].since < CheckpointRows /\ local[p].since \in Nat
          /\ CheckpointRows \in Nat
      BY <1>1, <2>1, CollectorsAssumption, ProcessFacts DEF ScanOpen, LocalMemory
    <3> HIDE DEF S, T, r
    <3>4. IsFiniteSet(S \cup {r}) /\ Cardinality(S \cup {r}) \in Nat /\ Cardinality(S \cup {r}) <= Cardinality(S) + 1
      <4>1. IsFiniteSet(S \cup {r})
            /\ Cardinality(S \cup {r}) = IF r \in S THEN Cardinality(S) ELSE Cardinality(S) + 1
        BY <3>1, FS_AddElement
      <4> QED BY <3>1, <4>1
    <3>5. Cardinality(T) <= Cardinality(S \cup {r}) /\ Cardinality(T) \in Nat
      BY <3>2, <3>4, FS_Subset, FS_CardinalityType
    <3>6. Cardinality(T) <= local[p].since + 1 /\ Cardinality(T) <= CheckpointRows
      BY <3>1, <3>3, <3>4, <3>5
    <3> QED BY <1>4, <3>6 DEF T
  <2>16. ScanOpen(p)'
    BY <2>11, <2>12, <2>13, <2>14, <2>15 DEF ScanOpen
  <2>17. pc'[p] # "publish"
    BY <1>4
  <2> QED BY <2>1, <2>2, <2>3, <2>16, <2>17 DEF Scan
<1> QED BY <1>3, <1>4, TakeRowMoves

\* The checkpoint files after another is written.
LEMMA ToSetAppend ==
    ASSUME NEW T, NEW s \in Seq(T), NEW c \in T
    PROVE  ToSet(Append(s, c)) = ToSet(s) \cup {c}
<1>1. /\ Append(s, c) \in Seq(T) /\ Len(Append(s, c)) = Len(s) + 1
      /\ Append(s, c)[Len(s) + 1] = c /\ \A i \in 1..Len(s) : Append(s, c)[i] = s[i]
  BY AppendProperties
<1>2. DOMAIN Append(s, c) = 1..(Len(s) + 1) /\ DOMAIN s = 1..Len(s) /\ Len(s) \in Nat
  BY <1>1
<1> QED BY <1>1, <1>2 DEF ToSet

\* The record of a checkpoint.
CheckpointOf(p) == [at |-> local[p].at, row |-> local[p].row, next |-> local[p].next,
                    archives |-> local[p].open]
\* A checkpoint is one more file, and lists what was open.
LEMMA CheckpointList ==
    ASSUME CollectKept, NEW p \in Collectors, WriteCheckpoint(p)
    PROVE  /\ CheckpointOf(p) \in Checkpoint /\ CheckpointOf(p).archives = local[p].open
           /\ checkpoints[p] \in Seq(Checkpoint) /\ checkpoints'[p] = Append(checkpoints[p], CheckpointOf(p))
           /\ ToSet(checkpoints'[p]) = ToSet(checkpoints[p]) \cup {CheckpointOf(p)}
<1> DEFINE c == CheckpointOf(p)
           s == checkpoints[p]
<1>1. local[p] \in LocalMemory /\ s \in Seq(Checkpoint)
  BY DEF CollectKept, CollectorsTypes
<1>2. c \in Checkpoint /\ c.archives = local[p].open
  BY <1>1 DEF Checkpoint, LocalMemory, CheckpointOf
<1>3. checkpoints'[p] = Append(s, c)
  BY CheckpointFacts DEF CheckpointOf
<1> HIDE DEF c, s
<1>4. ToSet(Append(s, c)) = ToSet(s) \cup {c}
  BY <1>1, <1>2, ToSetAppend
<1> QED BY <1>1, <1>2, <1>3, <1>4 DEF c, s

\* Places behind a place that is behind another are behind it.
LEMMA BehindOrder ==
    ASSUME NEW a \in Nat, NEW b \in Nat, NEW c \in Nat, NEW d \in Nat, Behind(a, b, c, d),
           NEW k \in Nat, NEW i \in Nat, Behind(k, i, a, b)
    PROVE  Behind(k, i, c, d)
BY DEF Behind

\* A bucket that a process found full is full once it has made its checkpoint.
LEMMA LiveIsFull ==
    ASSUME CollectKept, PlanExact, \A q \in Collectors : Scan(q), NEW p \in Collectors, WriteCheckpoint(p),
           NEW A, A \subseteq ledger, NEW b \in Buckets, local[p].totals[b] = Tokens(A, b),
           live_total(p, b) >= Target[b], CollectorsTypes'
    PROVE  Full(b)'
<1> DEFINE o == local[p].open
           all == AllCheckpointed
           c == AllCheckpointed'
<1>1. o \subseteq Archive /\ all \subseteq Archive /\ ledger \subseteq all /\ c = all \cup o
  <2>1. local[p] \in LocalMemory
    BY ProcessFacts
  <2>2. AllCheckpointed' = AllCheckpointed \cup local[p].open
    BY CheckpointFacts
  <2> QED BY <2>1, <2>2, CheckpointedType DEF CollectKept, LocalMemory, Durable
<1>2. \A x \in A, y \in o : x.rows \cap y.rows = {}
  <2> SUFFICES ASSUME NEW x \in A, NEW y \in o PROVE x.rows \cap y.rows = {}
    OBVIOUS
  <2>1. x \in AllCheckpointed
    BY <1>1
  <2>2. PICK q \in Collectors : x \in Checkpointed(q)
    BY <2>1 DEF AllCheckpointed
  <2>3. Filling(p)
    BY CheckpointFacts DEF Filling
  <2> QED BY <2>2, <2>3, RowsApart
<1>3. live_total(p, b) = Tokens(A, b) + Tokens(o, b)
  BY DEF live_total
<1>4. Target[b] \in Nat
  BY CollectorsAssumption
<1>5. (Full(b) <=> Tokens(AllCheckpointed, b) >= Target[b])'
  BY DEF Full
<1> HIDE DEF o, all, c
<1>6. Tokens(A \cup o, b) = Tokens(A, b) + Tokens(o, b)
  BY <1>1, <1>2, TokensApart
<1>7. Tokens(A \cup o, b) <= Tokens(c, b) /\ Tokens(A \cup o, b) \in Nat /\ Tokens(c, b) \in Nat
  <2>1. A \cup o \subseteq c /\ c \subseteq Archive
    BY <1>1
  <2> DEFINE d == A \cup o
  <2>2. d \subseteq c /\ d \subseteq Archive
    BY <2>1
  <2>3. \A x \in d : x.bucket = b => \A r \in x.rows : \E y \in c : y.bucket = b /\ r \in y.rows
    BY <2>2
  <2> HIDE DEF d
  <2>4. Tokens(d, b) <= Tokens(c, b) /\ Tokens(d, b) \in Nat /\ Tokens(c, b) \in Nat
    BY <2>1, <2>2, <2>3, TokensOrder, TokensType
  <2> QED BY <2>4 DEF d
<1>8. Tokens(c, b) >= Target[b]
  BY <1>3, <1>4, <1>6, <1>7
<1> QED BY <1>5, <1>8 DEF c, Tokens

\* A checkpoint moves the cursor to where the process is.
LEMMA WriteCheckpointScan ==
    ASSUME CollectKept, CollectKept', PlanExact, \A q \in Collectors : Scan(q),
           NEW p \in Collectors, WriteCheckpoint(p),
           \E A : A \subseteq ledger /\ \A b \in Buckets : local[p].totals[b] = Tokens(A, b)
    PROVE  Scan(p)'
<1> DEFINE at == local[p].at
           row == local[p].row
           cat == Cursor(p).at
           crow == Cursor(p).row
<1>1. /\ pc[p] = "checkpoint" /\ pc'[p] = "publish" /\ plan' = plan
      /\ Cursor(p)'.at = at /\ Cursor(p)'.row = row
      /\ Checkpointed(p)' = Checkpointed(p) \cup local[p].open
      /\ AllCheckpointed' = AllCheckpointed \cup local[p].open
      /\ local'[p].at = at /\ local'[p].row = row
  <2>1. local[p] \in LocalMemory /\ local'[p] = [local[p] EXCEPT !.open = {}]
    BY ProcessFacts, CheckpointFacts
  <2>2. local'[p].at = at /\ local'[p].row = row
    BY <2>1 DEF LocalMemory
  <2>3. Cursor(p)' = [at |-> local[p].at, row |-> local[p].row, next |-> local[p].next]
    BY CheckpointFacts
  <2>4. Cursor(p)'.at = at /\ Cursor(p)'.row = row
    BY <2>3
  <2>5. /\ pc[p] = "checkpoint" /\ pc'[p] = "publish" /\ plan' = plan
        /\ Checkpointed(p)' = Checkpointed(p) \cup local[p].open
        /\ AllCheckpointed' = AllCheckpointed \cup local[p].open
    BY CheckpointFacts
  <2> HIDE DEF at, row
  <2> QED BY <2>2, <2>4, <2>5
<1>2. Started(p) /\ Filling(p) /\ Scan(p) /\ Numbering(p)
  BY <1>1, ProcessFacts DEF Started, Filling
<1>3. ScanDone(p) /\ Missed(p) /\ ScanOpen(p)
  BY <1>2 DEF Scan
<1>4. at \in Nat \ {0} /\ row \in Nat /\ cat \in Nat \ {0} /\ crow \in Nat
  <2>1. Cursor(p) \in Cursors /\ local[p] \in LocalMemory
    BY <1>2, CursorType, ProcessFacts DEF Started, CollectKept
  <2> QED BY <2>1 DEF Cursors, LocalMemory
<1>5. /\ FirstCursor(p)' = FirstCursor(p) /\ (Started(p)' <=> Started(p))
      /\ \A k : (HasShard(p, k)' <=> HasShard(p, k)) /\ Shard(p, k)' = Shard(p, k)
  BY <1>1 DEF FirstCursor, Started, HasShard, Shard, assigned_source_shard
<1>6. \A r, k, i : Mine(p, r, k, i)' <=> Mine(p, r, k, i)
  BY <1>5 DEF Mine
<1>7. \A k, i : Past(p, k, i)' <=> Behind(k, i, at, row)
  BY <1>1 DEF Past
<1>8. Behind(cat, crow, at, row) /\ Placed(p, at, row)
  BY <1>3 DEF ScanOpen
<1>9. \A k, i \in Nat : Past(p, k, i)' <=> Past(p, k, i) \/ New(p, k, i)
  <2> SUFFICES ASSUME NEW k \in Nat, NEW i \in Nat PROVE Past(p, k, i)' <=> Past(p, k, i) \/ New(p, k, i)
    OBVIOUS
  <2>1. Past(p, k, i) <=> Behind(k, i, cat, crow)
    BY DEF Past
  <2>2. New(p, k, i) <=> Behind(k, i, at, row) /\ ~Past(p, k, i)
    BY DEF New
  <2> HIDE DEF at, row, cat, crow
  <2>3. Behind(k, i, cat, crow) => Behind(k, i, at, row)
    BY <1>4, <1>8, BehindOrder
  <2> QED BY <1>7, <2>1, <2>2, <2>3
<1>10. ScanDone(p)'
  <2>1. Placed(p, Cursor(p).at, Cursor(p).row)'
    BY <1>1, <1>5, <1>8 DEF Placed
  <2>2. Cursor(p)'.at = 1 => FirstCursor(p)'.row <= Cursor(p)'.row
    <3>1. cat = 1 => FirstCursor(p).row <= crow
      BY <1>3 DEF ScanDone
    <3>2. FirstCursor(p).row \in Nat
      <4>1. CASE p = Workers[1]
        <5>1. plan # None
          BY <1>2, <4>1, WorkerIds DEF Started
        <5>2. plan.row \in Nat
          BY <5>1 DEF CollectKept, CollectorsTypes, Plans
        <5> QED BY <4>1, <5>2 DEF FirstCursor
      <4>2. CASE p # Workers[1]
        BY <4>2 DEF FirstCursor
      <4> QED BY <4>1, <4>2
    <3> HIDE DEF at, row, cat, crow
    <3>3. at = 1 => FirstCursor(p).row <= row
      BY <1>4, <1>8, <3>1, <3>2 DEF Behind
    <3> QED BY <1>1, <1>5, <3>3
  <2>3. \A x \in Checkpointed(p)' : \A r \in x.rows : \E k, i \in Nat : Mine(p, r, k, i)' /\ Past(p, k, i)'
    <3>1. \A x \in Checkpointed(p) : \A r \in x.rows : \E k, i \in Nat : Mine(p, r, k, i) /\ Past(p, k, i)
      BY <1>3 DEF ScanDone
    <3>2. \A x \in local[p].open : \A r \in x.rows : \E k, i \in Nat : Mine(p, r, k, i) /\ New(p, k, i)
      BY <1>3 DEF ScanOpen, OpenRows
    <3> QED BY <1>1, <1>6, <1>9, <3>1, <3>2
  <2>4. \A x, y \in Checkpointed(p)' : x # y => x.rows \cap y.rows = {}
    <3>1. \A x, y \in Checkpointed(p) : x # y => x.rows \cap y.rows = {}
      BY <1>3 DEF ScanDone
    <3>2. \A x \in Checkpointed(p), y \in local[p].open : x.rows \cap y.rows = {}
      BY <1>2, RowsApart
    <3>3. \A x, y \in local[p].open : x # y => x.rows \cap y.rows = {}
      <4>1. \A x \in local[p].open : \A r \in x.rows : r.bucket = x.bucket
        BY <1>2 DEF Numbering, Held
      <4>2. \A x, y \in local[p].open : x # y => x.bucket # y.bucket
        BY <1>2 DEF Numbering
      <4> QED BY <4>1, <4>2
    <3> QED BY <1>1, <3>1, <3>2, <3>3
  <2>5. \A c \in ToSet(checkpoints'[p]) : Cardinality(UNION {a.rows : a \in c.archives}) <= CheckpointRows
    <3>1. \A c \in ToSet(checkpoints[p]) : Cardinality(UNION {a.rows : a \in c.archives}) <= CheckpointRows
      BY <1>3 DEF ScanDone
    <3>2. ToSet(checkpoints'[p]) = ToSet(checkpoints[p]) \cup {CheckpointOf(p)}
          /\ CheckpointOf(p).archives = local[p].open
      BY CheckpointList
    <3>3. Cardinality(OpenRows(p)) <= CheckpointRows
      BY <1>1, <1>3 DEF ScanOpen
    <3>4. OpenRows(p) = UNION {a.rows : a \in CheckpointOf(p).archives}
      BY <3>2 DEF OpenRows
    <3> QED BY <3>1, <3>2, <3>3, <3>4
  <2> QED BY <2>1, <2>2, <2>3, <2>4, <2>5 DEF ScanDone
<1>11. Missed(p)'
  <2> SUFFICES ASSUME NEW k \in Nat, NEW i \in Nat, NEW r \in RowsOf(SourceOf(p)),
                      Mine(p, r, k, i), Past(p, k, i)'
               PROVE  (\E x \in Checkpointed(p)' : r \in x.rows) \/ Full(r.bucket)'
    BY <1>6 DEF Missed
  <2> DEFINE b == r.bucket
  <2>1. b \in Buckets
    <3>1. SourceOf(p) \in Sources /\ BucketsOf(SourceOf(p)) \subseteq Buckets
      BY ProcessFacts
    <3> QED BY <3>1, RowsAssumption
  <2>2. CASE Past(p, k, i)
    <3>1. (\E x \in Checkpointed(p) : r \in x.rows) \/ Full(b)
      BY <1>3, <2>2 DEF Missed
    <3>2. Full(b) => Full(b)'
      <4>1. AllCheckpointed \subseteq AllCheckpointed'
        BY <1>1
      <4> HIDE DEF b
      <4> QED BY <2>1, <4>1, FullStays DEF CollectKept
    <3> QED BY <1>1, <3>1, <3>2
  <2>3. CASE New(p, k, i)
    <3>1. r \in OpenRows(p) \/ live_total(p, b) >= Target[b]
      BY <1>3, <2>3 DEF ScanOpen
    <3>2. r \in OpenRows(p) => \E x \in Checkpointed(p)' : r \in x.rows
      BY <1>1 DEF OpenRows
    <3>3. live_total(p, b) >= Target[b] => Full(b)'
      <4>1. PICK A : A \subseteq ledger /\ \A d \in Buckets : local[p].totals[d] = Tokens(A, d)
        OBVIOUS
      <4> HIDE DEF b
      <4> QED BY <2>1, <4>1, LiveIsFull DEF CollectKept
    <3> QED BY <3>1, <3>2, <3>3
  <2> QED BY <1>9, <2>2, <2>3
<1>12. ~Filling(p)'
  BY <1>1 DEF Filling
<1> QED BY <1>1, <1>10, <1>11, <1>12 DEF Scan

\* A step that leaves the checkpoints, the plan and the place of every process
\* that goes on keeps the scan.
LEMMA ScansMove ==
    ASSUME CollectKept, CollectKept', Scans, UNCHANGED <<checkpoints, plan>>,
           \A q \in Collectors :
              \/ Scan(q)'
              \/ pc'[q] \in {"off", "recover", "mark", "failed"}
              \/ pc'[q] = pc[q] /\ local'[q] = local[q]
    PROVE  Scans'
<1>1. AllCheckpointed \subseteq AllCheckpointed' /\ CollectorsTypes /\ CollectorsTypes'
  BY DEF AllCheckpointed, Checkpointed, CollectKept
<1>2. ASSUME NEW q \in Collectors PROVE Scan(q)'
  <2>1. CASE pc'[q] \in {"off", "recover", "mark", "failed"}
    <3>1. ~Filling(q)' /\ pc'[q] # "publish"
      BY <2>1 DEF Filling
    <3> QED BY <1>1, <3>1, ScanStays DEF Scans
  <2>2. CASE pc'[q] = pc[q] /\ local'[q] = local[q]
    BY <1>1, <2>2, ScanStays DEF Scans
  <2> QED BY <2>1, <2>2
<1>3. PlanExact'
  BY DEF Scans, PlanExact
<1> QED BY <1>2, <1>3 DEF Scans

\* A process begins, and goes on after a checkpoint, from its cursor.
LEMMA BeginScan ==
    ASSUME CollectKept, CollectKept', Scans, NEW p \in Collectors, Begin(p)
    PROVE  Scans'
<1>1. CollectorsTypes /\ CollectorsTypes' /\ Scan(p) /\ pc[p] = "recover"
      /\ UNCHANGED <<checkpoints, plan, ledger>>
  BY DEF CollectKept, Scans, Begin, durable, collection
<1>2. AllCheckpointed \subseteq AllCheckpointed'
  BY <1>1 DEF AllCheckpointed, Checkpointed
<1>3. Started(p) /\ local \in [Collectors -> LocalMemory] /\ pc \in [Collectors -> Places]
  BY <1>1, ProcessFacts DEF Started, CollectorsTypes
<1>4. CASE p \notin WorkerSet /\ Reached(quota_status, SourceOf(p))
  <2>1. pc' = [pc EXCEPT ![p] = "off"] /\ local' = [local EXCEPT ![p] = Idle]
    BY <1>4 DEF Begin, Leave, Goto
  <2> QED BY <1>1, <1>3, <2>1, ScansMove
<1>5. CASE ~(p \notin WorkerSet /\ Reached(quota_status, SourceOf(p)))
  <2> DEFINE next == IF p \in WorkerSet THEN Cursor(p).next ELSE NextIndices(raw)
             l == [at |-> Cursor(p).at, row |-> Cursor(p).row, next |-> next, open |-> {},
                   totals |-> quota_status, since |-> 0, halt |-> local[p].halt, ended |-> FALSE]
  <2>1. pc' = [pc EXCEPT ![p] = "rows"] /\ local' = [local EXCEPT ![p] = l]
    BY <1>5 DEF Begin, Goto, Idle
  <2>2. l.at = Cursor(p).at /\ l.row = Cursor(p).row /\ l.open = {} /\ l.since = 0
    OBVIOUS
  <2> HIDE DEF l
  <2>3. pc'[p] = "rows" /\ local'[p] = l
        /\ \A q \in Collectors \ {p} : pc'[q] = pc[q] /\ local'[q] = local[q]
    BY <1>3, <2>1
  <2>4. Scan(p)'
    BY <1>1, <1>2, <1>3, <2>2, <2>3, ScanBegins
  <2> QED BY <1>1, <2>3, <2>4, ScansMove
<1> QED BY <1>4, <1>5

\* A process goes on, or leaves, with everything checkpointed in the ledger.
LEMMA CommittedScan ==
    ASSUME CollectKept, CollectKept', Scans, NEW p \in Collectors, Committed(p)
    PROVE  Scans'
<1>1. CollectorsTypes /\ CollectorsTypes' /\ Scan(p) /\ pc[p] = "publish"
      /\ UNCHANGED <<checkpoints, plan, ledger>>
  BY DEF CollectKept, Scans, Committed, durable, collection
<1>2. AllCheckpointed \subseteq AllCheckpointed'
  BY <1>1 DEF AllCheckpointed, Checkpointed
<1>3. Started(p) /\ local \in [Collectors -> LocalMemory] /\ pc \in [Collectors -> Places]
  BY <1>1, ProcessFacts DEF Started, CollectorsTypes
<1> DEFINE l == [local[p] EXCEPT !.totals = quota_status, !.since = 0]
<1>4. \/ pc' = [pc EXCEPT ![p] = "rows"] /\ local' = [local EXCEPT ![p] = l]
      \/ pc' = [pc EXCEPT ![p] = "mark"] /\ local' = [local EXCEPT ![p] = l]
      \/ pc' = [pc EXCEPT ![p] = "off"] /\ local' = [local EXCEPT ![p] = Idle]
  BY DEF Committed, Goto, Leave
<1>5. l.at = local[p].at /\ l.row = local[p].row /\ l.open = local[p].open /\ l.since = 0
  BY <1>3 DEF LocalMemory
<1> HIDE DEF l
<1>6. \A q \in Collectors \ {p} : pc'[q] = pc[q] /\ local'[q] = local[q]
  BY <1>3, <1>4
<1>7. CASE pc' = [pc EXCEPT ![p] = "rows"] /\ local' = [local EXCEPT ![p] = l]
  <2>1. pc'[p] = "rows" /\ local'[p] = l
    BY <1>3, <1>7
  <2>2. local[p].open = {} /\ local[p].at = Cursor(p).at /\ local[p].row = Cursor(p).row
    BY <1>1 DEF CollectKept, Control, Scan
  <2>3. Scan(p)'
    BY <1>1, <1>2, <1>3, <1>5, <2>1, <2>2, ScanBegins
  <2> QED BY <1>1, <1>6, <2>3, ScansMove
<1>8. CASE pc'[p] \in {"off", "mark"}
  BY <1>1, <1>6, <1>8, ScansMove
<1> QED BY <1>3, <1>4, <1>7, <1>8

\* The workers take over where the legacy frontier is.
LEMMA PlanScan ==
    ASSUME CollectKept, CollectKept', Scans, create_or_load_plan
    PROVE  Scans'
<1>1. /\ UNCHANGED <<checkpoints, ledger, pc, local>> /\ CollectorsTypes /\ CollectorsTypes'
      /\ supervisor = "legacy"
  BY DEF create_or_load_plan, CollectKept
<1>2. CASE plan # None
  <2>1. plan' = plan
    BY <1>2 DEF create_or_load_plan
  <2> QED BY <1>1, <2>1, ScansMove
<1>3. CASE plan = None
  <2> DEFINE frontier == Cursor("stack")
  <2>1. plan' = [shard |-> frontier.at, row |-> frontier.row, base |-> NextIndices(raw),
                 legacy |-> frontier]
    BY <1>3 DEF create_or_load_plan
  <2>2. plan'.shard = frontier.at /\ plan'.row = frontier.row /\ plan'.legacy = frontier
    BY <2>1
  <2>3. PlanExact'
    BY <2>2 DEF PlanExact
  <2>4. AllCheckpointed \subseteq AllCheckpointed' /\ "stack" \in Collectors
        /\ WorkerSet \subseteq Collectors /\ "stack" \notin WorkerSet
    BY <1>1, WorkerIds DEF AllCheckpointed, Checkpointed, Collectors
  <2>5. ASSUME NEW q \in Collectors, q \notin WorkerSet PROVE Scan(q)'
    BY <1>1, <2>4, <2>5, ScanStays DEF Scans
  <2>6. ScanDone("stack") /\ frontier \in Cursors
    BY <1>1, <2>4, CursorType DEF Scans, Scan, Started
  <2>7. plan' # None
    BY <2>1, <1>1, <1>3, CollectorsAssumption, PlanKeeps DEF CollectKept, Control, create_or_load_plan
  <2>8. ASSUME NEW w \in WorkerSet PROVE Scan(w)'
    <3> DEFINE row == IF w = Workers[1] THEN frontier.row ELSE 0
    <3>1. checkpoints'[w] = <<>> /\ Checkpointed(w)' = {} /\ ToSet(checkpoints'[w]) = {}
      <4>1. checkpoints[w] = <<>>
        BY <1>3, NoPlanNoWork
      <4> QED BY <1>1, <4>1 DEF Checkpointed, ToSet
    <3>2. FirstCursor(w)' = [at |-> 1, row |-> row, next |-> [b \in Buckets |-> 0]]
      BY <2>2 DEF FirstCursor
    <3>3. Cursor(w)' = FirstCursor(w)'
      BY <3>1 DEF Cursor
    <3>4. FirstCursor(w)'.row = row /\ Cursor(w)'.at = 1 /\ Cursor(w)'.row = row
      BY <3>2, <3>3
    <3>5. row \in Nat
      BY <2>6 DEF Cursors
    <3>6. pc'[w] = "off"
      BY <1>1, <2>4 DEF CollectKept, Control
    <3>7. (HasShard(w, 1)' => row <= Len(Shard(w, 1)')) /\ (~HasShard(w, 1)' => row = 0)
      <4>1. /\ plan'.shard \in Nat \ {0} /\ WorkerId(w) \in Nat /\ Len(Workers) \in Nat
            /\ assigned_source_shard(w, 1)' = plan'.shard + WorkerId(w) + Len(Workers) * (1 - 1)
        BY <2>2, <2>6, WorkerIds DEF assigned_source_shard, Cursors
      <4>2. assigned_source_shard(w, 1)' = plan'.shard + WorkerId(w)
        BY <4>1
      <4>3. HasShard(w, 1)' => Shard(w, 1)' = Shards["stack"][plan'.shard + WorkerId(w)]
                               /\ plan'.shard + WorkerId(w) <= Len(Shards["stack"])
        <5>1. SourceOf(w) = "stack"
          BY WorkerIds DEF SourceOf
        <5> QED BY <4>2, <5>1 DEF HasShard, Shard
      <4>4. CASE w = Workers[1]
        <5>1. WorkerId(w) = 0
          <6>1. WorkerId(w) + 1 \in DOMAIN Workers /\ 1 \in DOMAIN Workers /\ WorkerId(w) \in Nat
                /\ Workers[WorkerId(w) + 1] = Workers[1]
            BY <4>4, WorkerIds, CollectorsAssumption
          <6>2. WorkerId(w) + 1 = 1
            BY <6>1, CollectorsAssumption DEF IsInjective
          <6> QED BY <6>1, <6>2
        <5>2. SourceOf("stack") = "stack" /\ assigned_source_shard("stack", frontier.at) = frontier.at
          BY <2>4, RowsAssumption DEF SourceOf, assigned_source_shard
        <5>3. /\ frontier.at <= Len(Shards["stack"]) => frontier.row <= Len(Shards["stack"][frontier.at])
              /\ ~(frontier.at <= Len(Shards["stack"])) => frontier.row = 0
          BY <2>6, <5>2 DEF ScanDone, Placed, HasShard, Shard
        <5>4. assigned_source_shard(w, 1)' = frontier.at
          BY <2>2, <4>1, <4>2, <5>1
        <5>5. SourceOf(w) = "stack"
          BY WorkerIds DEF SourceOf
        <5>6. HasShard(w, 1)' => Shard(w, 1)' = Shards["stack"][frontier.at]
          BY <5>4, <5>5 DEF Shard
        <5>7. HasShard(w, 1)' <=> frontier.at <= Len(Shards["stack"])
          BY <5>4, <5>5 DEF HasShard
        <5> QED BY <4>4, <5>3, <5>6, <5>7
      <4>5. CASE w # Workers[1]
        <5>1. HasShard(w, 1)' => 0 <= Len(Shard(w, 1)')
          <6>1. ASSUME HasShard(w, 1)' PROVE 0 <= Len(Shard(w, 1)')
            <7> DEFINE k == plan'.shard + WorkerId(w)
            <7>1. k \in 1..Len(Shards["stack"])
              <8>1. k <= Len(Shards["stack"]) /\ k \in Nat \ {0}
                BY <4>1, <4>3, <6>1
              <8>2. Len(Shards["stack"]) \in Nat
                BY RowsAssumption DEF Sources
              <8> HIDE DEF k
              <8> QED BY <8>1, <8>2
            <7>2. Shards["stack"][k] \in Seq(RowsOf("stack"))
              <8> HIDE DEF k
              <8> QED BY <7>1, RowsAssumption DEF Sources
            <7>3. Len(Shards["stack"][k]) \in Nat
              BY <7>2
            <7> QED BY <4>3, <6>1, <7>3
          <6> QED BY <6>1
        <5> QED BY <4>5, <5>1
      <4> QED BY <4>4, <4>5
    <3>8. Placed(w, Cursor(w).at, Cursor(w).row)'
      BY <3>4, <3>7 DEF Placed, HasShard, Shard, assigned_source_shard
    <3>9. row <= row
      BY <3>5
    <3>10. ScanDone(w)'
      BY <3>1, <3>4, <3>8, <3>9 DEF ScanDone
    <3>11. ASSUME NEW k \in Nat, NEW i \in Nat, NEW r, Mine(w, r, k, i)', Past(w, k, i)' PROVE FALSE
      <4>1. k \in Nat \ {0} /\ (k = 1 => i > row)
        BY <3>4, <3>11 DEF Mine
      <4>2. k < 1 \/ (k = 1 /\ i <= row)
        BY <3>4, <3>11 DEF Past, Behind
      <4> HIDE DEF row
      <4> QED BY <3>5, <4>1, <4>2
    <3>12. Missed(w)'
      BY <3>11 DEF Missed
    <3> QED BY <3>6, <3>10, <3>12 DEF Scan, Filling
  <2> QED BY <2>3, <2>5, <2>8 DEF Scans
<1> QED BY <1>2, <1>3

-----------------------------------------------------------------------------
\* A step without a checkpoint keeps the readings, and may add one of the whole
\* ledger.
LEMMA ViewsStay ==
    ASSUME Views, ledger \subseteq ledger', checkpoints' = checkpoints,
           \A q \in Collectors : Running(q)' =>
              \/ ViewOf(q, ledger)'
              \/ Running(q) /\ \A A \in SUBSET ledger : ViewOf(q, A) => ViewOf(q, A)'
    PROVE  Views'
<1>1. PICK readings \in SUBSET SUBSET ledger :
         /\ \A A, B \in readings : A \subseteq B \/ B \subseteq A
         /\ \A p \in Collectors : Running(p) => \E A \in readings : ViewOf(p, A)
         /\ \A b \in Buckets : \E A \in readings : EarlyBelow(b, A)
  BY DEF Views
<1> DEFINE new == readings \cup {ledger'}
<1>2. new \in SUBSET SUBSET ledger' /\ ledger' \in new /\ readings \subseteq new
  OBVIOUS
<1>3. \A A, B \in new : A \subseteq B \/ B \subseteq A
  BY <1>1
<1>4. ASSUME NEW q \in Collectors, Running(q)' PROVE \E A \in new : ViewOf(q, A)'
  <2>1. CASE ViewOf(q, ledger)'
    <3>1. \A A : A = ledger' => ViewOf(q, A)'
      BY <2>1 DEF ViewOf
    <3> QED BY <1>2, <3>1
  <2>2. CASE Running(q) /\ \A A \in SUBSET ledger : ViewOf(q, A) => ViewOf(q, A)'
    BY <1>1, <1>2, <2>2
  <2> QED BY <1>4, <2>1, <2>2
<1>5. \A b \in Buckets : \A A : EarlyBelow(b, A) => EarlyBelow(b, A)'
  BY DEF EarlyBelow, EarlyOf, LastOf, Checkpointed
<1>6. \A b \in Buckets : \E A \in new : EarlyBelow(b, A)'
  BY <1>1, <1>2, <1>5
<1> HIDE DEF new
<1> QED BY <1>2, <1>3, <1>4, <1>6 DEF Views

\* A process that keeps its totals and opens nothing keeps its reading.
LEMMA ViewStays ==
    ASSUME NEW q \in Collectors, checkpoints' = checkpoints, Running(q)' => Running(q), Filling(q)' => Filling(q),
           Running(q)' => local'[q].totals = local[q].totals /\ local'[q].open \subseteq local[q].open
    PROVE  Running(q)' => Running(q) /\ \A A \in SUBSET ledger : ViewOf(q, A) => ViewOf(q, A)'
BY DEF ViewOf, Checkpointed

\* The reading of a process that has recovered all it made.
LEMMA FreshView ==
    ASSUME CollectKept, NEW p \in Collectors, Pending(p) = {}, UNCHANGED <<checkpoints, ledger>>,
           local'[p].totals = quota_status, local'[p].open = {}
    PROVE  ViewOf(p, ledger)'
<1>1. Checkpointed(p)' \subseteq ledger'
  BY DEF Pending, Checkpointed
<1>2. \A b \in Buckets : local'[p].totals[b] = Tokens(ledger, b)
  BY DEF quota_status
<1>3. \A b \in Buckets : local'[p].totals[b] = Tokens(ledger, b)'
  BY <1>2 DEF Tokens
<1> QED BY <1>1, <1>3 DEF ViewOf

\* A process that begins reads the ledger as it is.
LEMMA BeginViews ==
    ASSUME CollectKept, Views, NEW p \in Collectors, Begin(p)
    PROVE  Views'
<1>1. CollectorsTypes /\ pc[p] = "recover" /\ Pending(p) = {} /\ UNCHANGED <<checkpoints, plan, ledger>>
  BY DEF CollectKept, Begin, durable, collection
<1>2. local \in [Collectors -> LocalMemory] /\ pc \in [Collectors -> Places]
  BY <1>1 DEF CollectorsTypes
<1> DEFINE next == IF p \in WorkerSet THEN Cursor(p).next ELSE NextIndices(raw)
           l == [at |-> Cursor(p).at, row |-> Cursor(p).row, next |-> next, open |-> {},
                 totals |-> quota_status, since |-> 0, halt |-> local[p].halt, ended |-> FALSE]
<1>3. \/ pc' = [pc EXCEPT ![p] = "off"] /\ local' = [local EXCEPT ![p] = Idle]
      \/ pc' = [pc EXCEPT ![p] = "rows"] /\ local' = [local EXCEPT ![p] = l]
  BY DEF Begin, Leave, Goto, Idle
<1>4. l.open = {} /\ l.totals = quota_status
  OBVIOUS
<1> HIDE DEF l
<1>5. \A q \in Collectors \ {p} : pc'[q] = pc[q] /\ local'[q] = local[q]
  BY <1>2, <1>3
<1>6. ASSUME NEW q \in Collectors, q # p
      PROVE  Running(q)' => Running(q) /\ \A A \in SUBSET ledger : ViewOf(q, A) => ViewOf(q, A)'
  BY <1>1, <1>5, <1>6, ViewStays DEF Running, Filling
<1>7. Running(p)' => ViewOf(p, ledger)'
  <2>1. CASE pc' = [pc EXCEPT ![p] = "off"]
    BY <1>2, <2>1 DEF Running
  <2>2. CASE pc' = [pc EXCEPT ![p] = "rows"] /\ local' = [local EXCEPT ![p] = l]
    <3>1. local'[p].totals = quota_status /\ local'[p].open = {}
      BY <1>2, <1>4, <2>2
    <3> QED BY <1>1, <3>1, FreshView
  <2> QED BY <1>3, <2>1, <2>2
<1> QED BY <1>1, <1>6, <1>7, ViewsStay

\* A process reads the ledger again once its own archives are in it.
LEMMA CommittedViews ==
    ASSUME CollectKept, Views, NEW p \in Collectors, Committed(p)
    PROVE  Views'
<1>1. CollectorsTypes /\ pc[p] = "publish" /\ Pending(p) = {} /\ UNCHANGED <<checkpoints, plan, ledger>>
  BY DEF CollectKept, Committed, durable, collection
<1>2. local \in [Collectors -> LocalMemory] /\ pc \in [Collectors -> Places] /\ local[p].open = {}
  BY <1>1 DEF CollectorsTypes, CollectKept, Control
<1> DEFINE l == [local[p] EXCEPT !.totals = quota_status, !.since = 0]
<1>3. \/ pc' = [pc EXCEPT ![p] = "rows"] /\ local' = [local EXCEPT ![p] = l]
      \/ pc' = [pc EXCEPT ![p] = "mark"] /\ local' = [local EXCEPT ![p] = l]
      \/ pc' = [pc EXCEPT ![p] = "off"] /\ local' = [local EXCEPT ![p] = Idle]
  BY DEF Committed, Goto, Leave
<1>4. l.open = {} /\ l.totals = quota_status
  BY <1>2 DEF LocalMemory
<1> HIDE DEF l
<1>5. \A q \in Collectors \ {p} : pc'[q] = pc[q] /\ local'[q] = local[q]
  BY <1>2, <1>3
<1>6. ASSUME NEW q \in Collectors, q # p
      PROVE  Running(q)' => Running(q) /\ \A A \in SUBSET ledger : ViewOf(q, A) => ViewOf(q, A)'
  BY <1>1, <1>5, <1>6, ViewStays DEF Running, Filling
<1>7. Running(p)' => ViewOf(p, ledger)'
  <2>1. CASE pc' = [pc EXCEPT ![p] = "off"]
    BY <1>2, <2>1 DEF Running
  <2>2. CASE local' = [local EXCEPT ![p] = l]
    <3>1. local'[p].totals = quota_status /\ local'[p].open = {}
      BY <1>2, <1>4, <2>2
    <3> QED BY <1>1, <3>1, FreshView
  <2> QED BY <1>3, <2>1, <2>2
<1> QED BY <1>1, <1>6, <1>7, ViewsStay

\* A row is taken only into a bucket that is not full as far as the process knows.
LEMMA TakeRowViews ==
    ASSUME CollectKept, Views, NEW p \in Collectors, TakeRow(p)
    PROVE  Views'
<1>1. /\ \A q \in Collectors \ {p} : local'[q] = local[q] /\ pc'[q] = pc[q]
      /\ UNCHANGED <<checkpoints, sealed, plan, raw, ledger, orphans, markers, supervisor>>
      /\ pc[p] = "rows"
      /\ \/ pc'[p] = "off" /\ local'[p] = Idle
         \/ local'[p].open = Filled(p).open /\ local'[p].totals = local[p].totals
  BY TakeRowMoves
<1>2. ASSUME NEW q \in Collectors, q # p
      PROVE  Running(q)' => Running(q) /\ \A A \in SUBSET ledger : ViewOf(q, A) => ViewOf(q, A)'
  BY <1>1, <1>2, ViewStays DEF Running, Filling
<1>3. ASSUME Running(p)', NEW A, ViewOf(p, A) PROVE ViewOf(p, A)'
  <2>1. local'[p].open = Filled(p).open /\ local'[p].totals = local[p].totals
    BY <1>1, <1>3 DEF Running
  <2>2. Filling(p) /\ Checkpointed(p)' = Checkpointed(p)
    BY <1>1 DEF Filling, Checkpointed
  <2>3. ASSUME NEW x \in Filled(p).open PROVE local[p].totals[x.bucket] < Target[x.bucket]
    <3>1. CASE x \in local[p].open
      BY <1>3, <3>1 DEF ViewOf
    <3>2. CASE x \notin local[p].open
      <4> DEFINE r == RowAt(p)
      <4>1. live_total(p, r.bucket) < Target[r.bucket] /\ Filled(p) = Opened(p, r)
        BY <3>2 DEF Filled
      <4>2. r \in RowsOf(SourceOf(p))
        BY TakeRowCases
      <4> HIDE DEF r
      <4>3. /\ r.bucket \in Buckets
            /\ \/ \E m \in local[p].open :
                    /\ m.bucket = r.bucket /\ Opened(p, r).next = local[p].next
                    /\ Opened(p, r).open = (local[p].open \ {m})
                          \cup {[bucket |-> r.bucket, index |-> m.index, rows |-> m.rows \cup {r}]}
               \/ Opened(p, r).open = local[p].open
                       \cup {[bucket |-> r.bucket, index |-> ArchiveIndex(p, r.bucket), rows |-> {r}]}
        BY <1>1, <4>2, OpenedFacts
      <4>4. x.bucket = r.bucket
        BY <3>2, <4>1, <4>3
      <4> DEFINE b == r.bucket
      <4>5. local[p].totals[b] \in Nat /\ Target[b] \in Nat
        BY <4>3, ProcessFacts, CollectorsAssumption DEF LocalMemory
      <4>6. Tokens(local[p].open, b) \in Nat
        BY FilledRows
      <4>7. local[p].totals[b] + Tokens(local[p].open, b) < Target[b]
        BY <4>1 DEF live_total
      <4> HIDE DEF b
      <4>8. local[p].totals[b] < Target[b]
        BY <4>5, <4>6, <4>7
      <4> QED BY <4>4, <4>8 DEF b
    <3> QED BY <3>1, <3>2
  <2> QED BY <1>3, <2>1, <2>2, <2>3 DEF ViewOf
<1>4. Running(p)
  BY <1>1 DEF Running
<1> QED BY <1>1, <1>2, <1>3, <1>4, ViewsStay

-----------------------------------------------------------------------------
\* The last checkpoint with an archive of the bucket is the new one if it has one.
LEMMA LastAppended ==
    ASSUME CollectKept, NEW p \in Collectors, WriteCheckpoint(p), NEW b
    PROVE  LastOf(p, b)' = IF \E x \in local[p].open : x.bucket = b THEN local[p].open ELSE LastOf(p, b)
<1> DEFINE c == CheckpointOf(p)
           s == checkpoints[p]
           n == Len(s)
           old == {i \in DOMAIN s : \E a \in s[i].archives : a.bucket = b}
           t == Append(s, c)
           new == {i \in DOMAIN t : \E a \in t[i].archives : a.bucket = b}
<1>1. c \in Checkpoint /\ c.archives = local[p].open /\ s \in Seq(Checkpoint) /\ checkpoints'[p] = t
  BY CheckpointList
<1>2. LastOf(p, b) = (IF old = {} THEN {} ELSE s[Max(old)].archives)
  BY DEF LastOf
<1>3. LastOf(p, b)' = (IF new = {} THEN {} ELSE t[Max(new)].archives)
  BY <1>1 DEF LastOf
<1>4. /\ n \in Nat /\ DOMAIN s = 1..n /\ DOMAIN t = 1..(n + 1) /\ t[n + 1] = c /\ \A i \in 1..n : t[i] = s[i]
  <2> HIDE DEF c, s
  <2>1. /\ t \in Seq(Checkpoint) /\ Len(t) = Len(s) + 1
        /\ t[Len(s) + 1] = c /\ \A i \in 1..Len(s) : t[i] = s[i]
    BY <1>1, AppendProperties
  <2> QED BY <1>1, <2>1
<1> HIDE DEF c, s, n, t
<1>5. CASE \E x \in local[p].open : x.bucket = b
  <2>1. n + 1 \in new /\ new \subseteq Int /\ \A m \in new : m <= n + 1
    BY <1>1, <1>4, <1>5
  <2> DEFINE k == n + 1
  <2>2. k \in new /\ new \subseteq Int /\ \A m \in new : m <= k
    BY <2>1
  <2>3. Max(new) = k
    <3> HIDE DEF k, new
    <3> QED BY <2>2, MaxIs
  <2> QED BY <1>1, <1>3, <1>4, <1>5, <2>2, <2>3
<1>6. CASE ~\E x \in local[p].open : x.bucket = b
  <2>1. new = old
    BY <1>1, <1>4, <1>6
  <2>2. old \subseteq 1..n /\ old \subseteq Int /\ n \in Int /\ \A m \in old : m <= n
    BY <1>4
  <2>3. old # {} => Max(old) \in old
    <3> HIDE DEF old
    <3> QED BY <2>2, MaxFacts
  <2>4. old # {} => t[Max(old)] = s[Max(old)]
    BY <1>4, <2>2, <2>3
  <2> HIDE DEF old, new
  <2>5. CASE old = {}
    BY <1>2, <1>3, <1>6, <2>1, <2>5
  <2>6. CASE old # {}
    <3>1. LastOf(p, b) = s[Max(old)].archives /\ LastOf(p, b)' = t[Max(old)].archives
      BY <1>2, <1>3, <2>1, <2>6
    <3> QED BY <1>6, <2>4, <2>6, <3>1
  <2> QED BY <2>5, <2>6
<1> QED BY <1>5, <1>6

\* A checkpoint leaves a bucket full only if it is the last of its process.
LEMMA WriteCheckpointViews ==
    ASSUME CollectKept, Views, NEW p \in Collectors, WriteCheckpoint(p)
    PROVE  Views'
<1>1. PICK readings \in SUBSET SUBSET ledger :
         /\ \A A, B \in readings : A \subseteq B \/ B \subseteq A
         /\ \A q \in Collectors : Running(q) => \E A \in readings : ViewOf(q, A)
         /\ \A b \in Buckets : \E A \in readings : EarlyBelow(b, A)
  BY DEF Views
<1>2. /\ pc[p] = "checkpoint" /\ pc'[p] = "publish" /\ ledger' = ledger
      /\ Checkpointed(p)' = Checkpointed(p) \cup local[p].open
      /\ \A q \in Collectors \ {p} : Checkpointed(q)' = Checkpointed(q) /\ checkpoints'[q] = checkpoints[q]
      /\ \A q \in Collectors \ {p} : local'[q] = local[q] /\ pc'[q] = pc[q]
      /\ local'[p].open = {} /\ local'[p].totals = local[p].totals
  <2>1. local[p] \in LocalMemory /\ local'[p] = [local[p] EXCEPT !.open = {}]
    BY ProcessFacts, CheckpointFacts
  <2>2. local'[p].totals = local[p].totals
    BY <2>1 DEF LocalMemory
  <2> QED BY <2>2, CheckpointFacts
<1>3. ASSUME NEW q \in Collectors, Running(q)' PROVE \E A \in readings : ViewOf(q, A)'
  <2>1. Running(q)
    BY <1>2, <1>3 DEF Running
  <2>2. PICK A \in readings : ViewOf(q, A)
    BY <1>1, <2>1
  <2>3. CASE q = p
    <3>1. ~Filling(p)'
      BY <1>2 DEF Filling
    <3>2. ViewOf(p, A)'
      BY <1>2, <2>2, <2>3, <3>1 DEF ViewOf
    <3> QED BY <2>3, <3>2
  <2>4. CASE q # p
    <3>1. Filling(q)' <=> Filling(q)
      BY <1>2, <2>4 DEF Filling
    <3>2. ViewOf(q, A)'
      BY <1>2, <2>2, <2>4, <3>1 DEF ViewOf
    <3> QED BY <3>2
  <2> QED BY <2>3, <2>4
<1>4. ASSUME NEW b \in Buckets, NEW q \in Collectors, q # p PROVE EarlyOf(q, b)' = EarlyOf(q, b)
  <2>1. Checkpointed(q)' = Checkpointed(q) /\ checkpoints'[q] = checkpoints[q]
    BY <1>2, <1>4
  <2>2. LastOf(q, b)' = LastOf(q, b)
    BY <2>1 DEF LastOf
  <2> QED BY <2>1, <2>2 DEF EarlyOf
<1>5. ASSUME NEW b \in Buckets PROVE \E A \in readings : EarlyBelow(b, A)'
  <2>1. PICK A \in readings : EarlyBelow(b, A)
    BY <1>1
  <2>2. CASE \E x \in local[p].open : x.bucket = b
    <3>1. Running(p) /\ Filling(p)
      BY <1>2 DEF Running, Filling
    <3>2. PICK B \in readings : ViewOf(p, B)
      BY <1>1, <3>1
    <3>3. EarlyOf(p, b)' \subseteq Checkpointed(p)
      <4>1. LastOf(p, b)' = local[p].open
        BY <2>2, LastAppended
      <4> QED BY <1>2, <4>1 DEF EarlyOf
    <3>4. Checkpointed(p) \subseteq B /\ Tokens(B, b) < Target[b]
      BY <2>2, <3>1, <3>2 DEF ViewOf
    <3>5. Tokens(A, b) < Target[b] /\ \A q \in Collectors : EarlyOf(q, b) \subseteq A
      BY <2>1 DEF EarlyBelow
    <3>6. PICK C \in {A, B} : A \subseteq C /\ B \subseteq C
      BY <1>1, <2>1, <3>2
    <3>7. C \in readings /\ Tokens(C, b) < Target[b]
      BY <2>1, <3>2, <3>4, <3>5, <3>6
    <3>8. \A q \in Collectors : EarlyOf(q, b)' \subseteq C
      BY <1>4, <3>3, <3>4, <3>5, <3>6
    <3>9. EarlyBelow(b, C)'
      BY <3>7, <3>8 DEF EarlyBelow, Tokens
    <3> QED BY <3>7, <3>9
  <2>3. CASE ~\E x \in local[p].open : x.bucket = b
    <3>1. LastOf(p, b)' = LastOf(p, b)
      BY <2>3, LastAppended
    <3>2. EarlyOf(p, b)' = EarlyOf(p, b)
      BY <1>2, <2>3, <3>1 DEF EarlyOf
    <3>3. EarlyBelow(b, A)'
      BY <1>4, <2>1, <3>2 DEF EarlyBelow, Tokens
    <3> QED BY <3>3
  <2> QED BY <2>2, <2>3
<1> QED BY <1>1, <1>2, <1>3, <1>5 DEF Views

-----------------------------------------------------------------------------
\* A step in which processes only stop, or wait, or are told to halt.
LEMMA ScanQuiet ==
    ASSUME CollectKept, CollectKept', Scans, Views, UNCHANGED <<checkpoints, plan>>, ledger \subseteq ledger',
           \A q \in Collectors :
              \/ pc'[q] \in {"off", "recover", "failed"}
              \/ pc'[q] = pc[q] /\ local'[q] = local[q]
    PROVE  Scans' /\ Views'
<1>1. Scans'
  BY ScansMove
<1>2. ASSUME NEW q \in Collectors
      PROVE  Running(q)' => Running(q) /\ \A A \in SUBSET ledger : ViewOf(q, A) => ViewOf(q, A)'
  <2>1. CASE pc'[q] \in {"off", "recover", "failed"}
    BY <2>1 DEF Running
  <2>2. CASE pc'[q] = pc[q] /\ local'[q] = local[q]
    BY <2>2, ViewStays DEF Running, Filling
  <2> QED BY <2>1, <2>2
<1> QED BY <1>1, <1>2, ViewsStay

\* Shards end, archives are sealed, workers are told to halt.
LEMMA EndShardKept ==
    ASSUME CollectKept, CollectKept', Scans, Views, NEW p \in Collectors, EndShard(p)
    PROVE  Scans' /\ Views'
<1>1. /\ UNCHANGED <<checkpoints, plan, ledger>> /\ pc[p] = "rows" /\ pc' = [pc EXCEPT ![p] = "commit"]
      /\ local' = [local EXCEPT ![p].at = @ + 1, ![p].row = 0, ![p].ended = TRUE]
      /\ local \in [Collectors -> LocalMemory] /\ pc \in [Collectors -> Places]
  BY DEF EndShard, Goto, durable, collection, CollectKept, CollectorsTypes
<1>2. \A q \in Collectors \ {p} : pc'[q] = pc[q] /\ local'[q] = local[q]
  BY <1>1
<1>3. Scan(p)'
  BY EndShardScan DEF CollectKept, Scans
<1>4. local'[p].totals = local[p].totals /\ local'[p].open = local[p].open /\ Filling(p) /\ Running(p)
  BY <1>1 DEF LocalMemory, Filling, Running
<1>5. Scans'
  BY <1>1, <1>2, <1>3, ScansMove
<1>6. ASSUME NEW q \in Collectors
      PROVE  Running(q)' => Running(q) /\ \A A \in SUBSET ledger : ViewOf(q, A) => ViewOf(q, A)'
  BY <1>1, <1>2, <1>4, ViewStays DEF Running, Filling
<1> QED BY <1>1, <1>5, <1>6, ViewsStay

\* Closing archives changes neither the cursor nor the place of the process.
LEMMA SealKept ==
    ASSUME CollectKept, CollectKept', Scans, Views, NEW p \in Collectors, Seal(p)
    PROVE  Scans' /\ Views'
<1>1. /\ UNCHANGED <<checkpoints, plan, ledger, local>> /\ pc[p] = "commit"
      /\ pc' = [pc EXCEPT ![p] = "checkpoint"] /\ pc \in [Collectors -> Places]
  BY DEF Seal, Goto, CollectKept, CollectorsTypes
<1>2. pc'[p] = "checkpoint" /\ \A q \in Collectors \ {p} : pc'[q] = pc[q]
  BY <1>1
<1>3. AllCheckpointed \subseteq AllCheckpointed' /\ CollectorsTypes /\ CollectorsTypes'
  BY <1>1 DEF AllCheckpointed, Checkpointed, CollectKept
<1>4. Scan(p)'
  BY <1>1, <1>2, <1>3, ScanStays DEF Scans
<1>5. Scans'
  BY <1>1, <1>2, <1>4, ScansMove
<1>6. ASSUME NEW q \in Collectors
      PROVE  Running(q)' => Running(q) /\ \A A \in SUBSET ledger : ViewOf(q, A) => ViewOf(q, A)'
  BY <1>1, <1>2, ViewStays DEF Running, Filling
<1> QED BY <1>1, <1>5, <1>6, ViewsStay

\* Workers that are asked to stop keep their places and totals.
LEMMA SuperviseKept ==
    ASSUME CollectKept, CollectKept', Scans, Views, Supervise
    PROVE  Scans' /\ Views'
<1>1. /\ UNCHANGED <<checkpoints, plan, ledger, pc>> /\ local \in [Collectors -> LocalMemory]
      /\ local' = [p \in Collectors |-> IF p \in Alive THEN [local[p] EXCEPT !.halt = TRUE] ELSE local[p]]
  BY DEF Supervise, durable, collection, CollectKept, CollectorsTypes
<1>2. ASSUME NEW q \in Collectors
      PROVE  /\ local'[q].at = local[q].at /\ local'[q].row = local[q].row /\ local'[q].open = local[q].open
             /\ local'[q].totals = local[q].totals /\ local'[q].since = local[q].since
  <2>1. local[q] \in LocalMemory /\ (local'[q] = local[q] \/ local'[q] = [local[q] EXCEPT !.halt = TRUE])
    BY <1>1
  <2> QED BY <2>1 DEF LocalMemory
<1>3. AllCheckpointed \subseteq AllCheckpointed' /\ CollectorsTypes /\ CollectorsTypes'
  BY <1>1 DEF AllCheckpointed, Checkpointed, CollectKept
<1>4. \A q \in Collectors : Scan(q)'
  BY <1>1, <1>2, <1>3, ScanStays DEF Scans
<1>5. Scans'
  BY <1>1, <1>4, ScansMove
<1>6. ASSUME NEW q \in Collectors
      PROVE  Running(q)' => Running(q) /\ \A A \in SUBSET ledger : ViewOf(q, A) => ViewOf(q, A)'
  BY <1>1, <1>2, ViewStays DEF Running, Filling
<1> QED BY <1>1, <1>5, <1>6, ViewsStay

\* The checkpoint of one process leaves the scans of the others as they are.
LEMMA WriteCheckpointKept ==
    ASSUME CollectKept, CollectKept', Scans, Views, NEW p \in Collectors, WriteCheckpoint(p)
    PROVE  Scans' /\ Views'
<1>1. /\ pc[p] = "checkpoint" /\ plan' = plan /\ AllCheckpointed' = AllCheckpointed \cup local[p].open
      /\ \A q \in Collectors \ {p} : local'[q] = local[q] /\ pc'[q] = pc[q] /\ checkpoints'[q] = checkpoints[q]
  BY CheckpointFacts
<1>2. CollectorsTypes /\ CollectorsTypes' /\ PlanExact /\ (\A q \in Collectors : Scan(q))
  BY DEF CollectKept, Scans
<1>3. \E A : A \subseteq ledger /\ \A b \in Buckets : local[p].totals[b] = Tokens(A, b)
  <2>1. Running(p)
    BY <1>1 DEF Running
  <2>2. \E A \in SUBSET ledger : ViewOf(p, A)
    BY <2>1 DEF Views
  <2> QED BY <2>2 DEF ViewOf
<1>4. Scan(p)'
  BY <1>2, <1>3, WriteCheckpointScan
<1>5. ASSUME NEW q \in Collectors, q # p PROVE Scan(q)'
  BY <1>1, <1>2, <1>5, ScanStays
<1>6. PlanExact'
  BY <1>1, <1>2 DEF PlanExact
<1> QED BY <1>4, <1>5, <1>6, WriteCheckpointViews DEF Scans

\* The row a process takes is its own, and its bucket not full as far as it knows.
LEMMA TakeRowKept ==
    ASSUME CollectKept, CollectKept', Scans, Views, NEW p \in Collectors, TakeRow(p)
    PROVE  Scans' /\ Views'
<1>1. Scan(p)'
  BY TakeRowScan DEF CollectKept, Scans
<1>2. UNCHANGED <<checkpoints, plan>> /\ \A q \in Collectors \ {p} : local'[q] = local[q] /\ pc'[q] = pc[q]
  BY TakeRowMoves
<1>3. Scans'
  BY <1>1, <1>2, ScansMove
<1> QED BY <1>3, TakeRowViews

\* The plan starts the workers where the legacy frontier is.
LEMMA PlanKept ==
    ASSUME CollectKept, CollectKept', Scans, Views, create_or_load_plan
    PROVE  Scans' /\ Views'
<1>1. UNCHANGED <<checkpoints, ledger, pc, local>>
  BY DEF create_or_load_plan
<1>2. \A q \in Collectors : Running(q)' => Running(q) /\ \A A \in SUBSET ledger : ViewOf(q, A) => ViewOf(q, A)'
  BY <1>1, ViewStays DEF Running, Filling
<1> QED BY <1>1, <1>2, PlanScan, ViewsStay

\* The other steps of a process.
LEMMA StopsKept ==
    ASSUME CollectKept, CollectKept', Scans, Views, NEW p \in Collectors,
           Launch(p) \/ Recover(p) \/ Exhausted(p) \/ Mark(p)
    PROVE  Scans' /\ Views'
<1>1. UNCHANGED <<checkpoints, plan>> /\ local \in [Collectors -> LocalMemory] /\ pc \in [Collectors -> Places]
  BY DEF CollectKept, CollectorsTypes, Launch, Recover, Exhausted, Mark, durable
<1>2. ledger \subseteq ledger'
  <2>1. CASE Recover(p)
    BY <2>1, RecoverKeeps
  <2>2. CASE Launch(p) \/ Exhausted(p) \/ Mark(p)
    BY <2>2 DEF Launch, Exhausted, Mark, durable, collection
  <2> QED BY <2>1, <2>2
<1>3. \/ \E place \in {"off", "recover"} : pc' = [pc EXCEPT ![p] = place]
                                            /\ (local' = local \/ local' = [local EXCEPT ![p] = Idle])
      \/ UNCHANGED <<pc, local>>
  BY DEF Launch, Recover, Exhausted, Mark, Leave, Goto
<1>4. \A q \in Collectors :
              \/ pc'[q] \in {"off", "recover", "failed"}
              \/ pc'[q] = pc[q] /\ local'[q] = local[q]
  BY <1>1, <1>3
<1> QED BY <1>1, <1>2, <1>4, ScanQuiet

\* The steps of the supervisor, the operator and the machine.
LEMMA SupervisionKept ==
    ASSUME CollectKept, CollectKept', Scans, Views,
           LaunchParallel \/ StartWorkers \/ Join \/ MarkParallel \/ MoveOrphans \/ KillCollectors
              \/ \E w \in WorkerSet : WorkerFails(w)
    PROVE  Scans' /\ Views'
<1>1. /\ UNCHANGED <<checkpoints, plan, ledger>> /\ local \in [Collectors -> LocalMemory]
      /\ pc \in [Collectors -> Places] /\ WorkerSet \subseteq Collectors
  BY DEF CollectKept, CollectorsTypes, LaunchParallel, StartWorkers, Join, MarkParallel, MoveOrphans,
         KillCollectors, WorkerFails, durable, collection, Collectors
<1>2. \A q \in Collectors :
              \/ pc'[q] \in {"off", "recover", "failed"}
              \/ pc'[q] = pc[q] /\ local'[q] = local[q]
  <2>1. CASE LaunchParallel \/ MarkParallel \/ MoveOrphans
    BY <2>1 DEF LaunchParallel, MarkParallel, MoveOrphans
  <2>2. CASE StartWorkers
    BY <1>1, <2>2 DEF StartWorkers
  <2>3. CASE Join
    BY <1>1, <2>3 DEF Join
  <2>4. CASE KillCollectors
    BY <2>4 DEF KillCollectors
  <2>5. CASE \E w \in WorkerSet : WorkerFails(w)
    BY <1>1, <2>5 DEF WorkerFails, Goto
  <2> QED BY <2>1, <2>2, <2>3, <2>4, <2>5
<1> QED BY <1>1, <1>2, ScanQuiet

\* Every step of the collectors.
LEMMA CollectorsScan ==
    ASSUME CollectKept, Scans, Views, CollectorsNext
    PROVE  CollectKept' /\ Scans' /\ Views'
<1>1. CollectKept'
  BY CollectorsKeep
<1>2. ASSUME NEW p \in Collectors, Launch(p) \/ Work(p) PROVE Scans' /\ Views'
  BY <1>1, <1>2, StopsKept, BeginScan, BeginViews, TakeRowKept, EndShardKept, SealKept, WriteCheckpointKept,
     CommittedScan, CommittedViews DEF Work
<1>3. CASE LaunchParallel \/ Supervision \/ MoveOrphans \/ KillCollectors \/ \E w \in WorkerSet : WorkerFails(w)
  BY <1>1, <1>3, SupervisionKept, PlanKept, SuperviseKept DEF Supervision
<1> QED BY <1>1, <1>2, <1>3 DEF CollectorsNext

\* Archives of no bucket hold nothing.
LEMMA NoTokens ==
    ASSUME NEW b
    PROVE  Tokens({}, b) = 0
<1> DEFINE rows == UNION {a.rows : a \in {x \in {} : x.bucket = b}}
<1>1. rows = {}
  OBVIOUS
<1>2. UNION {{r} \X (1..r.tokens) : r \in rows} = {}
  BY <1>1
<1>3. Tokens({}, b) = Cardinality(UNION {{r} \X (1..r.tokens) : r \in rows})
  BY DEF Tokens, TokensIn
<1> HIDE DEF rows
<1> QED BY <1>2, <1>3, FS_EmptySet

\* Before anything is collected the scan is empty.
LEMMA ScanStarts == CollectorsInit => Scans /\ Views
<1> SUFFICES ASSUME CollectorsInit PROVE Scans /\ Views
  OBVIOUS
<1>1. /\ ledger = {} /\ plan = None /\ checkpoints = [p \in Collectors |-> <<>>]
      /\ pc = [p \in Collectors |-> "off"]
  BY DEF CollectorsInit, CollectionInit
<1>2. ASSUME NEW p \in Collectors
      PROVE  checkpoints[p] = <<>> /\ Checkpointed(p) = {} /\ ToSet(checkpoints[p]) = {} /\ pc[p] = "off"
  BY <1>1 DEF Checkpointed, ToSet
<1>3. ASSUME NEW p \in Collectors PROVE Scan(p)
  <2>1. CASE Started(p)
    <3>1. p \notin WorkerSet /\ p # Workers[1]
      BY <1>1, <2>1, WorkerIds DEF Started
    <3>2. Cursor(p) = [at |-> 1, row |-> 0, next |-> [b \in Buckets |-> 0]] /\ FirstCursor(p) = Cursor(p)
      BY <1>2, <3>1 DEF Cursor, FirstCursor
    <3>3. Cursor(p).at = 1 /\ Cursor(p).row = 0 /\ FirstCursor(p).row = 0
      BY <3>2
    <3>4. Placed(p, 1, 0)
      <4>1. SourceOf(p) \in Sources
        BY DEF SourceOf, Sources, Collectors
      <4>2. assigned_source_shard(p, 1) = 1 /\ Shards[SourceOf(p)] \in Seq(Seq(RowsOf(SourceOf(p))))
        BY <3>1, <4>1, RowsAssumption DEF assigned_source_shard
      <4>3. HasShard(p, 1) => Shard(p, 1) \in Seq(RowsOf(SourceOf(p)))
        BY <4>2 DEF HasShard, Shard
      <4>4. HasShard(p, 1) => 0 <= Len(Shard(p, 1))
        BY <4>3
      <4> QED BY <4>4 DEF Placed
    <3>5. ScanDone(p)
      BY <1>2, <3>3, <3>4 DEF ScanDone
    <3>6. ASSUME NEW k \in Nat, NEW i \in Nat, NEW r, Mine(p, r, k, i), Past(p, k, i) PROVE FALSE
      <4>1. k \in Nat \ {0} /\ (k = 1 => i > 0)
        BY <3>3, <3>6 DEF Mine
      <4>2. k < 1 \/ (k = 1 /\ i <= 0)
        BY <3>3, <3>6 DEF Past, Behind
      <4> QED BY <4>1, <4>2
    <3>7. Missed(p)
      BY <3>6 DEF Missed
    <3> QED BY <1>2, <3>5, <3>7 DEF Scan, Filling
  <2>2. CASE ~Started(p)
    BY <1>2, <2>2 DEF Scan, Filling
  <2> QED BY <2>1, <2>2
<1>4. PlanExact
  BY <1>1 DEF PlanExact
<1>5. Views
  <2> DEFINE readings == {{}}
  <2>1. readings \in SUBSET SUBSET ledger /\ \A A, B \in readings : A \subseteq B \/ B \subseteq A
    OBVIOUS
  <2>2. \A p \in Collectors : ~Running(p)
    BY <1>2 DEF Running
  <2>3. \A b \in Buckets : EarlyBelow(b, {})
    <3>1. ASSUME NEW b \in Buckets PROVE EarlyBelow(b, {})
      <4>1. Target[b] \in Nat \ {0} /\ Tokens({}, b) = 0
        BY CollectorsAssumption, NoTokens
      <4>2. \A p \in Collectors : EarlyOf(p, b) = {}
        BY <1>2 DEF EarlyOf
      <4> QED BY <4>1, <4>2 DEF EarlyBelow
    <3> QED BY <3>1
  <2> QED BY <2>1, <2>2, <2>3 DEF Views
<1> QED BY <1>3, <1>4, <1>5 DEF Scans

-----------------------------------------------------------------------------
\* Shards before one that exists exist.
LEMMA EarlierShard ==
    ASSUME CollectorsTypes, NEW p \in Collectors, Started(p), NEW k \in Nat \ {0}, NEW l \in Nat \ {0},
           k <= l, HasShard(p, l)
    PROVE  HasShard(p, k)
<1> DEFINE n == Len(Shards[SourceOf(p)])
<1>1. n \in Nat
  <2>1. SourceOf(p) \in Sources
    BY DEF SourceOf, Sources, Collectors
  <2>2. Shards[SourceOf(p)] \in Seq(Seq(RowsOf(SourceOf(p))))
    BY <2>1, RowsAssumption
  <2> QED BY <2>2
<1>2. CASE p \in WorkerSet
  <2> DEFINE x == k - 1
             y == l - 1
             m == Len(Workers)
             a == plan.shard
             id == WorkerId(p)
  <2>1. /\ a \in Nat /\ id \in Nat /\ m \in Nat /\ x \in Nat /\ y \in Nat /\ m * x \in Nat /\ m * y \in Nat
        /\ assigned_source_shard(p, k) = a + (id + m * x)
        /\ assigned_source_shard(p, l) = a + (id + m * y)
    BY <1>2, WorkerPlace DEF Started
  <2>2. x <= y
    OBVIOUS
  <2> HIDE DEF x, y, m, a, id
  <2>3. m * x <= m * y
    <3> DEFINE d == y - x
    <3>1. d \in Nat /\ y = x + d
      BY <2>1, <2>2
    <3> HIDE DEF d
    <3>2. m * y = m * x + m * d /\ m * d \in Nat
      BY <2>1, <3>1
    <3> QED BY <2>1, <3>2
  <2>4. assigned_source_shard(p, k) <= assigned_source_shard(p, l)
        /\ assigned_source_shard(p, k) \in Nat /\ assigned_source_shard(p, l) \in Nat
    <3> DEFINE s == m * x
               t == m * y
    <3>1. s \in Nat /\ t \in Nat /\ s <= t /\ a \in Nat /\ id \in Nat
      BY <2>1, <2>3
    <3>2. assigned_source_shard(p, k) = a + (id + s) /\ assigned_source_shard(p, l) = a + (id + t)
      BY <2>1
    <3> HIDE DEF s, t
    <3> QED BY <3>1, <3>2
  <2>5. assigned_source_shard(p, l) <= n
    BY DEF HasShard
  <2> HIDE DEF n
  <2>6. assigned_source_shard(p, k) <= n
    BY <1>1, <2>4, <2>5
  <2> QED BY <2>6 DEF HasShard, n
<1>3. CASE p \notin WorkerSet
  <2>1. assigned_source_shard(p, k) = k /\ assigned_source_shard(p, l) = l
    BY <1>3 DEF assigned_source_shard
  <2>2. l <= n
    BY <2>1 DEF HasShard
  <2> HIDE DEF n
  <2>3. k <= n
    BY <1>1, <2>2
  <2> QED BY <2>1, <2>3 DEF HasShard, n
<1> QED BY <1>2, <1>3

\* What a cursor has passed is a place of the assignment.
LEMMA ScannedPlace ==
    ASSUME CollectKept, NEW p \in Collectors, Started(p), ScanDone(p), checkpoints[p] # <<>>, NEW r,
           r \in Scanned(p)
    PROVE  \E k, i \in Nat \ {0} : /\ HasShard(p, k) /\ i \in 1..Len(Shard(p, k)) /\ r = Shard(p, k)[i]
                                   /\ Past(p, k, i)
<1> DEFINE at == Cursor(p).at
           row == Cursor(p).row
<1>1. at \in Nat \ {0} /\ row \in Nat
  <2>1. Cursor(p) \in Cursors
    BY CursorType DEF CollectKept, Started
  <2> QED BY <2>1 DEF Cursors
<1>2. r \in (UNION {ToSet(Shard(p, k)) : k \in 1..(at - 1)})
               \cup (IF row = 0 THEN {} ELSE {Shard(p, at)[i] : i \in 1..row})
  BY DEF Scanned
<1>3. /\ HasShard(p, at) => row <= Len(Shard(p, at))
      /\ ~HasShard(p, at) => row = 0
      /\ at > 1 => HasShard(p, at - 1)
  BY DEF ScanDone, Placed
<1>4. \A k, i : Past(p, k, i) <=> k < at \/ (k = at /\ i <= row)
  BY DEF Past, Behind
<1>5. ASSUME NEW k \in Nat \ {0}, HasShard(p, k) PROVE DOMAIN Shard(p, k) = 1..Len(Shard(p, k)) /\ Len(Shard(p, k)) \in Nat
  <2>1. Shard(p, k) \in Seq(RowsOf(SourceOf(p)))
    BY <1>5, ShardFacts DEF CollectKept, Started
  <2> QED BY <2>1
<1> HIDE DEF at, row
<1>6. CASE r \in UNION {ToSet(Shard(p, k)) : k \in 1..(at - 1)}
  <2>1. PICK k \in 1..(at - 1) : r \in ToSet(Shard(p, k))
    BY <1>6
  <2>2. k \in Nat \ {0} /\ k < at /\ at > 1 /\ k <= at - 1 /\ at - 1 \in Nat \ {0}
    BY <1>1, <2>1
  <2> DEFINE l == at - 1
  <2>3. HasShard(p, k)
    <3>1. l \in Nat \ {0} /\ k <= l /\ HasShard(p, l)
      BY <1>3, <2>2
    <3> HIDE DEF l
    <3> QED BY <2>2, <3>1, EarlierShard DEF CollectKept
  <2>4. PICK i \in DOMAIN Shard(p, k) : r = Shard(p, k)[i]
    BY <2>1 DEF ToSet
  <2>5. i \in 1..Len(Shard(p, k)) /\ i \in Nat \ {0}
    BY <1>5, <2>2, <2>3, <2>4
  <2> QED BY <1>4, <2>2, <2>3, <2>4, <2>5
<1>7. CASE row # 0 /\ r \in {Shard(p, at)[i] : i \in 1..row}
  <2>1. PICK i \in 1..row : r = Shard(p, at)[i]
    BY <1>7
  <2>2. HasShard(p, at) /\ row <= Len(Shard(p, at)) /\ Len(Shard(p, at)) \in Nat
    BY <1>1, <1>3, <1>5, <1>7
  <2>3. i \in 1..Len(Shard(p, at)) /\ i \in Nat \ {0} /\ i <= row
    BY <1>1, <2>2
  <2> QED BY <1>1, <1>4, <2>1, <2>2, <2>3
<1> QED BY <1>2, <1>6, <1>7

\* The checkpointed archives are one scan of the source.
LEMMA TheScan ==
    ASSUME CollectKept, Scans
    PROVE  CommittedIsTheScan
<1>1. CollectorsTypes /\ Control /\ PlanExact /\ (\A p \in Collectors : Scan(p))
      /\ \A p \in Collectors : Numbering(p)
  BY DEF CollectKept, Scans
<1>2. ASSUME NEW p \in Collectors PROVE Started(p) \/ (checkpoints[p] = <<>> /\ Checkpointed(p) = {})
  <2>1. CASE ~Started(p)
    <3>1. checkpoints[p] = <<>>
      BY <1>1, <2>1 DEF Started, Control
    <3> QED BY <3>1 DEF Checkpointed, ToSet
  <2> QED BY <2>1
<1>3. \A a, b \in AllCheckpointed : a # b => Name(a) # Name(b) /\ a.rows \cap b.rows = {}
  <2> SUFFICES ASSUME NEW a \in AllCheckpointed, NEW b \in AllCheckpointed, a # b
               PROVE  Name(a) # Name(b) /\ a.rows \cap b.rows = {}
    OBVIOUS
  <2>1. PICK p \in Collectors : a \in Checkpointed(p)
    BY DEF AllCheckpointed
  <2>2. PICK q \in Collectors : b \in Checkpointed(q)
    BY DEF AllCheckpointed
  <2>3. Name(a) # Name(b)
    BY <1>1, CheckpointedApart
  <2>4. a.rows \cap b.rows = {}
    BY <1>1, <2>1, <2>2, RowsApart
  <2> QED BY <2>3, <2>4
<1> DEFINE archived == UNION {a.rows : a \in AllCheckpointed}
           scanned == UNION {Scanned(p) : p \in Collectors}
<1>4. archived \subseteq scanned
  <2> SUFFICES ASSUME NEW p \in Collectors, NEW x \in Checkpointed(p), NEW r \in x.rows PROVE r \in Scanned(p)
    BY DEF AllCheckpointed
  <2>1. Started(p) /\ ScanDone(p) /\ checkpoints[p] # <<>>
    <3>1. Started(p)
      BY <1>2
    <3>2. checkpoints[p] = <<>> => Checkpointed(p) = {}
      BY DEF Checkpointed, ToSet
    <3> QED BY <1>1, <3>1, <3>2 DEF Scan
  <2>2. PICK k \in Nat, i \in Nat : Mine(p, r, k, i) /\ Past(p, k, i)
    BY <2>1 DEF ScanDone
  <2> DEFINE at == Cursor(p).at
             row == Cursor(p).row
  <2>3. at \in Nat /\ row \in Nat
    <3>1. Cursor(p) \in Cursors
      BY <1>1, <2>1, CursorType DEF Started
    <3> QED BY <3>1 DEF Cursors
  <2>4. k < at \/ (k = at /\ i <= row)
    BY <2>2 DEF Past, Behind
  <2>5. k \in Nat \ {0} /\ HasShard(p, k) /\ i \in 1..Len(Shard(p, k)) /\ r = Shard(p, k)[i]
    BY <2>2 DEF Mine
  <2>6. Scanned(p) = (UNION {ToSet(Shard(p, j)) : j \in 1..(at - 1)})
               \cup (IF row = 0 THEN {} ELSE {Shard(p, at)[j] : j \in 1..row})
    BY <2>1 DEF Scanned
  <2>7. r \in ToSet(Shard(p, k)) /\ i \in Nat \ {0}
    <3>1. Shard(p, k) \in Seq(RowsOf(SourceOf(p)))
      BY <1>1, <2>1, <2>5, ShardFacts DEF Started
    <3>2. DOMAIN Shard(p, k) = 1..Len(Shard(p, k))
      BY <3>1
    <3> QED BY <2>5, <3>2 DEF ToSet
  <2> HIDE DEF at, row
  <2>8. CASE k < at
    <3>1. k \in 1..(at - 1)
      BY <2>3, <2>5, <2>8
    <3> QED BY <2>6, <2>7, <3>1
  <2>9. CASE k = at /\ i <= row
    <3>1. row # 0 /\ i \in 1..row
      BY <2>3, <2>7, <2>9
    <3> QED BY <2>5, <2>6, <2>9, <3>1
  <2> QED BY <2>4, <2>8, <2>9
<1>5. ASSUME NEW r \in scanned \ archived PROVE Full(r.bucket)
  <2>1. PICK p \in Collectors : r \in Scanned(p)
    OBVIOUS
  <2>2. checkpoints[p] # <<>> /\ Started(p) /\ ScanDone(p) /\ Missed(p)
    <3>1. checkpoints[p] # <<>>
      BY <2>1 DEF Scanned
    <3> QED BY <1>1, <1>2, <3>1 DEF Scan
  <2>3. PICK k \in Nat \ {0}, i \in Nat \ {0} :
           /\ HasShard(p, k) /\ i \in 1..Len(Shard(p, k)) /\ r = Shard(p, k)[i]
           /\ Past(p, k, i)
    BY <2>1, <2>2, ScannedPlace
  <2>4. \A q \in Collectors : \A x \in Checkpointed(q) : r \notin x.rows
    BY DEF AllCheckpointed
  <2>5. ASSUME NEW q \in Collectors, NEW l \in Nat, NEW j \in Nat, Mine(q, r, l, j), Past(q, l, j), Started(q)
        PROVE  Full(r.bucket)
    <3>1. r \in RowsOf(SourceOf(q))
      BY <1>1, <2>5, MineFacts
    <3>2. Missed(q)
      BY <1>1, <2>5 DEF Scan
    <3> QED BY <2>4, <2>5, <3>1, <3>2 DEF Missed
  <2>6. CASE k = 1 => i > FirstCursor(p).row
    <3>1. Mine(p, r, k, i)
      BY <2>3, <2>6 DEF Mine
    <3> QED BY <2>2, <2>3, <2>5, <3>1
  <2>7. CASE k = 1 /\ ~(i > FirstCursor(p).row)
    <3>1. p = Workers[1] /\ FirstCursor(p).row = plan.row
      BY <2>3, <2>7 DEF FirstCursor
    <3>2. p \in WorkerSet /\ plan # None /\ "stack" \in Collectors /\ "stack" \notin WorkerSet
      BY <2>2, <3>1, WorkerIds DEF Started, Collectors
    <3>3. plan.shard \in Nat \ {0} /\ plan.row \in Nat
      BY <1>1, <3>2 DEF CollectorsTypes, Plans
    <3>4. i <= plan.row
      BY <2>3, <2>7, <3>1, <3>3
    <3>5. WorkerId(p) = 0
      <4>1. WorkerId(p) + 1 \in DOMAIN Workers /\ 1 \in DOMAIN Workers /\ WorkerId(p) \in Nat
            /\ Workers[WorkerId(p) + 1] = Workers[1]
        <5>1. WorkerId(p) \in 0..(Len(Workers) - 1) /\ Workers[WorkerId(p) + 1] = p /\ Len(Workers) \in Nat \ {0}
          BY <3>2, WorkerIds
        <5>2. DOMAIN Workers = 1..Len(Workers)
          BY CollectorsAssumption
        <5> QED BY <3>1, <5>1, <5>2
      <4>2. WorkerId(p) + 1 = 1
        <5>1. \A m, n \in DOMAIN Workers : Workers[m] = Workers[n] => m = n
          BY CollectorsAssumption DEF IsInjective
        <5> QED BY <4>1, <5>1
      <4> QED BY <4>1, <4>2
    <3>6. assigned_source_shard(p, k) = plan.shard
      <4>1. assigned_source_shard(p, k) = plan.shard + WorkerId(p) + Len(Workers) * (1 - 1)
            /\ Len(Workers) \in Nat
        BY <2>7, <3>2, WorkerIds DEF assigned_source_shard
      <4> QED BY <3>3, <3>5, <4>1
    <3>7. SourceOf(p) = "stack" /\ SourceOf("stack") = "stack"
          /\ assigned_source_shard("stack", plan.shard) = plan.shard
      BY <3>2, WorkerIds, RowsAssumption DEF SourceOf, assigned_source_shard
    <3>8. HasShard("stack", plan.shard) /\ Shard("stack", plan.shard) = Shard(p, k)
      BY <2>3, <3>6, <3>7 DEF HasShard, Shard
    <3>9. plan.shard = 1 => i > FirstCursor("stack").row
      <4>1. FirstCursor("stack").row = 0
        BY <3>1, <3>2 DEF FirstCursor
      <4> QED BY <4>1
    <3>10. Mine("stack", r, plan.shard, i)
      BY <2>3, <3>3, <3>8, <3>9 DEF Mine
    <3>11. Past("stack", plan.shard, i)
      <4>1. Cursor("stack").at = plan.shard /\ Cursor("stack").row = plan.row
        BY <1>1, <3>2 DEF Control, PlanExact
      <4> QED BY <3>3, <3>4, <4>1 DEF Past, Behind
    <3>12. Started("stack") /\ plan.shard \in Nat
      BY <3>2, <3>3 DEF Started
    <3> DEFINE l == plan.shard
               q == "stack"
    <3>13. q \in Collectors /\ l \in Nat /\ Mine(q, r, l, i) /\ Past(q, l, i) /\ Started(q)
      BY <3>2, <3>10, <3>11, <3>12
    <3> HIDE DEF l, q
    <3> QED BY <2>5, <3>13
  <2> QED BY <2>6, <2>7
<1> QED BY <1>3, <1>4, <1>5 DEF CommittedIsTheScan, Full

\* Without the last checkpoint of each process no bucket is full.
LEMMA TheOvershoot ==
    ASSUME CollectKept, Scans, Views
    PROVE  OvershootBounded
<1>1. CollectorsTypes /\ Control /\ \A p \in Collectors : Scan(p)
  BY DEF CollectKept, Scans
<1>2. ASSUME NEW b \in Buckets
      PROVE  Tokens(AllCheckpointed \ UNION {LastOf(p, b) : p \in Collectors}, b) < Target[b]
  <2>1. PICK A \in SUBSET ledger : EarlyBelow(b, A)
    BY DEF Views
  <2> DEFINE S == AllCheckpointed \ UNION {LastOf(p, b) : p \in Collectors}
  <2>2. S \subseteq Archive /\ A \subseteq Archive
    BY <1>1, CheckpointedType
  <2>3. \A x \in S : x.bucket = b => x \in A
    <3> SUFFICES ASSUME NEW x \in S, x.bucket = b PROVE x \in A
      OBVIOUS
    <3>1. PICK p \in Collectors : x \in Checkpointed(p)
      BY DEF AllCheckpointed
    <3>2. x \notin LastOf(p, b)
      OBVIOUS
    <3>3. x \in EarlyOf(p, b)
      BY <3>1, <3>2 DEF EarlyOf
    <3> QED BY <2>1, <3>3 DEF EarlyBelow
  <2>4. \A x \in S : x.bucket = b => \A r \in x.rows : \E y \in A : y.bucket = b /\ r \in y.rows
    BY <2>3
  <2>5. Tokens(A, b) < Target[b] /\ Target[b] \in Nat
    BY <2>1, CollectorsAssumption DEF EarlyBelow
  <2> HIDE DEF S
  <2>6. Tokens(S, b) <= Tokens(A, b) /\ Tokens(S, b) \in Nat /\ Tokens(A, b) \in Nat
    BY <2>2, <2>4, TokensOrder, TokensType
  <2>7. Tokens(S, b) < Target[b]
    BY <2>5, <2>6
  <2> QED BY <2>7 DEF S
<1>3. ASSUME NEW p \in Collectors, NEW c \in ToSet(checkpoints[p])
      PROVE  Cardinality(UNION {a.rows : a \in c.archives}) <= CheckpointRows
  <2>1. CASE Started(p)
    BY <1>1, <2>1 DEF Scan, ScanDone
  <2>2. CASE ~Started(p)
    <3>1. checkpoints[p] = <<>>
      BY <1>1, <2>2 DEF Started, Control
    <3> QED BY <3>1 DEF ToSet
  <2> QED BY <2>1, <2>2
<1> QED BY <1>2, <1>3 DEF OvershootBounded

\* Nothing is collected where the preprocessor is looked at.
LEMMA NothingScanned ==
    ASSUME \A p \in Collectors : checkpoints[p] = <<>>
    PROVE  ScanWithinQuota
<1>1. \A p \in Collectors : ToSet(checkpoints[p]) = {} /\ Checkpointed(p) = {} /\ Scanned(p) = {}
  BY DEF ToSet, Checkpointed, Scanned
<1>2. AllCheckpointed = {} /\ UNION {Scanned(p) : p \in Collectors} = {}
  BY <1>1 DEF AllCheckpointed
<1>3. CommittedIsTheScan
  BY <1>2 DEF CommittedIsTheScan
<1>4. ASSUME NEW b \in Buckets
      PROVE  Tokens(AllCheckpointed \ UNION {LastOf(p, b) : p \in Collectors}, b) < Target[b]
  <2> DEFINE early == AllCheckpointed \ UNION {LastOf(p, b) : p \in Collectors}
  <2>1. early = {}
    BY <1>2
  <2>2. Target[b] \in Nat \ {0} /\ Tokens({}, b) = 0
    BY CollectorsAssumption, NoTokens
  <2>3. Tokens(early, b) < Target[b]
    <3> HIDE DEF early
    <3>1. Tokens(early, b) = Tokens({}, b)
      BY <2>1
    <3> QED BY <2>2, <3>1
  <2> QED BY <2>3
<1>5. OvershootBounded
  BY <1>1, <1>4 DEF OvershootBounded
<1> QED BY <1>3, <1>5 DEF ScanWithinQuota

\* While the preprocessor acts nothing has been collected in detail.
ScanInvariant ==
    /\ scene \in {"collect", "preprocess"}
    /\ scene = "collect" => CollectKept /\ Scans /\ Views
    /\ scene = "preprocess" => \A p \in Collectors : checkpoints[p] = <<>>

\* What changes nothing changes no invariant of the scan.
LEMMA ScanStutters ==
    ASSUME CollectKept, Scans, Views, UNCHANGED <<collectorVars>>
    PROVE  CollectKept' /\ Scans' /\ Views'
<1>1. UNCHANGED <<raw, ledger, orphans, markers, checkpoints, sealed, plan, pc, local, supervisor, outcome, faults>>
  BY DEF collectorVars, durable, collection
<1>2. CollectKept'
  <2>1. \A q \in Collectors : Running(q)' => Running(q)
    BY <1>1 DEF Running
  <2> QED BY <1>1, <2>1, ControlOnly, ControlFrame DEF CollectKept, CollectorsTypes
<1> QED BY <1>1, <1>2, ScanQuiet

\* However processes stop, fail, go with the machine and are taken over from,
\* each stands where its checkpoints and its memory say, has what it passed or
\* found its bucket full, and goes by totals the ledger once had (row_offset,
\* assigned_source_shard, live_total, commit_worker_checkpoint).
THEOREM ScanInvariantHolds == IntakeSpec => []ScanInvariant
<1>1. IntakeInit => ScanInvariant
  <2>1. CollectorsInit => \A p \in Collectors : checkpoints[p] = <<>>
    BY DEF CollectorsInit
  <2> QED BY <2>1, CollectorsStart, ScanStarts DEF IntakeInit, ScanInvariant
<1>2. ScanInvariant /\ [IntakeNext]_intakeVars => ScanInvariant'
  <2> SUFFICES ASSUME ScanInvariant, [IntakeNext]_intakeVars PROVE ScanInvariant'
    OBVIOUS
  <2>1. CASE Collect
    BY <2>1, CollectorsScan DEF Collect, ScanInvariant
  <2>2. CASE Audit
    BY <2>2 DEF Audit, ScanInvariant, collectorVars, durable
  <2>3. CASE Grow
    BY <2>3 DEF Grow, ScanInvariant
  <2>4. CASE UNCHANGED intakeVars
    <3>1. UNCHANGED collectorVars /\ UNCHANGED <<checkpoints, scene>>
      BY <2>4 DEF intakeVars, collectorVars, durable
    <3> QED BY <3>1, ScanStutters DEF ScanInvariant
  <2> QED BY <2>1, <2>2, <2>3, <2>4 DEF IntakeNext
<1> QED BY <1>1, <1>2, PTL DEF IntakeSpec

\* Checkpointed archives are one scan of the source, nothing twice, nothing
\* skipped below its target, no name used twice; and without the last checkpoint
\* of each process every bucket is below its target (worker_archive_index,
\* create_or_load_plan, quota_status).
THEOREM ScanAlwaysWithinQuota == IntakeSpec => []ScanWithinQuota
<1>1. ScanInvariant => ScanWithinQuota
  BY TheScan, TheOvershoot, NothingScanned DEF ScanInvariant, ScanWithinQuota
<1> QED BY <1>1, ScanInvariantHolds, PTL

-----------------------------------------------------------------------------
(* Nothing is pending where a source may be closed.                        *)
Settled ==
    /\ \A p \in Collectors : Filling(p) \/ pc[p] = "mark" => Pending(p) = {}
    /\ plan # None => Pending("stack") = {}
    /\ supervisor \in {"running", "stopping", "mark"} =>
          \A w \in WorkerSet : pc[w] # "publish" => Pending(w) = {}
    /\ \A p \in Collectors : pc[p] = "mark" =>
          local[p].totals = quota_status /\ Reached(quota_status, SourceOf(p))
    /\ supervisor = "mark" => Reached(quota_status, "stack")
MarkedOver ==
    \A s \in Sources : markers[s] # None =>
       /\ outcome[s] = "complete" /\ (s = "stack" => supervisor = "off")
       /\ \A p \in Collectors : SourceOf(p) = s => pc[p] = "off" /\ Pending(p) = {}

-----------------------------------------------------------------------------
\* What a step of one process leaves alone, and when it may be taken.
LEMMA ProcessMoves ==
    ASSUME CollectKept, NEW p \in Collectors, Launch(p) \/ Work(p)
    PROVE  /\ raw \subseteq raw' /\ ledger \subseteq ledger' /\ plan' = plan /\ supervisor' = supervisor
           /\ \A q \in Collectors \ {p} : pc'[q] = pc[q] /\ checkpoints'[q] = checkpoints[q]
           /\ \A s \in Sources \ {SourceOf(p)} : outcome'[s] = outcome[s]
           /\ \/ UNCHANGED <<pc, checkpoints, outcome>>
              \/ pc[p] # "off"
              \/ outcome[SourceOf(p)] \notin Over /\ UNCHANGED <<checkpoints, outcome>>
           /\ pc'[p] # "publish" => checkpoints'[p] = checkpoints[p]
           /\ pc'[p] # "publish" /\ pc[p] = "publish" => Pending(p) = {}
           /\ Filling(p)' \/ pc'[p] = "mark" => Filling(p) \/ pc[p] = "mark" \/ Pending(p) = {}
<1>1. /\ pc \in [Collectors -> Places] /\ checkpoints \in [Collectors -> Seq(Checkpoint)]
      /\ outcome \in [Sources -> Outcomes] /\ p \in Collectors
  BY DEF CollectKept, CollectorsTypes
<1>2. CASE Launch(p)
  <2>1. /\ pc' = [pc EXCEPT ![p] = "recover"] /\ outcome[SourceOf(p)] \notin Over
        /\ UNCHANGED <<raw, ledger, plan, checkpoints, supervisor, outcome>> /\ pc[p] = "off"
    BY <1>2 DEF Launch, Goto, Quiet, durable, collection
  <2>2. pc'[p] = "recover" /\ \A q \in Collectors \ {p} : pc'[q] = pc[q]
    BY <1>1, <2>1
  <2> QED BY <2>1, <2>2 DEF Filling
<1>3. CASE Recover(p)
  BY <1>1, <1>3, RecoverKeeps DEF Recover, Filling
<1>4. CASE Begin(p)
  BY <1>1, <1>4 DEF Begin, Leave, Goto, durable, collection, Filling
<1>5. CASE TakeRow(p)
  <2>1. pc[p] = "rows" /\ UNCHANGED <<durable, supervisor>>
    BY <1>5, TakeRowCases
  <2>2. \/ Leave(p, "off", "stopped")
        \/ outcome' = outcome /\ \E place \in {"commit", "rows"} : pc' = [pc EXCEPT ![p] = place]
    BY <1>5, TakeRowCases
  <2> QED BY <1>1, <2>1, <2>2 DEF Leave, Goto, durable, collection, Filling
<1>6. CASE EndShard(p) \/ Exhausted(p) \/ Seal(p)
  BY <1>1, <1>6 DEF EndShard, Exhausted, Seal, Leave, Goto, durable, collection, Filling
<1>7. CASE WriteCheckpoint(p)
  BY <1>1, <1>7 DEF WriteCheckpoint, Goto, Filling
<1>8. CASE Committed(p)
  BY <1>1, <1>8 DEF Committed, Leave, Goto, durable, collection, Filling
<1>9. CASE Mark(p)
  BY <1>1, <1>9 DEF Mark, Leave, Goto, Filling
<1> QED BY <1>2, <1>3, <1>4, <1>5, <1>6, <1>7, <1>8, <1>9 DEF Work

\* While one process is about to write its marker nobody else acts, and a
\* process comes to that place with the totals it found.
LEMMA MarkAlone ==
    ASSUME CollectKept, NEW p \in Collectors, Launch(p) \/ Work(p)
    PROVE  /\ supervisor # "mark"
           /\ \A q \in Collectors : pc'[q] = "mark" =>
                 /\ q = p /\ ledger' = ledger /\ local'[q].totals = quota_status
                 /\ Reached(quota_status, SourceOf(q))
<1>1. /\ pc \in [Collectors -> Places] /\ local \in [Collectors -> LocalMemory] /\ Control
      /\ WorkerSet \subseteq Collectors
  BY DEF CollectKept, CollectorsTypes, Collectors
<1>2. pc[p] # "off" \/ Quiet \/ supervisor \in {"legacy", "workers"}
  <2>1. CASE Launch(p)
    BY <2>1 DEF Launch
  <2>2. CASE Recover(p)
    BY <2>2 DEF Recover, Recovering
  <2>3. CASE TakeRow(p)
    BY <2>3 DEF TakeRow
  <2>4. CASE Begin(p) \/ EndShard(p) \/ Exhausted(p) \/ Seal(p) \/ WriteCheckpoint(p) \/ Committed(p) \/ Mark(p)
    BY <2>4 DEF Begin, EndShard, Exhausted, Seal, WriteCheckpoint, Committed, Mark
  <2> QED BY <2>1, <2>2, <2>3, <2>4 DEF Work
<1>3. supervisor # "mark"
  BY <1>1, <1>2 DEF Control, Quiet
<1>4. ASSUME NEW q \in Collectors, pc[q] = "mark" PROVE q = p
  BY <1>1, <1>2, <1>4 DEF Control, Quiet
<1>5. ASSUME pc[p] = "mark" PROVE pc'[p] = "off"
  <2>1. p \notin WorkerSet /\ supervisor = "off"
    BY <1>1, <1>5 DEF Control
  <2>2. Mark(p)
    BY <1>5, <2>1 DEF Launch, Quiet, Work, Recover, Recovering, Begin, TakeRow, EndShard, Exhausted, Seal,
                      WriteCheckpoint, Committed
  <2> QED BY <1>1, <2>2 DEF Mark, Leave, Goto
<1>6. ASSUME pc'[p] = "mark", pc[p] # "mark"
      PROVE  ledger' = ledger /\ local'[p].totals = quota_status /\ Reached(quota_status, SourceOf(p))
  <2>1. ~Launch(p) /\ ~Recover(p) /\ ~Begin(p) /\ ~EndShard(p) /\ ~Exhausted(p) /\ ~Seal(p)
        /\ ~WriteCheckpoint(p) /\ ~Mark(p)
    BY <1>1, <1>6 DEF Launch, Recover, Begin, EndShard, Exhausted, Seal, WriteCheckpoint, Mark, Leave, Goto
  <2>2. ~TakeRow(p)
    <3>1. TakeRow(p) => Leave(p, "off", "stopped") \/ \E place \in {"commit", "rows"} :
                                                         pc' = [pc EXCEPT ![p] = place]
      BY TakeRowCases
    <3> QED BY <1>1, <1>6, <3>1 DEF Leave, Goto
  <2>3. Committed(p)
    BY <2>1, <2>2 DEF Work
  <2>4. /\ UNCHANGED durable
        /\ \/ pc' = [pc EXCEPT ![p] = "rows"]
           \/ /\ Reached(quota_status, SourceOf(p))
              /\ local' = [local EXCEPT ![p].totals = quota_status, ![p].since = 0]
           \/ pc' = [pc EXCEPT ![p] = "off"]
    BY <2>3 DEF Committed, Leave, Goto
  <2>5. Reached(quota_status, SourceOf(p)) /\ local'[p] = [local[p] EXCEPT !.totals = quota_status, !.since = 0]
    BY <1>1, <1>6, <2>4
  <2>6. local[p] \in LocalMemory
    BY <1>1
  <2>7. local'[p].totals = quota_status
    BY <2>5, <2>6 DEF LocalMemory
  <2> QED BY <2>4, <2>5, <2>7 DEF durable, collection
<1>7. \A q \in Collectors \ {p} : pc'[q] = pc[q]
  BY ProcessMoves
<1> QED BY <1>3, <1>4, <1>5, <1>6, <1>7

\* What is in place stays in place.
LEMMA PendingShrinks ==
    ASSUME NEW p, raw \subseteq raw', ledger \subseteq ledger', checkpoints'[p] = checkpoints[p], Pending(p) = {}
    PROVE  Pending(p)' = {}
<1>1. Checkpointed(p)' = Checkpointed(p)
  BY DEF Checkpointed
<1> QED BY <1>1 DEF Pending

\* A step keeps what is settled if checkpoints are written only by processes on
\* their way to publish, and nobody goes on before all of his is in place.
LEMMA SettledStays ==
    ASSUME CollectKept, Settled, raw \subseteq raw', ledger \subseteq ledger',
           \A p \in Collectors : Filling(p)' \/ pc'[p] = "mark" =>
              checkpoints'[p] = checkpoints[p] /\ (Filling(p) \/ pc[p] = "mark" \/ Pending(p) = {}),
           checkpoints'["stack"] = checkpoints["stack"] \/ plan' = None,
           plan' = plan \/ Pending("stack") = {},
           supervisor' \in {"running", "stopping", "mark"} => \A w \in WorkerSet : pc'[w] # "publish" =>
              /\ checkpoints'[w] = checkpoints[w]
              /\ (supervisor \in {"running", "stopping", "mark"} /\ pc[w] # "publish") \/ Pending(w) = {},
           \A p \in Collectors : pc'[p] = "mark" =>
              ledger' = ledger /\ local'[p].totals = quota_status /\ Reached(quota_status, SourceOf(p)),
           supervisor' = "mark" => ledger' = ledger /\ Reached(quota_status, "stack")
    PROVE  Settled'
<1>1. ASSUME NEW p \in Collectors, Filling(p)' \/ pc'[p] = "mark" PROVE Pending(p)' = {}
  BY <1>1, PendingShrinks DEF Settled
<1>2. plan' # None => Pending("stack")' = {}
  BY PendingShrinks DEF Settled
<1>3. ASSUME supervisor' \in {"running", "stopping", "mark"}, NEW w \in WorkerSet, pc'[w] # "publish"
      PROVE  Pending(w)' = {}
  BY <1>3, PendingShrinks DEF Settled
<1>4. ledger' = ledger => quota_status' = quota_status
  BY DEF quota_status, Tokens
<1>5. \A p \in Collectors : pc'[p] = "mark" =>
         local'[p].totals = quota_status' /\ Reached(quota_status', SourceOf(p))
  BY <1>4
<1>6. supervisor' = "mark" => Reached(quota_status', "stack")
  BY <1>4
<1> QED BY <1>1, <1>2, <1>3, <1>5, <1>6 DEF Settled

\* A source that has its marker is left alone.
LEMMA MarkedStays ==
    ASSUME MarkedOver, raw \subseteq raw', ledger \subseteq ledger', markers' = markers,
           \A s \in Sources : markers[s] # None =>
              /\ outcome'[s] = outcome[s] /\ (s = "stack" => supervisor' = "off")
              /\ \A p \in Collectors : SourceOf(p) = s =>
                    pc'[p] = "off" /\ checkpoints'[p] = checkpoints[p]
    PROVE  MarkedOver'
<1>1. ASSUME NEW s \in Sources, markers'[s] # None
      PROVE  /\ outcome'[s] = "complete" /\ (s = "stack" => supervisor' = "off")
             /\ \A p \in Collectors : SourceOf(p) = s => pc'[p] = "off" /\ Pending(p)' = {}
  <2>1. /\ outcome[s] = "complete" /\ outcome'[s] = outcome[s] /\ (s = "stack" => supervisor' = "off")
        /\ \A p \in Collectors : SourceOf(p) = s =>
              pc'[p] = "off" /\ checkpoints'[p] = checkpoints[p] /\ Pending(p) = {}
    BY <1>1 DEF MarkedOver
  <2> QED BY <2>1, PendingShrinks
<1> QED BY <1>1 DEF MarkedOver

\* A process writes no marker: what is settled stays so.
LEMMA ProcessSettled ==
    ASSUME CollectKept, Settled, MarkedOver, NEW p \in Collectors, Launch(p) \/ Work(p)
    PROVE  Settled' /\ (~Mark(p) => MarkedOver')
<1>1. /\ raw \subseteq raw' /\ ledger \subseteq ledger' /\ plan' = plan /\ supervisor' = supervisor
      /\ \A q \in Collectors \ {p} : pc'[q] = pc[q] /\ checkpoints'[q] = checkpoints[q]
      /\ \A s \in Sources \ {SourceOf(p)} : outcome'[s] = outcome[s]
      /\ \/ UNCHANGED <<pc, checkpoints, outcome>>
         \/ pc[p] # "off"
         \/ outcome[SourceOf(p)] \notin Over /\ UNCHANGED <<checkpoints, outcome>>
      /\ pc'[p] # "publish" => checkpoints'[p] = checkpoints[p]
      /\ pc'[p] # "publish" /\ pc[p] = "publish" => Pending(p) = {}
      /\ Filling(p)' \/ pc'[p] = "mark" => Filling(p) \/ pc[p] = "mark" \/ Pending(p) = {}
  BY ProcessMoves
<1>2. /\ supervisor # "mark"
      /\ \A q \in Collectors : pc'[q] = "mark" =>
            /\ q = p /\ ledger' = ledger /\ local'[q].totals = quota_status
            /\ Reached(quota_status, SourceOf(q))
  BY MarkAlone
<1>3. Control /\ WorkerSet \subseteq Collectors /\ "stack" \in Collectors
  BY DEF CollectKept, Collectors
<1>4. \A q \in Collectors : Filling(q)' \/ pc'[q] = "mark" =>
              checkpoints'[q] = checkpoints[q] /\ (Filling(q) \/ pc[q] = "mark" \/ Pending(q) = {})
  <2>1. ASSUME NEW q \in Collectors, Filling(q)' \/ pc'[q] = "mark"
        PROVE  checkpoints'[q] = checkpoints[q] /\ (Filling(q) \/ pc[q] = "mark" \/ Pending(q) = {})
    <3>1. pc'[q] # "publish"
      BY <2>1 DEF Filling
    <3>2. q # p => (Filling(q)' <=> Filling(q)) /\ pc'[q] = pc[q]
      BY <1>1 DEF Filling
    <3> QED BY <1>1, <2>1, <3>1, <3>2
  <2> QED BY <2>1
<1>5. checkpoints'["stack"] = checkpoints["stack"] \/ plan' = None
  BY <1>1, <1>3 DEF Control, Over
<1>6. ASSUME supervisor' \in {"running", "stopping", "mark"}, NEW w \in WorkerSet, pc'[w] # "publish"
      PROVE  /\ checkpoints'[w] = checkpoints[w]
             /\ (supervisor \in {"running", "stopping", "mark"} /\ pc[w] # "publish") \/ Pending(w) = {}
  BY <1>1, <1>3, <1>6
<1>7. Settled'
  BY <1>1, <1>2, <1>4, <1>5, <1>6, SettledStays
<1>8. ASSUME ~Mark(p) PROVE MarkedOver'
  <2>1. markers' = markers
    <3>1. TakeRow(p) => markers' = markers
      BY TakeRowMoves
    <3> QED BY <1>8, <3>1 DEF Work, Launch, Recover, Begin, EndShard, Exhausted, Seal, WriteCheckpoint, Committed,
                              durable, collection
  <2>2. ASSUME NEW s \in Sources, markers[s] # None
        PROVE  /\ outcome'[s] = outcome[s] /\ (s = "stack" => supervisor' = "off")
               /\ \A q \in Collectors : SourceOf(q) = s => pc'[q] = "off" /\ checkpoints'[q] = checkpoints[q]
    <3>1. /\ outcome[s] = "complete" /\ (s = "stack" => supervisor = "off")
          /\ \A q \in Collectors : SourceOf(q) = s => pc[q] = "off"
      BY <2>2 DEF MarkedOver
    <3>2. SourceOf(p) = s => UNCHANGED <<pc, checkpoints, outcome>>
      BY <1>1, <3>1 DEF Over
    <3>3. CASE SourceOf(p) = s
      BY <1>1, <3>1, <3>2, <3>3
    <3>4. CASE SourceOf(p) # s
      BY <1>1, <3>1, <3>4
    <3> QED BY <3>3, <3>4
  <2> QED BY <1>1, <2>1, <2>2, MarkedStays
<1> QED BY <1>7, <1>8

\* Where a marker is written, everything of the source is in place.
LEMMA MarkCloses ==
    ASSUME CollectKept, Settled, MarkedOver, NEW p \in Collectors, Mark(p)
    PROVE  MarkedOver' /\ Close(SourceOf(p))
<1>1. /\ Control /\ Durable /\ markers' = [markers EXCEPT ![SourceOf(p)] =
                      [b \in BucketsOf(SourceOf(p)) |-> local[p].totals[b]]]
      /\ pc' = [pc EXCEPT ![p] = "off"] /\ pc[p] = "mark" /\ pc \in [Collectors -> Places]
      /\ UNCHANGED <<raw, ledger, orphans, checkpoints, plan, supervisor>>
      /\ \A q \in Collectors : Numbering(q)
  BY DEF Mark, Leave, Goto, CollectKept, CollectorsTypes
<1>2. p \notin WorkerSet /\ supervisor = "off" /\ \A w \in WorkerSet : pc[w] = "off"
  BY <1>1 DEF Control
<1>3. SourceOf(p) \in Sources /\ "stack" \in Sources /\ "stack" \notin Texts
  BY RowsAssumption DEF SourceOf, Sources, Collectors
<1>4. outcome' = [outcome EXCEPT ![SourceOf(p)] = "complete"] /\ outcome \in [Sources -> Outcomes]
  BY <1>2 DEF Mark, Leave, CollectKept, CollectorsTypes
<1>5. ASSUME NEW q \in Collectors, SourceOf(q) = SourceOf(p) PROVE pc'[q] = "off" /\ Pending(q) = {}
  <2>1. CASE q = p
    BY <1>1, <2>1 DEF Settled
  <2>2. CASE q # p
    <3>1. p = "stack" /\ q \in WorkerSet
      BY <1>2, <1>3, <1>5, <2>2 DEF SourceOf, Collectors
    <3>2. plan = None /\ checkpoints[q] = <<>> /\ pc[q] = "off"
      BY <1>1, <1>2, <3>1 DEF Control
    <3>3. Checkpointed(q) = {}
      BY <3>2 DEF Checkpointed, ToSet
    <3> QED BY <1>1, <2>2, <3>2, <3>3 DEF Pending
  <2> QED BY <2>1, <2>2
<1>6. \A q \in Collectors : Pending(q)' = Pending(q)
  BY <1>1 DEF Pending, Checkpointed
<1>7. MarkedOver'
  <2>1. ASSUME NEW s \in Sources, markers'[s] # None
        PROVE  /\ outcome'[s] = "complete" /\ (s = "stack" => supervisor' = "off")
               /\ \A q \in Collectors : SourceOf(q) = s => pc'[q] = "off" /\ Pending(q)' = {}
    <3>1. CASE s = SourceOf(p)
      BY <1>1, <1>2, <1>4, <1>5, <1>6, <3>1
    <3>2. CASE s # SourceOf(p)
      <4>1. markers[s] # None
        BY <1>1, <2>1, <3>2
      <4> QED BY <1>1, <1>4, <1>6, <3>2, <4>1 DEF MarkedOver
    <3> QED BY <3>1, <3>2
  <2> QED BY <2>1 DEF MarkedOver
<1>8. markers[SourceOf(p)] = None
  BY <1>1, <1>3 DEF MarkedOver
<1>9. local[p].totals = quota_status /\ Reached(quota_status, SourceOf(p))
  BY <1>1 DEF Settled
<1>10. \A a \in raw \ ledger : a.bucket \notin BucketsOf(SourceOf(p))
  <2>1. ASSUME NEW a \in raw \ ledger, a.bucket \in BucketsOf(SourceOf(p)) PROVE FALSE
    <3>1. PICK q \in Collectors : a \in Checkpointed(q)
      BY <1>1 DEF Durable, AllCheckpointed
    <3>2. a \in Pending(q) /\ a.bucket \in BucketsOf(SourceOf(q))
      BY <1>1, <3>1 DEF Pending, Numbering, Held
    <3> QED BY <1>5, <2>1, <3>2, SourcesApart
  <2> QED BY <2>1
<1> QED BY <1>1, <1>7, <1>8, <1>9, <1>10 DEF Close

\* The supervisor takes over, starts its workers and waits for them once
\* everything listed in a checkpoint is in place.
LEMMA SupervisionSettled ==
    ASSUME CollectKept, Settled, MarkedOver,
           LaunchParallel \/ create_or_load_plan \/ StartWorkers \/ Supervise \/ Join \/ MoveOrphans
              \/ KillCollectors \/ \E w \in WorkerSet : WorkerFails(w)
    PROVE  Settled' /\ MarkedOver' /\ UNCHANGED <<raw, ledger, markers>>
<1>1. /\ Control /\ pc \in [Collectors -> Places] /\ local \in [Collectors -> LocalMemory]
      /\ outcome \in [Sources -> Outcomes] /\ WorkerSet \subseteq Collectors
      /\ \A w \in WorkerSet : SourceOf(w) = "stack"
  BY WorkerIds DEF CollectKept, CollectorsTypes, Collectors, SourceOf
<1>2. UNCHANGED <<raw, ledger, markers, checkpoints>>
  BY DEF LaunchParallel, create_or_load_plan, StartWorkers, Supervise, Join, MoveOrphans, KillCollectors,
         WorkerFails, durable, collection
<1>3. CASE LaunchParallel
  <2>1. /\ UNCHANGED <<pc, local, outcome, plan>> /\ supervisor' = "legacy" /\ outcome["stack"] \notin Over
        /\ \A p \in Collectors : pc[p] = "off"
    BY <1>3 DEF LaunchParallel, Quiet, durable
  <2>2. \A p \in Collectors : ~Filling(p)' /\ pc'[p] # "mark"
    BY <2>1 DEF Filling
  <2>3. Settled'
    BY <1>2, <2>1, <2>2, SettledStays
  <2>4. \A s \in Sources : markers[s] # None => s # "stack" /\ \A p \in Collectors : SourceOf(p) = s => pc[p] = "off"
    BY <2>1 DEF MarkedOver, Over
  <2> QED BY <1>2, <2>1, <2>3, <2>4, MarkedStays
<1>4. CASE create_or_load_plan
  <2>1. /\ UNCHANGED <<pc, local>> /\ supervisor = "legacy" /\ supervisor' \in {"workers", "off"}
        /\ Pending("stack") = {}
        /\ outcome' = outcome \/ outcome' = [outcome EXCEPT !["stack"] = "refused"]
    BY <1>4 DEF create_or_load_plan
  <2>2. \A p \in Collectors : pc[p] = "off"
    BY <1>1, <2>1 DEF Control
  <2>3. \A p \in Collectors : ~Filling(p)' /\ pc'[p] # "mark"
    BY <2>1, <2>2 DEF Filling
  <2>4. Settled'
    BY <1>2, <2>1, <2>3, SettledStays
  <2>5. \A s \in Sources : markers[s] # None => s # "stack" /\ outcome'[s] = outcome[s]
    BY <1>1, <2>1 DEF MarkedOver
  <2> QED BY <1>2, <2>1, <2>2, <2>4, <2>5, MarkedStays
<1>5. CASE StartWorkers
  <2>1. /\ plan' = plan /\ local' = local /\ supervisor = "workers" /\ supervisor' \in {"running", "off"}
        /\ \A w \in WorkerSet : Pending(w) = {}
        /\ outcome' = outcome \/ outcome' = [outcome EXCEPT !["stack"] = "full"]
        /\ \A p \in Collectors : pc'[p] = pc[p] \/ (p \in WorkerSet /\ pc'[p] = "recover")
    BY <1>1, <1>5 DEF StartWorkers, durable
  <2>2. \A p \in Collectors : pc[p] = "off"
    BY <1>1, <2>1 DEF Control
  <2>3. \A p \in Collectors : ~Filling(p)' /\ pc'[p] # "mark"
    BY <2>1, <2>2 DEF Filling
  <2>4. Settled'
    BY <1>2, <2>1, <2>3, SettledStays
  <2>5. \A s \in Sources : markers[s] # None => s # "stack" /\ outcome'[s] = outcome[s]
    BY <1>1, <2>1 DEF MarkedOver
  <2> QED BY <1>1, <1>2, <2>1, <2>2, <2>4, <2>5, MarkedStays
<1>6. CASE Supervise
  <2>1. UNCHANGED <<plan, pc, outcome>> /\ supervisor = "running" /\ supervisor' = "stopping"
    BY <1>6 DEF Supervise, durable
  <2>2. \A p \in Collectors : (Filling(p)' <=> Filling(p)) /\ pc[p] # "mark"
    BY <1>1, <2>1 DEF Control, Filling
  <2>3. Settled'
    BY <1>2, <2>1, <2>2, SettledStays
  <2>4. \A s \in Sources : markers[s] # None => s # "stack" /\ \A p \in Collectors : SourceOf(p) = s => pc[p] = "off"
    BY <2>1 DEF MarkedOver
  <2> QED BY <1>2, <2>1, <2>3, <2>4, MarkedStays
<1>7. CASE Join
  <2>1. /\ plan' = plan /\ supervisor \in {"running", "stopping"} /\ supervisor' \in {"mark", "off"}
        /\ \A w \in WorkerSet : pc[w] \in {"off", "failed"}
        /\ outcome' = outcome \/ outcome' = [outcome EXCEPT !["stack"] = "failed"]
        /\ supervisor' = "mark" => Reached(quota_status, "stack")
    BY <1>7 DEF Join, Alive, durable
  <2>2. \A p \in Collectors : pc'[p] = "off"
    BY <1>1, <1>7, <2>1 DEF Join, Control
  <2>3. \A p \in Collectors : ~Filling(p)' /\ pc'[p] # "mark"
    BY <2>2 DEF Filling
  <2>4. Settled'
    BY <1>2, <2>1, <2>3, SettledStays
  <2>5. \A s \in Sources : markers[s] # None => s # "stack" /\ outcome'[s] = outcome[s]
    BY <1>1, <2>1 DEF MarkedOver
  <2> QED BY <1>2, <2>2, <2>4, <2>5, MarkedStays
<1>8. CASE MoveOrphans
  <2>1. UNCHANGED <<plan, pc, local, supervisor, outcome>> /\ supervisor = "off"
        /\ \A p \in Collectors : pc[p] = "off"
    BY <1>8 DEF MoveOrphans, Quiet
  <2>2. \A p \in Collectors : ~Filling(p)' /\ pc'[p] # "mark"
    BY <2>1 DEF Filling
  <2>3. Settled'
    BY <1>2, <2>1, <2>2, SettledStays
  <2> QED BY <1>2, <2>1, <2>3, MarkedStays
<1>9. CASE KillCollectors
  <2>1. UNCHANGED <<plan, outcome>> /\ supervisor' = "off" /\ \A p \in Collectors : pc'[p] = "off"
    BY <1>9 DEF KillCollectors
  <2>2. \A p \in Collectors : ~Filling(p)' /\ pc'[p] # "mark"
    BY <2>1 DEF Filling
  <2>3. Settled'
    BY <1>2, <2>1, <2>2, SettledStays
  <2> QED BY <1>2, <2>1, <2>3, MarkedStays
<1>10. ASSUME NEW w \in WorkerSet, WorkerFails(w) PROVE Settled' /\ MarkedOver'
  <2>1. /\ UNCHANGED <<plan, supervisor, outcome>> /\ pc[w] = "rows" /\ pc' = [pc EXCEPT ![w] = "failed"]
    BY <1>10 DEF WorkerFails, Goto
  <2>2. pc'[w] = "failed" /\ (\A p \in Collectors \ {w} : pc'[p] = pc[p]) /\ supervisor \in {"running", "stopping"}
    BY <1>1, <2>1 DEF Control
  <2>3. \A p \in Collectors : (Filling(p)' => Filling(p)) /\ pc'[p] # "mark"
    BY <1>1, <2>2 DEF Control, Filling
  <2>4. Settled'
    BY <1>2, <2>1, <2>2, <2>3, SettledStays
  <2>5. \A s \in Sources : markers[s] # None => s # "stack" /\ \A p \in Collectors : SourceOf(p) = s => pc[p] = "off"
    BY <2>2 DEF MarkedOver
  <2> QED BY <1>1, <1>2, <2>1, <2>2, <2>4, <2>5, MarkedStays
<1> QED BY <1>2, <1>3, <1>4, <1>5, <1>6, <1>7, <1>8, <1>9, <1>10

\* The parallel collector closes its source only with everything in place.
LEMMA MarkParallelCloses ==
    ASSUME CollectKept, Settled, MarkedOver, MarkParallel
    PROVE  Settled' /\ MarkedOver' /\ Close("stack")
<1>1. /\ Control /\ Durable /\ supervisor = "mark" /\ supervisor' = "off"
      /\ markers' = [markers EXCEPT !["stack"] = [b \in Code |-> quota_status[b]]]
      /\ UNCHANGED <<raw, ledger, orphans, checkpoints, plan, pc, local>>
      /\ outcome' = [outcome EXCEPT !["stack"] = "complete"] /\ outcome \in [Sources -> Outcomes]
      /\ \A q \in Collectors : Numbering(q)
  BY DEF MarkParallel, CollectKept, CollectorsTypes
<1>2. "stack" \in Sources /\ BucketsOf("stack") = Code /\ SourceOf("stack") = "stack"
      /\ "stack" \notin Texts /\ "stack" \in Collectors
  BY RowsAssumption DEF Sources, BucketsOf, SourceOf, Collectors
<1>3. \A p \in Collectors : pc[p] = "off"
  BY <1>1 DEF Control
<1>4. \A p \in Collectors : SourceOf(p) = "stack" => Pending(p) = {}
  <2>1. plan # None
    BY <1>1 DEF Control
  <2>2. ASSUME NEW p \in Collectors, SourceOf(p) = "stack" PROVE p = "stack" \/ p \in WorkerSet
    BY <1>2, <2>2 DEF SourceOf, Collectors
  <2>3. \A w \in WorkerSet : w \in Collectors
    BY DEF Collectors
  <2> QED BY <1>1, <1>3, <2>1, <2>2, <2>3 DEF Settled
<1>5. \A p \in Collectors : Pending(p)' = Pending(p)
  BY <1>1 DEF Pending, Checkpointed
<1>6. Settled'
  <2>1. \A p \in Collectors : ~Filling(p)' /\ pc'[p] # "mark"
    BY <1>1, <1>3 DEF Filling
  <2> QED BY <1>1, <2>1, SettledStays
<1>7. MarkedOver'
  <2>1. ASSUME NEW s \in Sources, markers'[s] # None
        PROVE  /\ outcome'[s] = "complete" /\ (s = "stack" => supervisor' = "off")
               /\ \A q \in Collectors : SourceOf(q) = s => pc'[q] = "off" /\ Pending(q)' = {}
    <3>1. CASE s = "stack"
      BY <1>1, <1>3, <1>4, <1>5, <3>1
    <3>2. CASE s # "stack"
      <4>1. markers[s] # None
        BY <1>1, <2>1, <3>2
      <4> QED BY <1>1, <1>5, <3>2, <4>1 DEF MarkedOver
    <3> QED BY <3>1, <3>2
  <2> QED BY <2>1 DEF MarkedOver
<1>8. markers["stack"] = None
  BY <1>1, <1>2 DEF MarkedOver
<1>9. Reached(quota_status, "stack")
  BY <1>1 DEF Settled
<1>10. \A a \in raw \ ledger : a.bucket \notin BucketsOf("stack")
  <2>1. ASSUME NEW a \in raw \ ledger, a.bucket \in BucketsOf("stack") PROVE FALSE
    <3>1. PICK q \in Collectors : a \in Checkpointed(q)
      BY <1>1 DEF Durable, AllCheckpointed
    <3>2. a \in Pending(q) /\ a.bucket \in BucketsOf(SourceOf(q))
      BY <1>1, <3>1 DEF Pending, Numbering, Held
    <3> QED BY <1>2, <1>4, <2>1, <3>2, SourcesApart
  <2> QED BY <2>1
<1> QED BY <1>1, <1>2, <1>6, <1>7, <1>8, <1>9, <1>10 DEF Close

\* Recovery finalizes or records an archive of a source that is still open.
LEMMA RecoverPromised ==
    ASSUME CollectKept, Scans, MarkedOver, NEW p \in Collectors, Recover(p)
    PROVE  CollectionStep(raw', Buckets)
<1>1. /\ Durable /\ CollectorsTypes /\ Control /\ PlanExact /\ (\A q \in Collectors : Scan(q))
      /\ UNCHANGED <<orphans, markers>> /\ \A q \in Collectors : Numbering(q)
  BY DEF Recover, CollectKept, Scans
<1>2. PICK a \in Pending(p) :
         \/ raw' = raw \cup {a} /\ a \notin raw /\ sealed' = sealed \ {a} /\ ledger' = ledger
            /\ \A f \in raw : Name(f) # Name(a)
         \/ ledger' = ledger \cup {a} /\ a \in raw /\ a \notin ledger /\ raw' = raw /\ sealed' = sealed
  BY RecoverKeeps
<1>3. a \in Checkpointed(p) /\ a.bucket \in BucketsOf(SourceOf(p)) /\ a.rows # {} /\ Pending(p) # {}
  BY <1>1 DEF Pending, Numbering, Held
<1>4. ~Closed(a.bucket)
  <2>1. ASSUME NEW s \in Sources, a.bucket \in BucketsOf(s), markers[s] # None PROVE FALSE
    <3>1. s \in {"stack"} \cup Texts /\ "stack" \notin Texts /\ Texts \cap Code = {}
      BY RowsAssumption DEF Sources
    <3>2. s = SourceOf(p)
      BY <1>3, <2>1, <3>1, CollectorsAssumption DEF SourceOf, BucketsOf
    <3> QED BY <1>3, <2>1, <3>2 DEF MarkedOver
  <2> QED BY <2>1 DEF Closed
<1>5. ASSUME NEW f \in raw, f # a PROVE f.rows \cap a.rows = {}
  <2>1. PICK q \in Collectors : f \in Checkpointed(q)
    BY <1>1 DEF Durable, AllCheckpointed
  <2> QED BY <1>1, <1>3, <1>5, <2>1, RowsApart
<1>6. CASE raw' = raw \cup {a} /\ a \notin raw /\ ledger' = ledger /\ \A f \in raw : Name(f) # Name(a)
  <2>1. \A f \in raw : Name(f) # Name(a) /\ f.rows \cap a.rows = {}
    BY <1>5, <1>6
  <2>2. Finalize(a)
    BY <1>1, <1>3, <1>4, <1>6, <2>1 DEF Finalize
  <2> QED BY <1>6, <2>2 DEF CollectionStep
<1>7. CASE ledger' = ledger \cup {a} /\ a \in raw /\ a \notin ledger /\ raw' = raw
  <2>1. Record(a)
    BY <1>1, <1>7 DEF Record
  <2> QED BY <1>7, <2>1 DEF CollectionStep
<1> QED BY <1>2, <1>6, <1>7

\* What fails or is killed leaves pending files only in an open source.
LEMMA AbandonPromised ==
    ASSUME CollectKept, MarkedOver, NEW ps \in SUBSET Collectors, Abandoned(ps), UNCHANGED <<raw, ledger, markers>>
    PROVE  CollectionStep(raw', Buckets)
<1>1. CollectorsTypes /\ Control /\ (\A q \in Collectors : Numbering(q))
      /\ orphans' = orphans \cup {a.bucket : a \in UNION {local[p].open : p \in ps}}
  BY DEF Abandoned, CollectKept
<1>2. \A p \in ps : local[p].open \subseteq Archive
  BY <1>1 DEF CollectorsTypes, LocalMemory
<1>3. orphans' \in SUBSET Buckets
  BY <1>1, <1>2 DEF CollectorsTypes, Archive
<1>4. ASSUME NEW b \in orphans' \ orphans PROVE ~Closed(b)
  <2>1. PICK p \in ps : \E a \in local[p].open : b = a.bucket
    BY <1>1
  <2>2. b \in BucketsOf(SourceOf(p)) /\ pc[p] # "off" /\ p \in Collectors
    BY <1>1, <2>1 DEF Numbering, Held, Control
  <2>3. ASSUME NEW s \in Sources, b \in BucketsOf(s), markers[s] # None PROVE FALSE
    <3>1. s \in {"stack"} \cup Texts /\ "stack" \notin Texts /\ Texts \cap Code = {}
      BY RowsAssumption DEF Sources
    <3>2. s = SourceOf(p)
      BY <2>2, <2>3, <3>1, CollectorsAssumption DEF SourceOf, BucketsOf
    <3> QED BY <2>2, <2>3, <3>2 DEF MarkedOver
  <2> QED BY <2>3 DEF Closed
<1>5. LeavePending(orphans')
  BY <1>4 DEF LeavePending
<1> QED BY <1>3, <1>5 DEF CollectionStep

\* Every step of the collectors keeps what is settled, and is a step of the
\* collection they promise or leaves it alone.
LEMMA CollectorsPromise ==
    ASSUME CollectKept, Scans, Settled, MarkedOver, CollectorsNext
    PROVE  Settled' /\ MarkedOver' /\ (CollectionStep(raw', Buckets) \/ UNCHANGED collection)
<1>1. ASSUME NEW p \in Collectors, Launch(p) \/ Work(p), ~Mark(p)
      PROVE  Settled' /\ MarkedOver' /\ (CollectionStep(raw', Buckets) \/ UNCHANGED collection)
  <2>1. Settled' /\ MarkedOver'
    BY <1>1, ProcessSettled
  <2>2. CASE Recover(p)
    BY <2>1, <2>2, RecoverPromised
  <2>3. CASE TakeRow(p)
    BY <2>1, <2>3, TakeRowMoves DEF collection
  <2>4. CASE ~Recover(p) /\ ~TakeRow(p)
    BY <1>1, <2>1, <2>4 DEF Work, Launch, Begin, EndShard, Exhausted, Seal, WriteCheckpoint, Committed,
                            durable, collection
  <2> QED BY <2>2, <2>3, <2>4
<1>2. ASSUME NEW p \in Collectors, Mark(p)
      PROVE  Settled' /\ MarkedOver' /\ CollectionStep(raw', Buckets)
  <2>1. Settled'
    BY <1>2, ProcessSettled DEF Work
  <2>2. SourceOf(p) \in Sources
    BY DEF SourceOf, Sources, Collectors
  <2> QED BY <1>2, <2>1, <2>2, MarkCloses DEF CollectionStep
<1>3. CASE MarkParallel
  BY <1>3, MarkParallelCloses DEF CollectionStep, Sources
<1>4. CASE LaunchParallel \/ create_or_load_plan \/ StartWorkers \/ Supervise \/ Join
  BY <1>4, SupervisionSettled
     DEF LaunchParallel, create_or_load_plan, StartWorkers, Supervise, Join, durable, collection
<1>5. CASE MoveOrphans
  <2>1. LeavePending({}) /\ {} \in SUBSET Buckets
    BY <1>5 DEF MoveOrphans, LeavePending
  <2> QED BY <1>5, <2>1, SupervisionSettled DEF CollectionStep
<1>6. CASE KillCollectors
  BY <1>6, SupervisionSettled, AbandonPromised DEF KillCollectors
<1>7. ASSUME NEW w \in WorkerSet, WorkerFails(w)
      PROVE  Settled' /\ MarkedOver' /\ CollectionStep(raw', Buckets)
  <2>1. {w} \in SUBSET Collectors
    BY DEF Collectors
  <2> QED BY <1>7, <2>1, SupervisionSettled, AbandonPromised DEF WorkerFails
<1> QED BY <1>1, <1>2, <1>3, <1>4, <1>5, <1>6, <1>7 DEF CollectorsNext, Supervision, Work

\* Everything is settled before anything is collected.
LEMMA SettledStarts == CollectorsInit => Settled /\ MarkedOver
<1> SUFFICES ASSUME CollectorsInit PROVE Settled /\ MarkedOver
  OBVIOUS
<1>1. /\ plan = None /\ supervisor = "off" /\ markers = [s \in Sources |-> None]
      /\ pc = [p \in Collectors |-> "off"]
  BY DEF CollectorsInit, CollectionInit
<1>2. \A p \in Collectors : ~Filling(p) /\ pc[p] # "mark"
  BY <1>1 DEF Filling
<1>3. \A s \in Sources : markers[s] = None
  BY <1>1
<1> QED BY <1>1, <1>2, <1>3 DEF Settled, MarkedOver

\* The scan, and what is settled while the collectors run.
PromiseInvariant == ScanInvariant /\ (scene = "collect" => Settled /\ MarkedOver)

\* Refinement: every step of the collectors, through stops, failures and losses
\* of the machine,
\* is a step of the abstract collection or changes nothing a reader sees: an
\* archive is finalized once and in an open source, recorded after, and a marker
\* written over what is complete (recover_checkpoint_archive, write_record,
\* parallel_main).
THEOREM CollectionIsAsPromised == IntakeSpec => CollectionPromised
<1>1. IntakeInit => PromiseInvariant /\ CollectionInit
  <2>1. CollectorsInit => \A p \in Collectors : checkpoints[p] = <<>>
    BY DEF CollectorsInit
  <2> QED BY <2>1, CollectorsStart, ScanStarts, SettledStarts
          DEF IntakeInit, ScanInvariant, PromiseInvariant, CollectorsInit
<1>2. PromiseInvariant /\ [IntakeNext]_intakeVars =>
         PromiseInvariant' /\ [CollectionStep(raw', Buckets)]_collection
  <2> SUFFICES ASSUME PromiseInvariant, [IntakeNext]_intakeVars
               PROVE  PromiseInvariant' /\ [CollectionStep(raw', Buckets)]_collection
    OBVIOUS
  <2>1. CASE Collect
    <3>1. scene = "collect" /\ scene' = scene /\ CollectorsNext /\ CollectKept /\ Scans /\ Views
          /\ Settled /\ MarkedOver
      BY <2>1 DEF Collect, PromiseInvariant, ScanInvariant
    <3>2. CollectKept' /\ Scans' /\ Views'
      BY <3>1, CollectorsScan
    <3>3. Settled' /\ MarkedOver' /\ (CollectionStep(raw', Buckets) \/ UNCHANGED collection)
      BY <3>1, CollectorsPromise
    <3> QED BY <3>1, <3>2, <3>3 DEF PromiseInvariant, ScanInvariant
  <2>2. CASE Audit
    BY <2>2 DEF Audit, PromiseInvariant, ScanInvariant, collectorVars, durable
  <2>3. CASE Grow
    <3>1. CollectionStep(Grown, Littered) /\ scene = "preprocess" /\ UNCHANGED <<checkpoints, scene>>
          /\ Littered \subseteq Buckets
      BY <2>3, GrownAssumption DEF Grow
    <3>2. ASSUME NEW a \in Grown, Finalize(a) \/ Record(a) PROVE a \in raw'
      BY <3>2 DEF Finalize, Record
    <3>3. CollectionStep(raw', Buckets)
      BY <3>1, <3>2 DEF CollectionStep
    <3> QED BY <3>1, <3>3 DEF PromiseInvariant, ScanInvariant
  <2>4. CASE UNCHANGED intakeVars
    <3>1. /\ UNCHANGED collectorVars /\ UNCHANGED <<checkpoints, scene, raw, ledger, markers, pc, local, plan>>
          /\ UNCHANGED <<supervisor, outcome>> /\ UNCHANGED collection
      BY <2>4 DEF intakeVars, collectorVars, durable, collection
    <3>2. ScanInvariant'
      BY <3>1, ScanStutters DEF PromiseInvariant, ScanInvariant
    <3>3. Settled /\ MarkedOver => Settled' /\ MarkedOver'
      BY <3>1 DEF Settled, MarkedOver, Filling, Pending, Checkpointed, quota_status, Tokens
    <3> QED BY <3>1, <3>2, <3>3 DEF PromiseInvariant
  <2> QED BY <2>1, <2>2, <2>3, <2>4 DEF IntakeNext
<1> QED BY <1>1, <1>2, PTL DEF IntakeSpec, CollectionPromised
=============================================================================
