----------------------- MODULE EnglishNearClusters_proofs -----------------------
(***************************************************************************)
(* Proofs about EnglishNearClusters as Selection runs it, for any          *)
(* inventory, threshold, limits and batch size and any number of           *)
(* interruptions.                                                          *)
(*                                                                         *)
(* What an array of parents says of the documents is which sets leave its  *)
(* trees uncut.  find() changes none of that, union() of an edge takes     *)
(* away the sets the edge leaves; after the last edge the uncut sets are   *)
(* those that split no cluster, and a flat array is the map to the least   *)
(* document of each.  What a transaction committed and what the process    *)
(* loads again is the same array, wherever the build is interrupted.       *)
(***************************************************************************)
EXTENDS Curation_proofs

\* The operators of the standard modules are the same in both programs.
LEMMA SameOperators ==
    /\ \A S : Near!Cardinality(S) = Cardinality(S)
    /\ \A S : Near!Max(S) = Max(S) /\ Near!Min(S) = Min(S)
    /\ \A S : Near!Range(S) = Range(S) /\ Near!Last(S) = Last(S)
<1>1. \A S : Near!Cardinality(S) = Cardinality(S)
  BY DEF Near!Cardinality, Cardinality
<1>2. \A S : Near!Max(S) = Max(S) /\ Near!Min(S) = Min(S)
  BY DEF Near!Max, Max, Near!Min, Min
<1>3. \A S : Near!Range(S) = Range(S) /\ Near!Last(S) = Last(S)
  BY DEF Near!Range, Range, Near!Last, Last
<1> QED BY <1>1, <1>2, <1>3

-----------------------------------------------------------------------------
(* Trees.  An array of parents is a forest: a document stands at or after  *)
(* its parent.  A set of documents leaves the trees uncut when it holds a  *)
(* document and its parent both or neither.  What an array says of the     *)
(* documents is which sets leave its trees uncut.                          *)

Forest(A, N) == A \in [1..N -> 1..N] /\ \A d \in 1..N : A[d] <= d
Uncut(A, S) == \A d \in DOMAIN A : d \in S <=> A[d] \in S
Straight(A, N, B) == [d \in 1..N |-> IF d \in B THEN Near!RootIn(A, d) ELSE A[d]]
SameTrees(A, B) == \A S : Uncut(A, S) <=> Uncut(B, S)

Climbs(A, up, m) == \A x \in 1..m : up[x] = IF A[x] = x THEN x ELSE up[A[x]]

\* A function that follows the parents to the root exists.
LEMMA RootsExist ==
    ASSUME NEW N \in Nat, NEW A, Forest(A, N)
    PROVE  \E up \in [1..N -> 1..N] : Climbs(A, up, N)
<1> DEFINE Short == {m \in 0..N : ~ \E up \in [1..N -> 1..N] : Climbs(A, up, m)}
<1>1. CASE Short = {}
  <2>1. N \in 0..N /\ N \notin Short
    BY <1>1
  <2> QED BY <2>1
<1>2. ASSUME Short # {} PROVE FALSE
  <2>1. Short \subseteq Nat
    OBVIOUS
  <2>2. PICK m \in Short : \A n \in Short : m <= n
    BY <1>2, <2>1, LeastNumber, Zenon
  <2>3. m \in 0..N /\ ~ \E up \in [1..N -> 1..N] : Climbs(A, up, m)
    BY <2>2
  <2>14. \A n \in Short : m <= n
    BY <2>2
  <2> HIDE DEF Short
  <2>4. m # 0
    <3>1. [x \in 1..N |-> x] \in [1..N -> 1..N] /\ Climbs(A, [x \in 1..N |-> x], 0)
      BY DEF Climbs
    <3> QED BY <2>3, <3>1, Zenon
  <2>5. m - 1 \in 0..N /\ ~(m <= m - 1)
    BY <2>3, <2>4
  <2>6. m - 1 \notin Short
    BY <2>14, <2>5
  <2>7. PICK up \in [1..N -> 1..N] : Climbs(A, up, m - 1)
    BY <2>5, <2>6 DEF Short
  <2>8. m \in 1..N /\ A[m] \in 1..N /\ A[m] <= m
    BY <2>3, <2>4 DEF Forest
  <2> DEFINE more == [up EXCEPT ![m] = IF A[m] = m THEN m ELSE up[A[m]]]
  <2>9. more \in [1..N -> 1..N]
    BY <2>8
  <2>10. more[m] = IF A[m] = m THEN m ELSE up[A[m]]
    BY <2>8
  <2>11. \A x \in 1..N : x # m => more[x] = up[x]
    OBVIOUS
  <2> HIDE DEF more
  <2>12. ASSUME NEW x \in 1..m PROVE more[x] = IF A[x] = x THEN x ELSE more[A[x]]
    <3>4. m \in 1..N
      BY <2>8
    <3>5. x \in 1..N /\ (x = m \/ x \in 1..m - 1)
      BY <2>12, <3>4
    <3>1. A[x] \in 1..N /\ A[x] <= x
      BY <3>5 DEF Forest
    <3>2. CASE x = m
      <4>1. A[x] = x \/ more[A[x]] = up[A[x]]
        BY <3>1, <3>2, <2>11
      <4> QED BY <2>10, <3>2, <4>1
    <3>3. CASE x \in 1..m - 1
      <4>1. x # m /\ A[x] # m
        BY <3>1, <3>3, <3>4
      <4>2. up[x] = IF A[x] = x THEN x ELSE up[A[x]]
        BY <2>7, <3>3 DEF Climbs
      <4>3. more[x] = up[x] /\ more[A[x]] = up[A[x]]
        BY <3>1, <3>5, <4>1, <2>11
      <4> QED BY <4>2, <4>3, Zenon
    <3> QED BY <3>2, <3>3, <3>5
  <2>13. Climbs(A, more, m)
    BY <2>12 DEF Climbs
  <2> QED BY <2>3, <2>9, <2>13
<1> QED BY <1>1, <1>2

\* What find() returns: of a root itself, of another what it returns of its
\* parent.
LEMMA RootIs ==
    ASSUME NEW N \in Nat, NEW A, Forest(A, N)
    PROVE  \A d \in 1..N : /\ A[d] = d => Near!RootIn(A, d) = d
                           /\ A[d] # d => Near!RootIn(A, d) = Near!RootIn(A, A[d])
<1> DEFINE UpIs(u) == u = [x \in DOMAIN A |-> IF A[x] = x THEN x ELSE u[A[x]]]
           up == CHOOSE u : UpIs(u)
<1>1. DOMAIN A = 1..N /\ \A d \in 1..N : A[d] \in 1..N
  BY DEF Forest
<1>2. \E u : UpIs(u)
  <2>1. PICK u \in [1..N -> 1..N] : Climbs(A, u, N)
    BY RootsExist
  <2>2. u = [x \in 1..N |-> IF A[x] = x THEN x ELSE u[A[x]]]
    BY <2>1 DEF Climbs
  <2> QED BY <1>1, <2>2
<1>3. UpIs(up)
  BY <1>2, Zenon
<1>4. \A d : Near!RootIn(A, d) = up[d]
  BY DEF Near!RootIn
<1> HIDE DEF up
<1>5. \A d \in 1..N : up[d] = IF A[d] = d THEN d ELSE up[A[d]]
  BY <1>1, <1>3
<1> QED BY <1>1, <1>4, <1>5

\* The root of a document is a root at or before it, and a set that leaves the
\* trees uncut as far as the document holds both or neither.
LEMMA RootStays ==
    ASSUME NEW N \in Nat, NEW A, Forest(A, N), NEW d \in 1..N
    PROVE  LET r == Near!RootIn(A, d)
           IN  /\ r \in 1..N /\ r <= d /\ A[r] = r
               /\ \A S : (\A x \in 1..N : x <= d => (x \in S <=> A[x] \in S)) => (d \in S <=> r \in S)
<1> DEFINE r(x) == Near!RootIn(A, x)
           Fine(x) == /\ r(x) \in 1..N /\ r(x) <= x /\ A[r(x)] = r(x)
                      /\ \A S : (\A y \in 1..N : y <= x => (y \in S <=> A[y] \in S)) => (x \in S <=> r(x) \in S)
           Bad == {x \in 1..N : ~Fine(x)}
<1>1. ASSUME Bad # {} PROVE FALSE
  <2>1. PICK m \in Bad : \A n \in Bad : m <= n
    <3>1. Bad \subseteq Nat
      OBVIOUS
    <3> QED BY <1>1, <3>1, LeastNumber, Zenon
  <2>2. m \in 1..N /\ ~Fine(m) /\ \A n \in 1..N : n < m => Fine(n)
    BY <2>1
  <2>3. A[m] \in 1..N /\ A[m] <= m
    BY <2>2 DEF Forest
  <2> HIDE DEF Bad
  <2>4. CASE A[m] = m
    <3>1. r(m) = m
      BY <2>2, <2>4, RootIs
    <3> HIDE DEF r
    <3> QED BY <2>2, <2>4, <3>1
  <2>5. CASE A[m] # m
    <3>1. r(m) = r(A[m])
      BY <2>2, <2>5, RootIs
    <3>2. A[m] < m
      BY <2>2, <2>3, <2>5
    <3>3. Fine(A[m])
      BY <2>2, <2>3, <3>2
    <3> HIDE DEF r
    <3>4. r(m) \in 1..N /\ r(m) <= m /\ A[r(m)] = r(m)
      BY <2>2, <2>3, <3>1, <3>3
    <3>5. ASSUME NEW S, \A y \in 1..N : y <= m => (y \in S <=> A[y] \in S)
          PROVE  m \in S <=> r(m) \in S
      <4>1. \A y \in 1..N : y <= A[m] => y <= m
        BY <2>2, <2>3
      <4>2. A[m] \in S <=> r(A[m]) \in S
        BY <3>3, <3>5, <4>1, Zenon
      <4>3. m \in S <=> A[m] \in S
        BY <2>2, <3>5
      <4> QED BY <3>1, <4>2, <4>3
    <3>6. Fine(m)
      BY <3>4, <3>5
    <3> QED BY <2>2, <3>6
  <2> QED BY <2>4, <2>5
<1>2. Fine(d)
  BY <1>1
<1> QED BY <1>2

\* Sending some documents straight to their roots changes no tree.
LEMMA Shortened ==
    ASSUME NEW N \in Nat, NEW A, Forest(A, N), NEW B
    PROVE  LET C == Straight(A, N, B)
           IN  /\ Forest(C, N) /\ SameTrees(A, C)
               /\ \A d \in 1..N : A[d] = d => C[d] = d
<1> DEFINE r(x) == Near!RootIn(A, x)
           C == Straight(A, N, B)
<1>1. \A d \in 1..N : r(d) \in 1..N /\ r(d) <= d /\ A[r(d)] = r(d)
  BY RootStays
<1>2. \A d \in 1..N : C[d] = IF d \in B THEN r(d) ELSE A[d]
  BY DEF Straight
<1>3. \A d \in 1..N : (A[d] = d => r(d) = d) /\ (A[d] # d => r(d) = r(A[d]))
  BY RootIs
<1>4. \A d \in 1..N : A[d] \in 1..N /\ A[d] <= d
  BY DEF Forest
<1>8. DOMAIN A = 1..N /\ DOMAIN C = 1..N /\ C = [d \in 1..N |-> C[d]]
  BY DEF Forest, Straight
<1>10. ASSUME NEW S, Uncut(A, S), NEW d \in 1..N PROVE d \in S <=> r(d) \in S
  BY <1>8, <1>10, RootStays DEF Uncut
<1> HIDE DEF r, C
<1>5. Forest(C, N)
  BY <1>1, <1>2, <1>4, <1>8 DEF Forest
<1>6. ASSUME NEW S, Uncut(A, S) PROVE Uncut(C, S)
  BY <1>2, <1>6, <1>8, <1>10 DEF Uncut
<1>7. ASSUME NEW S, Uncut(C, S) PROVE Uncut(A, S)
  <2> DEFINE Fine(x) == x \in S <=> r(x) \in S
             Bad == {x \in 1..N : ~Fine(x)}
  <2>1. ASSUME Bad # {} PROVE FALSE
    <3>1. PICK m \in Bad : \A n \in Bad : m <= n
      <4>1. Bad \subseteq Nat
        OBVIOUS
      <4> QED BY <2>1, <4>1, LeastNumber, Zenon
    <3>2. m \in 1..N /\ ~Fine(m) /\ \A n \in 1..N : n < m => Fine(n)
      BY <3>1
    <3>3. m \in S <=> C[m] \in S
      BY <1>7, <1>8, <3>2 DEF Uncut
    <3>4. m \notin B
      BY <1>2, <3>2, <3>3
    <3>5. C[m] = A[m]
      BY <1>2, <3>2, <3>4
    <3>6. A[m] # m
      BY <1>3, <3>2
    <3>7. A[m] \in 1..N /\ A[m] < m
      BY <1>4, <3>2, <3>6
    <3>8. Fine(A[m])
      BY <3>2, <3>7
    <3>9. r(m) = r(A[m])
      BY <1>3, <3>2, <3>6
    <3> QED BY <3>2, <3>3, <3>5, <3>8, <3>9
  <2>2. \A x \in 1..N : Fine(x)
    BY <2>1
  <2>3. ASSUME NEW x \in 1..N PROVE x \in S <=> A[x] \in S
    <3>1. A[x] \in 1..N /\ (A[x] = x \/ r(x) = r(A[x]))
      BY <1>3, <1>4
    <3> QED BY <2>2, <3>1
  <2> QED BY <1>8, <2>3 DEF Uncut
<1>9. \A d \in 1..N : A[d] = d => C[d] = d
  BY <1>2, <1>3
<1> QED BY <1>5, <1>6, <1>7, <1>9 DEF SameTrees, C

\* The greater and the less of two numbers.
LEMMA OfTwo ==
    ASSUME NEW a \in Nat, NEW b \in Nat
    PROVE  /\ Max({a, b}) = (IF a <= b THEN b ELSE a)
           /\ Min({a, b}) = (IF a <= b THEN a ELSE b)
<1>1. \A x \in {a, b} : (\A y \in {a, b} : x >= y) <=> x = IF a <= b THEN b ELSE a
  OBVIOUS
<1>2. \A x \in {a, b} : (\A y \in {a, b} : x <= y) <=> x = IF a <= b THEN a ELSE b
  OBVIOUS
<1> QED BY <1>1, <1>2 DEF Max, Min

Linked(edge, S) == edge[1] \in S <=> edge[2] \in S
Joins(before, after, N) ==
    /\ Forest(after.array, N) /\ after.changed \subseteq 1..N /\ before.changed \subseteq after.changed
    /\ \A d \in 1..N : after.array[d] # before.array[d] => d \in after.changed

\* find() with its compression sends one document to its root.
Sends(A, C, d, N) ==
    /\ Forest(C, N) /\ SameTrees(A, C)
    /\ \A x \in 1..N : (A[x] = x => C[x] = x) /\ (x # d => C[x] = A[x])
    /\ C[d] \in 1..N /\ C[C[d]] = C[d]

\* What find() compresses: one document.
LEMMA CompressedIs ==
    ASSUME NEW N \in Nat, NEW A, Forest(A, N), NEW d \in 1..N
    PROVE  Sends(A, Near!Compressed(A, d), d, N)
<1> DEFINE C == Near!Compressed(A, d)
           r == Near!RootIn(A, d)
<1>1. C = Straight(A, N, {d}) /\ C[d] = r /\ \A x \in 1..N : x # d => C[x] = A[x]
  BY DEF Near!Compressed, Forest, Straight
<1>2. r \in 1..N /\ A[r] = r
  BY RootStays
<1>3. /\ Forest(Straight(A, N, {d}), N) /\ SameTrees(A, Straight(A, N, {d}))
      /\ \A x \in 1..N : A[x] = x => Straight(A, N, {d})[x] = x
  BY Shortened
<1> HIDE DEF C, r
<1>4. C[r] = r
  BY <1>1, <1>2, <1>3
<1>5. Sends(A, C, d, N)
  BY <1>1, <1>2, <1>3, <1>4 DEF Sends
<1> QED BY <1>5 DEF C

\* union() of an edge: a set is whole afterwards when it was and the edge
\* does not leave it, and only the documents whose rows are written have
\* another parent.
LEMMA MergedIs ==
    ASSUME NEW N \in Nat, NEW state, Forest(state.array, N), state.changed \subseteq 1..N,
           NEW edge, edge[1] \in 1..N, edge[2] \in 1..N
    PROVE  LET after == Near!Merged(state, edge)
           IN  /\ Joins(state, after, N)
               /\ \A S : Uncut(after.array, S) <=> Uncut(state.array, S) /\ Linked(edge, S)
<1> DEFINE A == state.array
           B == Near!Compressed(A, edge[1])
           C == Near!Compressed(B, edge[2])
           roots == {C[edge[1]], C[edge[2]]}
           high == Max(roots)
           low == Min(roots)
           D == [C EXCEPT ![high] = low]
           after == Near!Merged(state, edge)
<1>1. after = [array |-> D, changed |-> state.changed \cup ({edge[1], edge[2]} \cup roots),
               merges |-> state.merges + (IF Cardinality(roots) = 2 THEN 1 ELSE 0)]
  <2>1. high = Near!Max(roots) /\ low = Near!Min(roots) /\ Cardinality(roots) = Near!Cardinality(roots)
    BY SameOperators
  <2> HIDE DEF high, low, roots, B
  <2> QED BY <2>1 DEF Near!Merged, Near!RowsTouched, B, roots
<1>2. /\ Forest(B, N) /\ SameTrees(A, B)
      /\ \A x \in 1..N : (A[x] = x => B[x] = x) /\ (x # edge[1] => B[x] = A[x])
      /\ B[edge[1]] \in 1..N /\ B[B[edge[1]]] = B[edge[1]]
  <2>1. Sends(A, B, edge[1], N)
    BY CompressedIs
  <2> HIDE DEF B
  <2> QED BY <2>1 DEF Sends
<1>3. /\ Forest(C, N) /\ SameTrees(B, C)
      /\ \A x \in 1..N : (B[x] = x => C[x] = x) /\ (x # edge[2] => C[x] = B[x])
      /\ C[edge[2]] \in 1..N /\ C[C[edge[2]]] = C[edge[2]]
  <2> HIDE DEF B
  <2>1. Sends(B, C, edge[2], N)
    BY <1>2, CompressedIs
  <2> HIDE DEF C
  <2> QED BY <2>1 DEF Sends
<1> HIDE DEF B, C
<1>4. C[edge[1]] \in 1..N /\ C[C[edge[1]]] = C[edge[1]]
  BY <1>2, <1>3
<1>5. /\ {high, low} = roots /\ low <= high /\ high \in 1..N /\ low \in 1..N
      /\ C[high] = high /\ C[low] = low
  <2>1. \A a, b \in Nat : {Max({a, b}), Min({a, b})} = {a, b} /\ Min({a, b}) <= Max({a, b})
    BY OfTwo
  <2>2. {high, low} = roots /\ low <= high
    BY <1>3, <1>4, <2>1
  <2> HIDE DEF high, low
  <2>3. high \in roots /\ low \in roots
    BY <2>2
  <2> QED BY <1>3, <1>4, <2>2, <2>3
<1> HIDE DEF high, low
<1>6. DOMAIN C = 1..N /\ DOMAIN D = 1..N /\ D[high] = low /\ \A x \in 1..N : x # high => D[x] = C[x]
  BY <1>3, <1>5 DEF Forest
<1> HIDE DEF D
<1>7. Forest(D, N)
  <2>1. \A x \in 1..N : D[x] \in 1..N /\ D[x] <= x
    BY <1>3, <1>5, <1>6 DEF Forest
  <2>2. D = [x \in 1..N |-> D[x]]
    BY <1>6 DEF D
  <2>3. D \in [1..N -> 1..N]
    BY <2>1, <2>2
  <2> QED BY <2>1, <2>3 DEF Forest
<1>8. \A x \in 1..N : D[x] # A[x] => x \in {edge[1], edge[2]} \cup roots
  BY <1>2, <1>3, <1>5, <1>6
<1>9. roots \subseteq 1..N
  BY <1>3, <1>4
<1>10. ASSUME NEW S PROVE Uncut(D, S) <=> Uncut(A, S) /\ Linked(edge, S)
  <2>1. Uncut(A, S) <=> Uncut(C, S)
    BY <1>2, <1>3 DEF SameTrees
  <2>2. Uncut(D, S) <=> Uncut(C, S) /\ (high \in S <=> low \in S)
    BY <1>5, <1>6 DEF Uncut
  <2>3. Uncut(C, S) => (edge[1] \in S <=> C[edge[1]] \in S) /\ (edge[2] \in S <=> C[edge[2]] \in S)
    BY <1>6 DEF Uncut
  <2>4. (high \in S <=> low \in S) <=> (C[edge[1]] \in S <=> C[edge[2]] \in S)
    <3>1. \/ high = C[edge[1]] /\ low = C[edge[2]]
          \/ high = C[edge[2]] /\ low = C[edge[1]]
      BY <1>5
    <3> QED BY <3>1
  <2> QED BY <2>1, <2>2, <2>3, <2>4 DEF Linked
<1>11. Joins(state, after, N)
  BY <1>1, <1>7, <1>8, <1>9 DEF Joins
<1> HIDE DEF after
<1>12. after.array = D
  BY <1>1
<1>13. Joins(state, after, N) /\ \A S : Uncut(after.array, S) <=> Uncut(state.array, S) /\ Linked(edge, S)
  BY <1>10, <1>11, <1>12, Zenon
<1> QED BY <1>13 DEF after

\* A batch of edges: what holds of union() for one, for all of them.
LEMMA AfterEdgesIs ==
    ASSUME NEW N \in Nat, NEW state, Forest(state.array, N), state.changed \subseteq 1..N,
           NEW cursor \in Nat, NEW last \in Nat, cursor <= last,
           \A i \in cursor + 1 .. last : nearDb.edges[i][1] \in 1..N /\ nearDb.edges[i][2] \in 1..N
    PROVE  LET after == Near!AfterEdges(state, cursor, last)
           IN  /\ Joins(state, after, N)
               /\ \A S : Uncut(after.array, S) <=>
                     /\ Uncut(state.array, S)
                     /\ \A i \in cursor + 1 .. last : Linked(nearDb.edges[i], S)
<1> DEFINE AfterIs(f) == f = [i \in cursor..last |->
               IF i = cursor THEN state ELSE Near!Merged(f[i - 1], nearDb.edges[i])]
           after == CHOOSE f : AfterIs(f)
           Fold(f, m) == \A i \in cursor..m :
               f[i] = IF i = cursor THEN state ELSE Near!Merged(f[i - 1], nearDb.edges[i])
           OnBatch(f) == f = [i \in cursor..last |-> f[i]]
           Short == {m \in cursor..last : ~ \E f : OnBatch(f) /\ Fold(f, m)}
<1>1. ASSUME Short # {} PROVE FALSE
  <2>1. PICK m \in Short : \A n \in Short : m <= n
    <3>1. Short \subseteq Nat
      OBVIOUS
    <3> QED BY <1>1, <3>1, LeastNumber, Zenon
  <2>2. m \in cursor..last
    OBVIOUS
  <2>3. ~ \E f : OnBatch(f) /\ Fold(f, m)
    OBVIOUS
  <2>4. \A n \in Short : m <= n
    BY <2>1
  <2>5. \A n \in cursor..last : n < m => \E f : OnBatch(f) /\ Fold(f, n)
    <3>1. \A n \in cursor..last : n < m => n \notin Short
      <4> HIDE DEF Short
      <4> QED BY <2>2, <2>4
    <3> QED BY <3>1
  <2> HIDE DEF Short
  <2>6. CASE m = cursor
    <3> DEFINE f == [i \in cursor..last |-> state]
    <3>1. OnBatch(f)
      OBVIOUS
    <3>2. Fold(f, m)
      BY <2>2, <2>6
    <3> QED BY <2>3, <3>1, <3>2, Zenon
  <2>7. CASE m # cursor
    <3>1. m - 1 \in cursor..last /\ m - 1 < m /\ \A i \in cursor..m : i = m \/ i \in cursor..m - 1
      BY <2>2, <2>7
    <3>2. PICK f : OnBatch(f) /\ Fold(f, m - 1)
      BY <2>5, <3>1
    <3> DEFINE g == [i \in cursor..last |-> IF i = m THEN Near!Merged(f[m - 1], nearDb.edges[m]) ELSE f[i]]
    <3>3. OnBatch(g)
      OBVIOUS
    <3>4. ASSUME NEW i \in cursor..m PROVE g[i] = IF i = cursor THEN state ELSE Near!Merged(g[i - 1], nearDb.edges[i])
      <4>1. i \in cursor..last /\ i # m + 1 /\ i - 1 # m /\ (i # cursor => i - 1 \in cursor..last) /\ m - 1 # m
        BY <2>2
      <4>2. CASE i = m
        BY <2>7, <4>1, <4>2
      <4>3. CASE i \in cursor..m - 1
        <5>1. f[i] = IF i = cursor THEN state ELSE Near!Merged(f[i - 1], nearDb.edges[i])
          BY <3>2, <4>3
        <5>2. i # m
          BY <2>2, <4>3
        <5>3. g[i] = f[i]
          BY <4>1, <5>2
        <5>4. i # cursor => g[i - 1] = f[i - 1]
          BY <4>1
        <5> HIDE DEF g
        <5> QED BY <5>1, <5>3, <5>4, Zenon
      <4> QED BY <3>1, <4>2, <4>3
    <3>5. Fold(g, m)
      BY <3>4
    <3> QED BY <2>3, <3>3, <3>5, Zenon
  <2> QED BY <2>6, <2>7
<1>2. \E f : AfterIs(f)
  <2>1. last \in cursor..last /\ last \notin Short
    BY <1>1
  <2>2. PICK f : OnBatch(f) /\ Fold(f, last)
    BY <2>1
  <2>3. AfterIs(f)
    BY <2>2
  <2> QED BY <2>3
<1>3. AfterIs(after)
  BY <1>2, Zenon
<1>4. Near!AfterEdges(state, cursor, last) = after[last]
  BY DEF Near!AfterEdges
<1> HIDE DEF after
<1> DEFINE Fine(m) == /\ Joins(state, after[m], N)
                      /\ \A S : Uncut(after[m].array, S) <=>
                            /\ Uncut(state.array, S)
                            /\ \A i \in cursor + 1 .. m : Linked(nearDb.edges[i], S)
           Bad == {m \in cursor..last : ~Fine(m)}
<1>5. ASSUME Bad # {} PROVE FALSE
  <2>1. PICK m \in Bad : \A n \in Bad : m <= n
    <3>1. Bad \subseteq Nat
      OBVIOUS
    <3> QED BY <1>5, <3>1, LeastNumber, Zenon
  <2>2. m \in cursor..last /\ ~Fine(m)
    OBVIOUS
  <2>3. \A n \in Bad : m <= n
    BY <2>1
  <2>4. \A n \in cursor..last : n < m => Fine(n)
    <3>1. \A n \in cursor..last : n < m => n \notin Bad
      <4> HIDE DEF Bad
      <4> QED BY <2>2, <2>3
    <3> QED BY <3>1
  <2> HIDE DEF Bad
  <2>5. after[m] = IF m = cursor THEN state ELSE Near!Merged(after[m - 1], nearDb.edges[m])
    BY <1>3, <2>2
  <2>6. CASE m = cursor
    <3>1. after[m] = state
      BY <2>5, <2>6
    <3>2. Joins(state, state, N)
      BY DEF Joins
    <3>3. cursor + 1 .. m = {}
      BY <2>6
    <3>4. \A S : Uncut(state.array, S) <=>
                            /\ Uncut(state.array, S)
                            /\ \A i \in cursor + 1 .. m : Linked(nearDb.edges[i], S)
      BY <3>3
    <3> QED BY <2>2, <3>1, <3>2, <3>4
  <2>7. CASE m # cursor
    <3>1. m - 1 \in cursor..last /\ m - 1 < m /\ m \in cursor + 1 .. last
      BY <2>2, <2>7
    <3>2. Fine(m - 1)
      BY <2>4, <3>1
    <3>3. nearDb.edges[m][1] \in 1..N /\ nearDb.edges[m][2] \in 1..N
      BY <3>1
    <3> DEFINE old == after[m - 1]
    <3>4. Joins(state, old, N)
      BY <3>2
    <3>5. \A S : Uncut(old.array, S) <=>
                            /\ Uncut(state.array, S)
                            /\ \A i \in cursor + 1 .. m - 1 : Linked(nearDb.edges[i], S)
      BY <3>2
    <3>6. after[m] = Near!Merged(old, nearDb.edges[m])
      BY <2>5, <2>7
    <3> HIDE DEF old, Fine
    <3>7. /\ Joins(old, after[m], N)
          /\ \A S : Uncut(after[m].array, S) <=> Uncut(old.array, S) /\ Linked(nearDb.edges[m], S)
      <4>1. Forest(old.array, N) /\ old.changed \subseteq 1..N
        BY <3>4 DEF Joins
      <4> QED BY <3>3, <3>6, <4>1, MergedIs
    <3>8. Joins(state, after[m], N)
      BY <3>4, <3>7 DEF Joins
    <3>9. \A i : i \in cursor + 1 .. m <=> i \in cursor + 1 .. m - 1 \/ i = m
      BY <3>1
    <3>10. \A S : Uncut(after[m].array, S) <=>
                            /\ Uncut(state.array, S)
                            /\ \A i \in cursor + 1 .. m : Linked(nearDb.edges[i], S)
      BY <3>5, <3>7, <3>9, Zenon
    <3> QED BY <2>2, <3>8, <3>10 DEF Fine
  <2> QED BY <2>6, <2>7
<1>6. Fine(last)
  BY <1>5
<1> QED BY <1>4, <1>6

-----------------------------------------------------------------------------
(* Clusters.  A set of documents splits no cluster when it holds both or   *)
(* neither of two that are alike.                                          *)

Docs == 1..Len(nearCorpus)
SoundCorpus ==
    /\ Len(nearCorpus) \in Nat /\ DOMAIN nearCorpus = Docs
    /\ \A d \in Docs : IsFiniteSet(nearCorpus[d].shingles) /\ nearCorpus[d].bands \subseteq Nat
Similar(c, e) == Near!Alike(Min({c, e}), Max({c, e}))
Unsplit(S) == \A c, e \in Docs : Similar(c, e) => (c \in S <=> e \in S)
Neighbours(S) == S \cup {e \in Docs : \E c \in S : Similar(c, e)}

\* Of two documents either is similar to the other.
LEMMA SimilarBoth ==
    ASSUME SoundCorpus, NEW c \in Docs, NEW e \in Docs
    PROVE  Similar(c, e) <=> Similar(e, c)
<1>1. {c, e} = {e, c}
  OBVIOUS
<1> QED BY <1>1 DEF Similar

GrownFrom(d, f) == f = [n \in 0..Len(nearCorpus) |-> IF n = 0 THEN {d} ELSE Neighbours(f[n - 1])]

\* The cluster of a document is what it grows to in as many steps as there
\* are documents.
LEMMA GrowthIs ==
    ASSUME SoundCorpus, NEW d \in Docs
    PROVE  \E f : GrownFrom(d, f) /\ Near!ClusterOf(d) = f[Len(nearCorpus)]
<1> DEFINE N == Len(nearCorpus)
           Grows(f, m) == \A n \in 0..m : f[n] = IF n = 0 THEN {d} ELSE Neighbours(f[n - 1])
           OnSteps(f) == f = [n \in 0..N |-> f[n]]
           Short == {m \in 0..N : ~ \E f : OnSteps(f) /\ Grows(f, m)}
<1>0. N \in Nat
  BY DEF SoundCorpus
<1> HIDE DEF N
<1>1. ASSUME Short # {} PROVE FALSE
  <2>1. PICK m \in Short : \A n \in Short : m <= n
    <3>1. Short \subseteq Nat
      BY <1>0
    <3> QED BY <1>1, <3>1, LeastNumber, Zenon
  <2>2. m \in 0..N
    OBVIOUS
  <2>3. ~ \E f : OnSteps(f) /\ Grows(f, m)
    OBVIOUS
  <2>4. \A n \in Short : m <= n
    BY <2>1
  <2>5. \A n \in 0..N : n < m => \E f : OnSteps(f) /\ Grows(f, n)
    <3>1. \A n \in 0..N : n < m => n \notin Short
      <4> HIDE DEF Short
      <4> QED BY <1>0, <2>2, <2>4
    <3> QED BY <3>1
  <2> HIDE DEF Short
  <2>6. CASE m = 0
    <3> DEFINE f == [n \in 0..N |-> {d}]
    <3>1. OnSteps(f)
      OBVIOUS
    <3>2. Grows(f, m)
      BY <2>6, <2>2, <1>0
    <3> QED BY <2>3, <3>1, <3>2, Zenon
  <2>7. CASE m # 0
    <3>1. m - 1 \in 0..N /\ m - 1 < m /\ \A n \in 0..m : n = m \/ n \in 0..m - 1
      BY <1>0, <2>2, <2>7
    <3>2. PICK f : OnSteps(f) /\ Grows(f, m - 1)
      BY <2>5, <3>1
    <3> DEFINE g == [n \in 0..N |-> IF n = m THEN Neighbours(f[m - 1]) ELSE f[n]]
    <3>3. OnSteps(g)
      OBVIOUS
    <3>4. ASSUME NEW n \in 0..m PROVE g[n] = IF n = 0 THEN {d} ELSE Neighbours(g[n - 1])
      <4>1. n \in 0..N /\ n - 1 # m /\ (n # 0 => n - 1 \in 0..N) /\ m - 1 # m
        BY <1>0, <2>2
      <4>2. CASE n = m
        BY <2>7, <4>1, <4>2
      <4>3. CASE n \in 0..m - 1
        <5>1. f[n] = IF n = 0 THEN {d} ELSE Neighbours(f[n - 1])
          BY <3>2, <4>3
        <5>2. n # m
          BY <1>0, <2>2, <4>3
        <5>3. g[n] = f[n]
          BY <4>1, <5>2
        <5>4. n # 0 => g[n - 1] = f[n - 1]
          BY <4>1
        <5> HIDE DEF g
        <5> QED BY <5>1, <5>3, <5>4, Zenon
      <4> QED BY <3>1, <4>2, <4>3
    <3>5. Grows(g, m)
      BY <3>4
    <3> QED BY <2>3, <3>3, <3>5, Zenon
  <2> QED BY <2>6, <2>7
<1>2. \E f : GrownFrom(d, f)
  <2>1. N \in 0..N /\ N \notin Short
    <3>1. N \in 0..N
      BY <1>0
    <3>2. Short = {}
      BY <1>1
    <3> QED BY <3>1, <3>2
  <2>2. PICK f : OnSteps(f) /\ Grows(f, N)
    BY <2>1
  <2>3. f = [n \in 0..N |-> IF n = 0 THEN {d} ELSE Neighbours(f[n - 1])]
    BY <2>2
  <2> QED BY <2>3 DEF GrownFrom, N
<1>3. Near!ClusterOf(d) = (CHOOSE f : GrownFrom(d, f))[N]
  <2>1. Near!Ordinals = Docs
    BY DEF Near!Ordinals, SoundCorpus
  <2>2. \A c, e : Near!Alike(Near!Min({c, e}), Near!Max({c, e})) <=> Similar(c, e)
    BY SameOperators DEF Similar
  <2>3. \A S : S \cup {e \in Near!Ordinals : \E c \in S : Near!Alike(Near!Min({c, e}), Near!Max({c, e}))} = Neighbours(S)
    BY <2>1, <2>2 DEF Neighbours
  <2> QED BY <2>3 DEF Near!ClusterOf, GrownFrom, N
<1> QED BY <1>2, <1>3, Zenon DEF N

\* A cluster splits no cluster, and is in every set that holds its document
\* and splits none.
LEMMA ClusterHolds ==
    ASSUME SoundCorpus, NEW d \in Docs
    PROVE  LET C == Near!ClusterOf(d)
           IN  /\ d \in C /\ C \subseteq Docs /\ Unsplit(C)
               /\ \A S : d \in S /\ Unsplit(S) => C \subseteq S
<1> DEFINE N == Len(nearCorpus)
<1>1. PICK f : GrownFrom(d, f) /\ Near!ClusterOf(d) = f[N]
  BY GrowthIs
<1>2. N \in Nat /\ Docs = 1..N
  BY DEF SoundCorpus, Docs
<1> HIDE DEF N
<1>3. f[0] = {d} /\ \A n \in 1..N : f[n] = Neighbours(f[n - 1])
  <2>1. f = [n \in 0..N |-> IF n = 0 THEN {d} ELSE Neighbours(f[n - 1])]
    BY <1>1 DEF GrownFrom, N
  <2>2. 0 \in 0..N /\ \A n \in 1..N : n \in 0..N /\ n # 0
    BY <1>2
  <2> QED BY <2>1, <2>2
<1> DEFINE Fine(n) == /\ d \in f[n] /\ f[n] \in SUBSET Docs
                      /\ Neighbours(f[n]) = f[n] \/ Cardinality(f[n]) > n
                      /\ \A S : d \in S /\ Unsplit(S) => f[n] \subseteq S
           Bad == {n \in 0..N : ~Fine(n)}
<1>4. \A S \in SUBSET Docs : IsFiniteSet(S) /\ Cardinality(S) \in Nat /\ Cardinality(S) <= N
  <2>1. IsFiniteSet(1..N) /\ Cardinality(1..N) = N
    BY <1>2, FS_Interval
  <2> QED BY <1>2, <2>1, FS_Subset, FS_CardinalityType
<1>5. ASSUME Bad # {} PROVE FALSE
  <2>1. PICK m \in Bad : \A n \in Bad : m <= n
    <3>1. Bad \subseteq Nat
      BY <1>2
    <3> QED BY <1>5, <3>1, LeastNumber, Zenon
  <2>2. m \in 0..N /\ ~Fine(m)
    OBVIOUS
  <2>3. \A n \in Bad : m <= n
    BY <2>1
  <2>4. \A n \in 0..N : n < m => Fine(n)
    <3>1. \A n \in 0..N : n < m => n \notin Bad
      <4> HIDE DEF Bad
      <4> QED BY <1>2, <2>2, <2>3
    <3> QED BY <3>1
  <2> HIDE DEF Bad
  <2>5. CASE m = 0
    <3>1. f[m] = {d}
      BY <1>3, <2>5
    <3>2. Cardinality(f[m]) > m
      BY <2>5, <3>1, FS_Singleton
    <3> QED BY <2>2, <3>1, <3>2
  <2>6. CASE m # 0
    <3> DEFINE S == f[m - 1]
    <3>1. m - 1 \in 0..N /\ m - 1 < m /\ m \in 1..N
      BY <1>2, <2>2, <2>6
    <3>2. Fine(m - 1)
      BY <2>4, <3>1
    <3>3. f[m] = Neighbours(S)
      BY <1>3, <3>1
    <3>10. d \in S /\ S \in SUBSET Docs
      BY <3>2
    <3> HIDE DEF S
    <3>4. d \in f[m] /\ f[m] \in SUBSET Docs /\ S \subseteq f[m]
      BY <3>3, <3>10 DEF Neighbours
    <3>5. Neighbours(f[m]) = f[m] \/ Cardinality(f[m]) > m
      <4>1. CASE f[m] = S
        BY <3>3, <4>1
      <4>2. CASE f[m] # S
        <5>1. Neighbours(S) # S
          BY <3>3, <4>2
        <5>2. Cardinality(S) > m - 1
          BY <3>2, <5>1 DEF S
        <5>3. Cardinality(S) < Cardinality(f[m])
          <6>1. IsFiniteSet(f[m]) /\ Cardinality(S) \in Nat /\ Cardinality(f[m]) \in Nat
            BY <1>4, <3>4, <3>10
          <6>2. Cardinality(S) <= Cardinality(f[m]) /\ (Cardinality(S) = Cardinality(f[m]) => S = f[m])
            BY <3>4, <6>1, FS_Subset
          <6> QED BY <4>2, <6>1, <6>2
        <5>4. Cardinality(S) \in Nat /\ Cardinality(f[m]) \in Nat
          BY <1>4, <3>4, <3>10
        <5>5. m \in Nat
          BY <2>2
        <5> QED BY <5>2, <5>3, <5>4, <5>5
      <4> QED BY <4>1, <4>2
    <3>6. ASSUME NEW T, d \in T, Unsplit(T) PROVE f[m] \subseteq T
      <4>1. S \subseteq T
        BY <3>2, <3>6 DEF S
      <4> QED BY <3>3, <3>6, <3>10, <4>1 DEF Neighbours, Unsplit
    <3> QED BY <2>2, <3>4, <3>5, <3>6
  <2> QED BY <2>5, <2>6
<1>6. Fine(N)
  BY <1>2, <1>5
<1> DEFINE C == Near!ClusterOf(d)
<1>7. C = f[N]
  BY <1>1
<1> HIDE DEF C
<1>8. Neighbours(C) = C
  BY <1>2, <1>4, <1>6, <1>7
<1>9. Unsplit(C)
  BY <1>6, <1>7, <1>8, SimilarBoth DEF Unsplit, Neighbours
<1>10. /\ d \in C /\ C \subseteq Docs
       /\ \A S : d \in S /\ Unsplit(S) => C \subseteq S
  BY <1>6, <1>7
<1>11. /\ d \in C /\ C \subseteq Docs /\ Unsplit(C)
       /\ \A S : d \in S /\ Unsplit(S) => C \subseteq S
  BY <1>9, <1>10, Zenon
<1> QED BY <1>11 DEF C

\* A flat array whose trees the clusters are sends every document to the
\* least of its cluster.
LEMMA TreesAreClusters ==
    ASSUME SoundCorpus, NEW A, Forest(A, Len(nearCorpus)),
           \A d \in Docs : A[A[d]] = A[d], \A S : Uncut(A, S) <=> Unsplit(S)
    PROVE  A = Near!Reference
<1>1. DOMAIN A = Docs /\ A = [d \in Docs |-> A[d]] /\ Docs \subseteq Nat /\ \A d \in Docs : A[d] \in Docs /\ A[d] <= d
  BY DEF Forest, Docs, SoundCorpus
<1>2. ASSUME NEW d \in Docs PROVE A[d] = Min(Near!ClusterOf(d))
  <2> DEFINE C == Near!ClusterOf(d)
             Tree == {x \in Docs : A[x] = A[d]}
  <2>1. /\ d \in C /\ C \subseteq Docs /\ Unsplit(C)
        /\ \A S : d \in S /\ Unsplit(S) => C \subseteq S
    BY ClusterHolds
  <2> HIDE DEF C
  <2>2. Uncut(A, Tree)
    BY <1>1 DEF Uncut
  <2>3. C \subseteq Tree
    BY <1>1, <2>1, <2>2
  <2>4. A[d] \in C
    BY <1>1, <2>1 DEF Uncut
  <2>5. \A c \in C : A[d] <= c
    BY <1>1, <2>1, <2>3
  <2>6. \A c \in C : (\A e \in C : c <= e) => c = A[d]
    BY <1>1, <2>1, <2>4, <2>5
  <2> QED BY <2>4, <2>5, <2>6 DEF Min, C
<1>3. Near!Reference = [d \in Docs |-> Min(Near!ClusterOf(d))]
  BY SameOperators DEF Near!Reference, Near!Ordinals, SoundCorpus
<1> QED BY <1>1, <1>2, <1>3

-----------------------------------------------------------------------------
(* Edges.  What the candidate blocks and the refinement leave: the pairs   *)
(* of the blocks that are accepted, and the twins of equal texts.          *)

AllPairs == UNION {Near!BlockPairs(key) : key \in Near!Blocks}
Accepted(P) == {p \in P : Near!Accepts(p)}
Twins ==
    {p \in Near!Representatives \X Docs :
        Near!Pair(p) /\ nearCorpus[p[1]].text = nearCorpus[p[2]].text}

\* Sets of documents are finite.
LEMMA DocsFinite ==
    ASSUME SoundCorpus
    PROVE  IsFiniteSet(Docs) /\ Near!Ordinals = Docs /\ Docs \subseteq Nat /\ Near!Representatives \subseteq Docs
<1>1. IsFiniteSet(1..Len(nearCorpus))
  BY FS_Interval DEF SoundCorpus
<1> QED BY <1>1 DEF SoundCorpus, Docs, Near!Ordinals, Near!Representatives

\* A product grows with its factor.
LEMMA FactorKept ==
    ASSUME NEW a \in Nat, NEW b \in Nat, a <= b, NEW c \in Nat
    PROVE  a * c \in Nat /\ b * c \in Nat /\ a * c <= b * c
OBVIOUS

\* A pair that refinement accepts is never pruned for its lengths.
LEMMA AcceptedNotPruned ==
    ASSUME SoundCorpus, NEW l \in Docs, NEW r \in Docs, Near!Accepts(<<l, r>>)
    PROVE  ~Near!LengthPruned(l, r)
<1> DEFINE L == nearCorpus[l].shingles
           R == nearCorpus[r].shingles
           cl == Cardinality(L)
           cr == Cardinality(R)
           both == Cardinality(L \cap R)
           either == Cardinality(L \cup R)
<1>1. IsFiniteSet(L) /\ IsFiniteSet(R)
  BY DEF SoundCorpus
<1> HIDE DEF L, R
<1>2. /\ IsFiniteSet(L \cap R) /\ IsFiniteSet(L \cup R) /\ L \cap R \subseteq L /\ L \cap R \subseteq R
      /\ L \subseteq L \cup R /\ R \subseteq L \cup R
  BY <1>1, FS_Intersection, FS_Union
<1>3. both \in Nat /\ either \in Nat /\ cl \in Nat /\ cr \in Nat
  BY <1>1, <1>2, FS_CardinalityType
<1>4. both <= cl /\ both <= cr /\ cl <= either /\ cr <= either
  BY <1>1, <1>2, FS_Subset
<1>5. either = 0 \/ both * Threshold.den >= either * Threshold.num
  BY SameOperators DEF Near!Accepts, L, R
<1> DEFINE low == Min({cl, cr})
           high == Max({cl, cr})
<1>6. Near!LengthPruned(l, r) <=> high > 0 /\ low * Threshold.den < high * Threshold.num
  BY SameOperators DEF Near!LengthPruned, L, R
<1> HIDE DEF both, either, cl, cr
<1>7. low \in Nat /\ high \in Nat /\ both <= low /\ high <= either
  BY <1>3, <1>4, OfTwo
<1> HIDE DEF low, high
<1>8. Threshold.num \in Nat /\ Threshold.den \in Nat
  BY NearAssumption
<1>9. both * Threshold.den <= low * Threshold.den /\ both * Threshold.den \in Nat /\ low * Threshold.den \in Nat
  BY <1>3, <1>7, <1>8, FactorKept
<1>10. high * Threshold.num <= either * Threshold.num /\ high * Threshold.num \in Nat /\ either * Threshold.num \in Nat
  BY <1>3, <1>7, <1>8, FactorKept
<1> DEFINE a == both * Threshold.den
           b == low * Threshold.den
           c == high * Threshold.num
           e == either * Threshold.num
<1>11. /\ a <= b /\ c <= e /\ a \in Nat /\ b \in Nat /\ c \in Nat /\ e \in Nat
       /\ either = 0 \/ a >= e
       /\ Near!LengthPruned(l, r) <=> high > 0 /\ b < c
  BY <1>5, <1>6, <1>9, <1>10
<1> HIDE DEF a, b, c, e
<1> QED BY <1>3, <1>7, <1>11

\* A pair of a block is of two representatives that share its key.
LEMMA BlockPairIs ==
    ASSUME SoundCorpus, NEW key, NEW p \in Near!BlockPairs(key)
    PROVE  /\ p \in Docs \X Docs /\ p = <<p[1], p[2]>> /\ p[1] < p[2] /\ {p[1], p[2]} \subseteq Near!Representatives
           /\ key \in nearCorpus[p[1]].bands \cap nearCorpus[p[2]].bands
BY DocsFinite DEF Near!BlockPairs, Near!Posting, Near!Pair

\* The less and the greater of two documents in their order.
LEMMA InOrderOfTwo ==
    ASSUME SoundCorpus, NEW l \in Docs, NEW r \in Docs, l < r
    PROVE  Similar(l, r) <=> Near!Alike(l, r)
<1>1. l \in Nat /\ r \in Nat
  BY DocsFinite
<1>2. Min({l, r}) = l /\ Max({l, r}) = r
  BY <1>1, OfTwo
<1> QED BY <1>2 DEF Similar

\* The edges link exactly the clusters.
LEMMA EdgesAreAlike ==
    ASSUME SoundCorpus
    PROVE  \A S : (\A p \in Accepted(AllPairs) \cup Twins : Linked(p, S)) <=> Unsplit(S)
<1> DEFINE E == Accepted(AllPairs) \cup Twins
<1>1. ASSUME NEW p \in E PROVE p[1] \in Docs /\ p[2] \in Docs /\ Similar(p[1], p[2])
  <2>1. CASE p \in Twins
    <3>1. p[1] \in Docs /\ p[2] \in Docs /\ p[1] < p[2] /\ nearCorpus[p[1]].text = nearCorpus[p[2]].text
      BY <2>1, DocsFinite DEF Twins, Near!Pair
    <3>2. Near!Alike(p[1], p[2])
      BY <3>1 DEF Near!Alike
    <3> QED BY <3>1, <3>2, InOrderOfTwo
  <2>2. CASE p \in Accepted(AllPairs)
    <3>1. PICK key \in Near!Blocks : p \in Near!BlockPairs(key)
      BY <2>2 DEF Accepted, AllPairs
    <3>2. /\ p \in Docs \X Docs /\ p = <<p[1], p[2]>> /\ p[1] < p[2] /\ {p[1], p[2]} \subseteq Near!Representatives
          /\ key \in nearCorpus[p[1]].bands \cap nearCorpus[p[2]].bands
      BY <3>1, BlockPairIs
    <3>3. Near!Accepts(<<p[1], p[2]>>)
      BY <2>2, <3>2 DEF Accepted
    <3>4. Near!Alike(p[1], p[2])
      BY <3>2, <3>3 DEF Near!Alike
    <3> QED BY <3>2, <3>4, InOrderOfTwo
  <2> QED BY <2>1, <2>2
<1>2. ASSUME NEW S, Unsplit(S), NEW p \in E PROVE Linked(p, S)
  BY <1>1, <1>2 DEF Unsplit, Linked
<1>3. ASSUME NEW S, \A p \in E : Linked(p, S), NEW c \in Docs, NEW e \in Docs, Similar(c, e)
      PROVE  c \in S <=> e \in S
  <2>0. Docs \subseteq Nat
    BY DocsFinite
  <2>1. ASSUME NEW l \in Docs, NEW r \in Docs, l < r, Near!Alike(l, r) PROVE l \in S <=> r \in S
    <3>1. CASE nearCorpus[l].text = nearCorpus[r].text
      <4> DEFINE Copies == {x \in Docs : nearCorpus[x].text = nearCorpus[l].text}
      <4>1. PICK t \in Copies : \A x \in Copies : t <= x
        BY <2>0, LeastNumber
      <4>2. t \in Near!Representatives
        BY <4>1, DocsFinite DEF Near!Representatives
      <4>3. ASSUME NEW x \in Copies PROVE t \in S <=> x \in S
        <5>1. x = t \/ t < x
          BY <2>0, <4>1
        <5>2. CASE t < x
          <6>1. <<t, x>> \in Twins
            BY <4>2, <4>3, <5>2 DEF Twins, Near!Pair
          <6> QED BY <1>3, <6>1 DEF Linked
        <5> QED BY <5>1, <5>2
      <4> QED BY <3>1, <4>3
    <3>2. CASE nearCorpus[l].text # nearCorpus[r].text
      <4>1. /\ {l, r} \subseteq Near!Representatives /\ nearCorpus[l].bands \cap nearCorpus[r].bands # {}
            /\ Near!Accepts(<<l, r>>)
        BY <2>1, <3>2 DEF Near!Alike
      <4>2. PICK key : key \in nearCorpus[l].bands \cap nearCorpus[r].bands
        BY <4>1
      <4>3. l \in Near!Posting(key) /\ r \in Near!Posting(key) /\ Near!Posting(key) \subseteq Docs
        BY <4>1, <4>2, DocsFinite DEF Near!Posting
      <4>4. key \in Near!Blocks
        <5>1. key \in UNION {nearCorpus[d].bands : d \in Near!Ordinals}
          BY <4>2, DocsFinite
        <5>2. IsFiniteSet(Near!Posting(key)) /\ Cardinality({l, r}) <= Cardinality(Near!Posting(key))
          BY <4>3, DocsFinite, FS_Subset
        <5>3. Cardinality({l, r}) = 2
          <6>1. l # r
            <7>1. l \in Nat /\ r \in Nat /\ l < r
              BY <2>0, <2>1
            <7> QED BY <7>1
          <6>2. r \notin {l} /\ {l} \cup {r} = {l, r}
            BY <6>1
          <6>3. IsFiniteSet({l}) /\ Cardinality({l}) = 1
            BY FS_Singleton
          <6> QED BY <6>2, <6>3, FS_AddElement
        <5>4. Cardinality(Near!Posting(key)) \in Nat
          BY <5>2, FS_CardinalityType
        <5>5. Near!Cardinality(Near!Posting(key)) > 1
          BY <5>2, <5>3, <5>4, SameOperators
        <5> QED BY <5>1, <5>5 DEF Near!Blocks
      <4>5. <<l, r>> \in Near!BlockPairs(key)
        <5>1. ~Near!LengthPruned(l, r)
          BY <4>1, AcceptedNotPruned
        <5> QED BY <2>1, <4>3, <5>1 DEF Near!BlockPairs, Near!Pair
      <4>6. <<l, r>> \in E
        BY <4>1, <4>4, <4>5 DEF AllPairs, Accepted
      <4> QED BY <1>3, <4>6 DEF Linked
    <3> QED BY <3>1, <3>2
  <2>2. c = e \/ c < e \/ e < c
    BY <2>0
  <2>3. Similar(e, c)
    BY <1>3, SimilarBoth
  <2>4. CASE c < e
    BY <1>3, <2>1, <2>4, InOrderOfTwo
  <2>5. CASE e < c
    BY <2>1, <2>3, <2>5, InOrderOfTwo
  <2> QED BY <2>2, <2>4, <2>5
<1>4. \A S : (\A p \in E : Linked(p, S)) => Unsplit(S)
  BY <1>3 DEF Unsplit
<1> HIDE DEF E
<1>5. \A S : (\A p \in E : Linked(p, S)) <=> Unsplit(S)
  BY <1>2, <1>4
<1> QED BY <1>5 DEF E

-----------------------------------------------------------------------------
(* Pairs in the order of the keyset queries.                               *)

\* Precedes orders the pairs of numbers.
LEMMA PairsAreOrdered ==
    /\ \A p, q \in Nat \X Nat : p = q \/ Near!Precedes(p, q) \/ Near!Precedes(q, p)
    /\ \A p, q \in Nat \X Nat : Near!Precedes(p, q) => p # q /\ ~Near!Precedes(q, p)
    /\ \A p, q, r \in Nat \X Nat : Near!Precedes(p, q) /\ Near!Precedes(q, r) => Near!Precedes(p, r)
<1>1. \A p \in Nat \X Nat : p[1] \in Nat /\ p[2] \in Nat /\ p = <<p[1], p[2]>>
  OBVIOUS
<1>2. \A a, b, c, d \in Nat : a < c \/ (a = c /\ b < d) \/ c < a \/ (c = a /\ d < b) \/ (a = c /\ b = d)
  OBVIOUS
<1>3. ASSUME NEW p \in Nat \X Nat, NEW q \in Nat \X Nat
      PROVE  p = q \/ Near!Precedes(p, q) \/ Near!Precedes(q, p)
  <2>1. (p[1] = q[1] /\ p[2] = q[2]) => p = q
    BY <1>1
  <2> QED BY <1>1, <2>1 DEF Near!Precedes
<1>4. ASSUME NEW p \in Nat \X Nat, NEW q \in Nat \X Nat, Near!Precedes(p, q)
      PROVE  p # q /\ ~Near!Precedes(q, p)
  BY <1>1, <1>4 DEF Near!Precedes
<1>5. ASSUME NEW p \in Nat \X Nat, NEW q \in Nat \X Nat, NEW r \in Nat \X Nat,
             Near!Precedes(p, q), Near!Precedes(q, r)
      PROVE  Near!Precedes(p, r)
  <2>1. p[1] \in Nat /\ q[1] \in Nat /\ r[1] \in Nat /\ p[2] \in Nat /\ q[2] \in Nat /\ r[2] \in Nat
    BY <1>1
  <2> QED BY <1>5, <2>1 DEF Near!Precedes
<1> QED BY <1>3, <1>4, <1>5

\* A set of pairs that is not empty has a first.
LEMMA FirstPair ==
    ASSUME NEW S, S \subseteq Nat \X Nat, S # {}
    PROVE  \E p \in S : \A q \in S : ~Near!Precedes(q, p)
<1> DEFINE heads == {p[1] : p \in S}
<1>1. PICK h \in heads : \A g \in heads : h <= g
  <2>1. heads \subseteq Nat /\ heads # {}
    OBVIOUS
  <2> HIDE DEF heads
  <2> QED BY <2>1, LeastNumber
<1> DEFINE tails == {p[2] : p \in {p \in S : p[1] = h}}
<1>2. PICK t \in tails : \A u \in tails : t <= u
  <2>1. tails \subseteq Nat /\ tails # {}
    OBVIOUS
  <2> HIDE DEF tails
  <2> QED BY <2>1, LeastNumber
<1>3. PICK p \in S : p[1] = h /\ p[2] = t
  OBVIOUS
<1>4. ASSUME NEW q \in S PROVE ~Near!Precedes(q, p)
  <2>1. q[1] \in Nat /\ q[2] \in Nat /\ p[1] \in Nat /\ p[2] \in Nat
    OBVIOUS
  <2>2. p[1] <= q[1] /\ (q[1] = p[1] => p[2] <= q[2])
    BY <1>1, <1>2, <1>3
  <2> QED BY <2>1, <2>2 DEF Near!Precedes
<1> QED BY <1>4

\* A listing in order has each pair once, the last of them at its end.
LEMMA InOrderIs ==
    ASSUME NEW S, S \subseteq Nat \X Nat, IsFiniteSet(S)
    PROVE  LET s == Near!InOrder(S)
           IN  /\ Listing(s) /\ {s[i] : i \in 1..Len(s)} = S
               /\ S # {} => Last(s) \in S /\ \A p \in S : p = Last(s) \/ Near!Precedes(p, Last(s))
<1> DEFINE n == Cardinality(S)
           Below(p) == {q \in S : Near!Precedes(q, p)}
           rank(p) == Cardinality(Below(p))
           s == Near!InOrder(S)
<1>1. n \in Nat
  BY FS_CardinalityType
<1>2. \A p \in S : IsFiniteSet(Below(p)) /\ rank(p) \in Nat /\ rank(p) < n
  <2>1. ASSUME NEW p \in S PROVE IsFiniteSet(Below(p)) /\ rank(p) \in Nat /\ rank(p) < n
    <3>1. Below(p) \in SUBSET S /\ p \notin Below(p)
      BY PairsAreOrdered
    <3> HIDE DEF Below
    <3>2. IsFiniteSet(Below(p)) /\ rank(p) <= n /\ (rank(p) = n => Below(p) = S)
      BY <3>1, FS_Subset
    <3>3. rank(p) \in Nat
      BY <3>2, FS_CardinalityType
    <3> QED BY <1>1, <3>1, <3>2, <3>3
  <2> QED BY <2>1
<1>3. ASSUME NEW p \in S, NEW q \in S, Near!Precedes(p, q) PROVE rank(p) < rank(q)
  <2>1. Below(p) \in SUBSET Below(q) /\ p \in Below(q) /\ p \notin Below(p)
    <3>1. \A r \in S : Near!Precedes(r, p) => Near!Precedes(r, q)
      BY <1>3, PairsAreOrdered
    <3>2. ~Near!Precedes(p, p)
      BY PairsAreOrdered
    <3> QED BY <1>3, <3>1, <3>2
  <2> HIDE DEF Below
  <2>2. rank(p) <= rank(q) /\ (rank(p) = rank(q) => Below(p) = Below(q))
    BY <1>2, <2>1, FS_Subset
  <2>3. rank(p) \in Nat /\ rank(q) \in Nat
    BY <1>2
  <2> QED BY <2>1, <2>2, <2>3
<1>4. \A p, q \in S : rank(p) = rank(q) => p = q
  <2> HIDE DEF Below, n
  <2>1. ASSUME NEW p \in S, NEW q \in S, rank(p) = rank(q), p # q PROVE FALSE
    <3>1. Near!Precedes(p, q) \/ Near!Precedes(q, p)
      BY <2>1, PairsAreOrdered
    <3>2. rank(p) \in Nat /\ rank(q) \in Nat
      BY <1>2
    <3> HIDE DEF rank
    <3> QED BY <1>3, <2>1, <3>1, <3>2
  <2> QED BY <2>1
<1> DEFINE f == [p \in S |-> rank(p)]
           R == {f[p] : p \in S}
<1> HIDE DEF Below, n, rank
<1>5. R = 0..n - 1
  <2>1. \A p, q \in S : f[p] = f[q] => p = q
    BY <1>4
  <2> HIDE DEF f
  <2>2. IsFiniteSet(R) /\ Cardinality(R) = n
    BY <2>1, ImageCounted DEF n
  <2> USE DEF f
  <2>3. R \subseteq 0..n - 1
    BY <1>1, <1>2
  <2>4. IsFiniteSet(0..n - 1) /\ Cardinality(0..n - 1) = n
    <3>1. 0 \in Int /\ n - 1 \in Int /\ (0 > n - 1 => n = 0) /\ n - 1 - 0 + 1 = n
      BY <1>1
    <3>2. Cardinality(0..n - 1) = IF 0 > n - 1 THEN 0 ELSE n - 1 - 0 + 1
      BY <3>1, FS_Interval
    <3>3. IsFiniteSet(0..n - 1)
      BY <3>1, FS_Interval
    <3> QED BY <3>1, <3>2, <3>3
  <2> HIDE DEF R
  <2> QED BY <2>2, <2>3, <2>4, FS_Subset
<1>13. R = {rank(p) : p \in S}
  OBVIOUS
<1> HIDE DEF f, R
<1>6. s = [i \in 1..n |-> CHOOSE p \in S : Near!Cardinality(Below(p)) = i - 1]
  <2>1. Near!Cardinality(S) = n
    BY SameOperators DEF n
  <2> QED BY <2>1 DEF Near!InOrder, Below
<1>14. \A p : Near!Cardinality(Below(p)) = rank(p)
  BY SameOperators DEF rank
<1> HIDE DEF s
<1>7. \A i \in 1..n : s[i] \in S /\ rank(s[i]) = i - 1
  <2>1. ASSUME NEW i \in 1..n PROVE s[i] \in S /\ rank(s[i]) = i - 1
    <3>1. i - 1 \in 0..n - 1
      BY <1>1
    <3>2. \E p \in S : Near!Cardinality(Below(p)) = i - 1
      BY <1>5, <1>13, <1>14, <3>1
    <3>3. s[i] \in S /\ Near!Cardinality(Below(s[i])) = i - 1
      BY <1>6, <3>2
    <3> QED BY <1>14, <3>3
  <2> QED BY <2>1
<1>8. Listing(s) /\ Len(s) = n
  <2>1. s = [i \in 1..n |-> s[i]]
    BY <1>6
  <2> QED BY <1>1, <2>1, ListingIs
<1>9. ASSUME NEW p \in S PROVE rank(p) + 1 \in 1..n /\ s[rank(p) + 1] = p
  <2>1. rank(p) + 1 \in 1..n
    BY <1>1, <1>2
  <2>2. rank(s[rank(p) + 1]) = rank(p) /\ s[rank(p) + 1] \in S
    BY <1>2, <1>7, <2>1
  <2> QED BY <1>4, <2>1, <2>2
<1>10. {s[i] : i \in 1..Len(s)} = S
  BY <1>7, <1>8, <1>9
<1>11. ASSUME S # {} PROVE Last(s) \in S /\ \A p \in S : p = Last(s) \/ Near!Precedes(p, Last(s))
  <2>1. n \in 1..n
    BY <1>1, <1>9, <1>11
  <2>2. Last(s) = s[n] /\ s[n] \in S /\ rank(s[n]) = n - 1
    BY <1>7, <1>8, <2>1 DEF Last
  <2>3. ASSUME NEW p \in S, Near!Precedes(s[n], p) PROVE FALSE
    <3>1. rank(s[n]) < rank(p)
      BY <1>3, <2>2, <2>3
    <3>2. rank(p) \in Nat /\ rank(p) < n
      BY <1>2
    <3> QED BY <1>1, <2>2, <3>1, <3>2
  <2> QED BY <2>2, <2>3, PairsAreOrdered
<1>12. /\ Listing(s) /\ {s[i] : i \in 1..Len(s)} = S
       /\ S # {} => Last(s) \in S /\ \A p \in S : p = Last(s) \/ Near!Precedes(p, Last(s))
  BY <1>8, <1>10, <1>11
<1> QED BY <1>12 DEF s

UpTo(S, cursor) == {p \in S : ~Near!Precedes(cursor, p)}

\* A query that returns nothing has nothing left.
LEMMA NothingAfter ==
    ASSUME NEW S, S \subseteq Nat \X Nat, IsFiniteSet(S), NEW cursor \in Nat \X Nat, NEW n \in Positive,
           Near!PairsAfter(S, cursor, n) = {}
    PROVE  UpTo(S, cursor) = S
<1> DEFINE later == {p \in S : Near!Precedes(cursor, p)}
<1>1. ASSUME later # {} PROVE FALSE
  <2>1. PICK p \in later : \A q \in later : ~Near!Precedes(q, p)
    <3>1. later \subseteq Nat \X Nat
      OBVIOUS
    <3> HIDE DEF later
    <3> QED BY <1>1, <3>1, FirstPair
  <2>2. {q \in S : Near!Precedes(cursor, q) /\ Near!Precedes(q, p)} = {}
    BY <2>1
  <2>3. Near!Cardinality({q \in S : Near!Precedes(cursor, q) /\ Near!Precedes(q, p)}) < n
    BY <2>2, SameOperators, FS_EmptySet DEF Positive
  <2>4. p \in Near!PairsAfter(S, cursor, n)
    BY <2>3 DEF Near!PairsAfter
  <2> QED BY <2>4
<1> QED BY <1>1 DEF UpTo

\* A batch is the first pairs after the cursor: what is not after its last
\* was not after the cursor or is in it.
LEMMA BatchOfPairs ==
    ASSUME NEW S, S \subseteq Nat \X Nat, IsFiniteSet(S), NEW cursor \in Nat \X Nat, NEW n \in Positive,
           Near!PairsAfter(S, cursor, 1) # {}
    PROVE  LET batch == Near!PairsAfter(S, cursor, n)
               last == Last(Near!InOrder(batch))
           IN  /\ batch \subseteq S /\ IsFiniteSet(batch) /\ last \in batch
               /\ UpTo(S, last) = UpTo(S, cursor) \cup batch
<1> DEFINE batch == Near!PairsAfter(S, cursor, n)
           last == Last(Near!InOrder(batch))
           Between(p) == {q \in S : Near!Precedes(cursor, q) /\ Near!Precedes(q, p)}
<1>1. \A p : IsFiniteSet(Between(p)) /\ Cardinality(Between(p)) \in Nat
  <2>1. \A p : Between(p) \in SUBSET S
    OBVIOUS
  <2> HIDE DEF Between
  <2> QED BY <2>1, FS_Subset, FS_CardinalityType
<1>2. \A k : Near!PairsAfter(S, cursor, k) = {p \in S : Near!Precedes(cursor, p) /\ Cardinality(Between(p)) < k}
  BY SameOperators DEF Near!PairsAfter
<1> HIDE DEF Between
<1>3. batch # {}
  <2>1. PICK p \in Near!PairsAfter(S, cursor, 1) : TRUE
    OBVIOUS
  <2>2. p \in S /\ Near!Precedes(cursor, p) /\ Cardinality(Between(p)) < 1
    BY <1>2, <2>1
  <2>3. Cardinality(Between(p)) < n
    BY <1>1, <2>2 DEF Positive
  <2> QED BY <1>2, <2>2, <2>3
<1>4. batch \subseteq S /\ IsFiniteSet(batch) /\ \A p \in batch : Near!Precedes(cursor, p)
  <2>1. batch \subseteq S /\ \A p \in batch : Near!Precedes(cursor, p)
    BY <1>2
  <2> HIDE DEF batch
  <2> QED BY <2>1, FS_Subset
<1>5. last \in batch /\ \A p \in batch : p = last \/ Near!Precedes(p, last)
  <2> HIDE DEF batch
  <2> QED BY <1>3, <1>4, InOrderIs
<1>10. batch = {p \in S : Near!Precedes(cursor, p) /\ Cardinality(Between(p)) < n}
  BY <1>2
<1> HIDE DEF batch, last
<1>6. ASSUME NEW p \in S, Near!Precedes(cursor, p), ~Near!Precedes(last, p) PROVE p \in batch
  <2>1. p = last \/ Near!Precedes(p, last)
    BY <1>4, <1>5, <1>6, PairsAreOrdered
  <2>2. CASE Near!Precedes(p, last)
    <3>1. Between(p) \in SUBSET Between(last)
      <4>1. \A q \in S : Near!Precedes(q, p) => Near!Precedes(q, last)
        BY <1>4, <1>5, <2>2, PairsAreOrdered
      <4> QED BY <4>1 DEF Between
    <3>2. Cardinality(Between(p)) <= Cardinality(Between(last))
      BY <1>1, <3>1, FS_Subset
    <3>3. Cardinality(Between(last)) < n
      BY <1>5, <1>10
    <3>4. Cardinality(Between(p)) < n
      BY <1>1, <3>2, <3>3 DEF Positive
    <3> QED BY <1>6, <1>10, <3>4
  <2> QED BY <1>5, <2>1, <2>2
<1>7. ASSUME NEW p \in batch PROVE ~Near!Precedes(last, p)
  BY <1>4, <1>5, <1>7, PairsAreOrdered
<1>8. ASSUME NEW p \in S, ~Near!Precedes(cursor, p) PROVE ~Near!Precedes(last, p)
  BY <1>4, <1>5, <1>8, PairsAreOrdered
<1>9. UpTo(S, last) = UpTo(S, cursor) \cup batch
  BY <1>4, <1>6, <1>7, <1>8 DEF UpTo
<1> QED BY <1>4, <1>5, <1>9 DEF batch, last

-----------------------------------------------------------------------------
(* The build.  Every part of the database is what the transactions before  *)
(* it should have left, wherever a build was interrupted.                  *)

NearFields ==
    {"schema", "phase", "inventoried", "signed", "blocksTotal", "blocks", "candidates", "cached", "pairsTotal",
     "refined", "refineCursor", "edges", "parents", "edgeCursor", "merges", "flattened", "rooted", "roots"}
IsNearDatabase(d) == d = [f \in NearFields |-> d[f]]

Emitted == {"emit", "complete"}
Linking == {"union"} \cup Emitted
Refining == {"refine"} \cup Linking
Collected == {"cache"} \cup Refining

(* The blocks read are the first ones, and their pairs the candidates.     *)
BlocksSound(d) ==
    /\ d.blocks \subseteq Near!Blocks
    /\ \A done \in d.blocks : \A key \in Near!Blocks : key <= done => key \in d.blocks
    /\ d.candidates = UNION {Near!BlockPairs(key) : key \in d.blocks}
    /\ d.phase \in Collected => d.blocks = Near!Blocks

(* The edges are the pairs up to the cursor that were accepted, and twins. *)
EdgesOf(d) == {d.edges[i] : i \in 1..Len(d.edges)}
EdgesSound(d) ==
    /\ Listing(d.edges) /\ d.refineCursor \in Nat \X Nat
    /\ d.refined = UpTo(d.candidates, d.refineCursor)
    /\ Accepted(d.refined) \subseteq EdgesOf(d) /\ EdgesOf(d) \subseteq Accepted(d.refined) \cup Twins
    /\ d.phase \notin Refining => d.refineCursor = <<0, 0>> /\ d.edges = <<>>
    /\ d.phase \in Linking => d.refined = d.candidates /\ Twins \subseteq EdgesOf(d)

(* The rows of parents are the trees of the edges consumed so far.         *)
ArrayOf(d) == [x \in Docs |-> IF x \in DOMAIN d.parents THEN d.parents[x] ELSE x]
Consumed(d) == 1..d.edgeCursor
TreesSound(d) ==
    /\ d.edgeCursor \in 0..Len(d.edges) /\ DOMAIN d.parents \subseteq Docs
    /\ Forest(ArrayOf(d), Len(nearCorpus))
    /\ \A S : Uncut(ArrayOf(d), S) <=> \A i \in Consumed(d) : Linked(d.edges[i], S)
    /\ d.phase \notin Linking => d.edgeCursor = 0 /\ DOMAIN d.parents = {}

(* Roots are read off a flat array after the last edge.                    *)
RootsSound(d) ==
    /\ d.phase \notin Linking => d.rooted = None
    /\ d.rooted = None => d.roots = <<>>
    /\ d.rooted # None =>
          /\ d.rooted \in 0..Len(nearCorpus) /\ d.roots = [x \in 1..d.rooted |-> ArrayOf(d)[x]]
          /\ d.edgeCursor = Len(d.edges) /\ d.flattened # None
          /\ ~(d.flattened.processed < d.flattened.total)
          /\ \A x \in Docs : ArrayOf(d)[ArrayOf(d)[x]] = ArrayOf(d)[x]
    /\ d.phase \in Emitted => d.roots = Near!Reference

(* What is published is read off the roots of all documents.               *)
FilesSound ==
    /\ mapping \in {None, Near!Reference}
    /\ nearManifest # None => nearManifest = Near!Reference /\ mapping = Near!Reference
    /\ nearPc \in {"mapped", "described", "summed"} => nearDb.phase = "emit" /\ mapping = Near!Reference
    /\ nearPc \in {"described", "summed"} => nearManifest = Near!Reference
    /\ nearPc = "done" => checksum = nearManifest /\ nearManifest # None

NearDatabaseSound(d) ==
    /\ IsNearDatabase(d) /\ BlocksSound(d) /\ EdgesSound(d) /\ TreesSound(d) /\ RootsSound(d)
NearSound ==
    /\ nearCorpus \in NearCorpora /\ NearDatabaseSound(nearDb) /\ FilesSound
    /\ ~nearDb.schema \/ nearPc = "create" => nearDb.phase = None
    /\ parent # None => parent = ArrayOf(nearDb)

\* The inventory never changes, and with it what the tables should hold.
LEMMA CorpusStays ==
    ASSUME nearCorpus' = nearCorpus
    PROVE  /\ Docs' = Docs /\ Twins' = Twins /\ Near!Blocks' = Near!Blocks /\ Near!Reference' = Near!Reference
           /\ \A key : Near!BlockPairs(key)' = Near!BlockPairs(key)
           /\ \A P : Accepted(P)' = Accepted(P)
<1>1. Docs' = Docs /\ Near!Ordinals' = Near!Ordinals
  BY DEF Docs, Near!Ordinals
<1>2. Near!Representatives' = Near!Representatives
  BY <1>1 DEF Near!Representatives
<1>3. Twins' = Twins
  BY <1>1, <1>2 DEF Twins
<1>4. \A key : Near!Posting(key)' = Near!Posting(key)
  BY <1>2 DEF Near!Posting
<1>5. Near!Blocks' = Near!Blocks
  <2>1. (UNION {nearCorpus[d].bands : d \in Near!Ordinals})' = UNION {nearCorpus[d].bands : d \in Near!Ordinals}
    BY <1>1
  <2> QED BY <1>4, <2>1 DEF Near!Blocks
<1>6. \A l, r : Near!LengthPruned(l, r)' <=> Near!LengthPruned(l, r)
  BY DEF Near!LengthPruned
<1>7. \A key : Near!BlockPairs(key)' = Near!BlockPairs(key)
  BY <1>4, <1>6 DEF Near!BlockPairs
<1>8. \A p : Near!Accepts(p)' <=> Near!Accepts(p)
  BY DEF Near!Accepts
<1>9. \A P : Accepted(P)' = Accepted(P)
  BY <1>8 DEF Accepted
<1>10. \A l, r : Near!Alike(l, r)' <=> Near!Alike(l, r)
  BY <1>2, <1>8 DEF Near!Alike
<1>11. ASSUME NEW d PROVE Near!ClusterOf(d)' = Near!ClusterOf(d)
  <2> DEFINE near(S) == S \cup {e \in Near!Ordinals : \E c \in S : Near!Alike(Near!Min({c, e}), Near!Max({c, e}))}
             N == Len(nearCorpus)
             grown(f) == f = [n \in 0..N |-> IF n = 0 THEN {d} ELSE near(f[n - 1])]
  <2>1. \A S : near(S)' = near(S)
    BY <1>1, <1>10
  <2>2. N' = N
    OBVIOUS
  <2>3. Near!ClusterOf(d) = (CHOOSE f : grown(f))[N]
    BY DEF Near!ClusterOf
  <2>4. Near!ClusterOf(d)' = (CHOOSE f : f = [n \in 0..N' |-> IF n = 0 THEN {d} ELSE near(f[n - 1])'])[N']
    BY DEF Near!ClusterOf
  <2> HIDE DEF near, N
  <2>5. (CHOOSE f : f = [n \in 0..N' |-> IF n = 0 THEN {d} ELSE near(f[n - 1])']) = CHOOSE f : grown(f)
    BY <2>1, <2>2
  <2> QED BY <2>2, <2>3, <2>4, <2>5
<1>12. Near!Reference' = Near!Reference
  BY <1>1, <1>11 DEF Near!Reference
<1> QED BY <1>1, <1>3, <1>5, <1>7, <1>9, <1>12

\* A database is as sound after a step that keeps the inventory as before it.
LEMMA DatabasesStay ==
    ASSUME nearCorpus' = nearCorpus
    PROVE  \A d : NearDatabaseSound(d)' <=> NearDatabaseSound(d)
<1> USE CorpusStays
<1>1. \A d : BlocksSound(d)' <=> BlocksSound(d)
  <2>1. \A S : {Near!BlockPairs(key) : key \in S}' = {Near!BlockPairs(key) : key \in S}
    OBVIOUS
  <2> QED BY <2>1 DEF BlocksSound
<1>2. \A d : EdgesSound(d)' <=> EdgesSound(d)
  BY DEF EdgesSound
<1>3. \A d : ArrayOf(d)' = ArrayOf(d)
  BY DEF ArrayOf
<1>4. \A d : TreesSound(d)' <=> TreesSound(d)
  BY <1>3 DEF TreesSound
<1>5. \A d : RootsSound(d)' <=> RootsSound(d)
  BY <1>3 DEF RootsSound
<1> QED BY <1>1, <1>2, <1>4, <1>5 DEF NearDatabaseSound

\* A field is changed and the others are not.
LEMMA FieldChanges ==
    ASSUME NEW d, IsNearDatabase(d), NEW f \in NearFields, NEW v
    PROVE  LET e == [d EXCEPT ![f] = v]
           IN  IsNearDatabase(e) /\ e[f] = v /\ \A g \in NearFields : g # f => e[g] = d[g]
BY DEF IsNearDatabase

\* The blocks are sound as long as they and their candidates stay.
LEMMA BlocksKept ==
    ASSUME NEW d, NEW e, BlocksSound(d), e.blocks = d.blocks, e.candidates = d.candidates,
           e.phase \in Collected => d.phase \in Collected \/ d.blocks = Near!Blocks
    PROVE  BlocksSound(e)
BY DEF BlocksSound

\* The edges are sound as long as they, the candidates and the cursor stay.
LEMMA EdgesKept ==
    ASSUME NEW d, NEW e, EdgesSound(d), e.candidates = d.candidates, e.refined = d.refined,
           e.refineCursor = d.refineCursor, e.edges = d.edges,
           e.phase \notin Refining => d.phase \notin Refining,
           e.phase \in Linking => d.phase \in Linking \/ (d.refined = d.candidates /\ Twins \subseteq EdgesOf(d))
    PROVE  EdgesSound(e)
BY DEF EdgesSound, EdgesOf

\* The trees are sound as long as the rows of parents and the edges stay.
LEMMA TreesKept ==
    ASSUME NEW d, NEW e, TreesSound(d), e.parents = d.parents, e.edges = d.edges, e.edgeCursor = d.edgeCursor,
           e.phase \notin Linking => d.phase \notin Linking
    PROVE  TreesSound(e)
<1>1. ArrayOf(e) = ArrayOf(d) /\ Consumed(e) = Consumed(d)
  BY DEF ArrayOf, Consumed
<1> QED BY <1>1 DEF TreesSound

\* The roots are sound as long as they and the rows they were read off stay.
LEMMA RootsKept ==
    ASSUME NEW d, NEW e, RootsSound(d), e.parents = d.parents, e.edges = d.edges, e.edgeCursor = d.edgeCursor,
           e.flattened = d.flattened, e.rooted = d.rooted, e.roots = d.roots,
           e.phase \notin Linking => d.phase \notin Linking,
           e.phase \in Emitted => d.phase \in Emitted \/ d.roots = Near!Reference
    PROVE  RootsSound(e)
<1>1. ArrayOf(e) = ArrayOf(d)
  BY DEF ArrayOf
<1> QED BY <1>1 DEF RootsSound

\* Before the edges are consumed there are no trees and no roots to keep.
LEMMA NoTreesYet ==
    ASSUME NEW d, NEW e, NearDatabaseSound(d), d.phase \notin Linking, e.phase \notin Linking, Listing(e.edges),
           e.parents = d.parents, e.edgeCursor = d.edgeCursor, e.rooted = d.rooted, e.roots = d.roots
    PROVE  TreesSound(e) /\ RootsSound(e)
<1>1. ArrayOf(e) = ArrayOf(d) /\ Consumed(e) = Consumed(d) /\ Consumed(d) = {}
  BY DEF ArrayOf, Consumed, NearDatabaseSound, TreesSound
<1>2. Len(e.edges) \in Nat
  BY DEF Listing
<1>3. TreesSound(e)
  BY <1>1, <1>2 DEF NearDatabaseSound, TreesSound
<1>4. e.phase \notin Emitted
  BY DEF Linking
<1>5. RootsSound(e)
  BY <1>1, <1>4 DEF NearDatabaseSound, RootsSound
<1> QED BY <1>3, <1>5

Unfinished == {"mapped", "described", "summed", "done"}

\* A process that is not at the files changes nothing about them.
LEMMA FilesKept ==
    ASSUME FilesSound, nearCorpus' = nearCorpus, nearPc' \notin Unfinished,
           UNCHANGED <<mapping, nearManifest, checksum>>
    PROVE  FilesSound'
BY CorpusStays DEF FilesSound, Unfinished

\* What a step away from the files leaves: a sound database, and in memory
\* no array or its own.
LEMMA WriteKeeps ==
    ASSUME NearSound, nearCorpus' = nearCorpus, NearDatabaseSound(nearDb'),
           UNCHANGED <<mapping, nearManifest, checksum>>,
           nearPc' \notin Unfinished, ~nearDb'.schema \/ nearPc' = "create" => nearDb'.phase = None,
           \/ parent' \in {None, ArrayOf(nearDb')}
           \/ parent' = parent /\ nearDb'.parents = nearDb.parents
    PROVE  NearSound'
<1>1. FilesSound'
  BY FilesKept DEF NearSound
<1>2. NearDatabaseSound(nearDb)'
  BY DatabasesStay
<1>3. ArrayOf(nearDb)' = ArrayOf(nearDb')
  BY DEF ArrayOf, Docs
<1>4. nearDb'.parents = nearDb.parents => ArrayOf(nearDb') = ArrayOf(nearDb)
  BY DEF ArrayOf
<1>5. (nearCorpus \in NearCorpora)' /\ (parent # None => parent = ArrayOf(nearDb))'
  BY <1>3, <1>4 DEF NearSound
<1>6. (~nearDb.schema \/ nearPc = "create" => nearDb.phase = None)'
  OBVIOUS
<1> QED BY <1>1, <1>2, <1>5, <1>6 DEF NearSound

\* A transaction.
LEMMA CommitKeeps ==
    ASSUME NearSound, NEW e, Near!Commit(e), nearPc = "run", NearDatabaseSound(e), e.parents = nearDb.parents,
           nearDb.phase # None, e.schema = nearDb.schema
    PROVE  NearSound'
<1>1. /\ nearDb' = e /\ nearCorpus' = nearCorpus /\ nearPc' = nearPc /\ parent' = parent
      /\ UNCHANGED <<mapping, nearManifest, checksum>>
  BY DEF Near!Commit, Near!files
<1>2. nearPc' \notin Unfinished /\ nearPc' # "create"
  BY <1>1 DEF Unfinished
<1>3. e.schema
  BY DEF NearSound
<1> QED BY <1>1, <1>2, <1>3, WriteKeeps

\* A process that ends, or goes on without a change of the database.
LEMMA StopKeeps ==
    ASSUME NearSound, nearCorpus' = nearCorpus, nearDb' = nearDb, nearPc' \notin Unfinished,
           nearPc' = "create" => nearDb.phase = None, parent' \in {None, parent},
           UNCHANGED <<mapping, nearManifest, checksum>>
    PROVE  NearSound'
BY WriteKeeps DEF NearSound

\* What the inventory that is built from is like.
LEMMA CorpusIs == NearSound => SoundCorpus
<1> SUFFICES ASSUME NearSound PROVE SoundCorpus
  OBVIOUS
<1>1. /\ nearCorpus \in Seq(Range(nearCorpus))
      /\ \A d \in DOMAIN nearCorpus :
            IsFiniteSet(nearCorpus[d].shingles) /\ nearCorpus[d].bands \subseteq Nat
  BY NearAssumption DEF NearSound
<1>2. Len(nearCorpus) \in Nat /\ DOMAIN nearCorpus = 1..Len(nearCorpus)
  BY <1>1
<1> QED BY <1>1, <1>2 DEF SoundCorpus, Docs

\* The names of the phases.
LEMMA PhasesNamed == None \notin Collected \cup {"inventory", "signatures", "candidates"}
<1>1. /\ Near!Phases = <<"inventory", "signatures", "candidates", "cache", "refine", "union", "emit", "complete">>
      /\ DOMAIN Near!Phases = 1..8
  BY DEF Near!Phases
<1>2. \A i \in 1..8 : None # Near!Phases[i]
  BY <1>1, NearAssumption DEF Range
<1>3. 1 \in 1..8 /\ 2 \in 1..8 /\ 3 \in 1..8 /\ 4 \in 1..8 /\ 5 \in 1..8 /\ 6 \in 1..8 /\ 7 \in 1..8 /\ 8 \in 1..8
  OBVIOUS
<1> QED BY <1>1, <1>2, <1>3 DEF Collected, Refining, Linking, Emitted

\* A transaction of a phase that keeps its tables, or of its end.
LEMMA PhaseKeeps ==
    ASSUME NEW d, NEW e, NearDatabaseSound(d), IsNearDatabase(e),
           e.blocks = d.blocks, e.candidates = d.candidates, e.refined = d.refined,
           e.refineCursor = d.refineCursor, e.edges = d.edges, e.parents = d.parents,
           e.edgeCursor = d.edgeCursor, e.flattened = d.flattened, e.rooted = d.rooted, e.roots = d.roots,
           e.phase \in Collected => d.phase \in Collected \/ d.blocks = Near!Blocks,
           e.phase \notin Refining => d.phase \notin Refining,
           e.phase \in Linking => d.phase \in Linking \/ (d.refined = d.candidates /\ Twins \subseteq EdgesOf(d)),
           e.phase \notin Linking => d.phase \notin Linking,
           e.phase \in Emitted => d.phase \in Emitted \/ d.roots = Near!Reference
    PROVE  NearDatabaseSound(e)
<1>1. BlocksSound(e)
  BY BlocksKept DEF NearDatabaseSound
<1>2. EdgesSound(e)
  BY EdgesKept DEF NearDatabaseSound
<1>3. TreesSound(e)
  BY TreesKept DEF NearDatabaseSound
<1>4. RootsSound(e)
  BY RootsKept DEF NearDatabaseSound
<1> QED BY <1>1, <1>2, <1>3, <1>4 DEF NearDatabaseSound

-----------------------------------------------------------------------------
(* The steps, up to the cache.                                             *)

\* A launch reads the database and has no array (__enter__).
LEMMA EnterStep == ASSUME NearSound, Near!Enter PROVE NearSound'
<1>1. nearPc' \in {"create", "run", "refused"} /\ (nearPc' = "create" => ~nearDb.schema)
  BY DEF Near!Enter
<1>2. nearCorpus' = nearCorpus /\ nearDb' = nearDb /\ parent' = None /\ UNCHANGED <<mapping, nearManifest, checksum>>
  BY DEF Near!Enter, Near!files
<1>3. nearPc' \notin Unfinished /\ (nearPc' = "create" => nearDb.phase = None)
  BY <1>1 DEF Unfinished, NearSound
<1> QED BY <1>2, <1>3, StopKeeps

\* The schema is committed before the identity rows (_create_schema).
LEMMA CreateSchemaStep == ASSUME NearSound, Near!CreateSchema PROVE NearSound'
<1> DEFINE d == nearDb
           e == [d EXCEPT !.schema = TRUE]
<1>1. /\ nearPc = "create" /\ nearDb' = e /\ nearCorpus' = nearCorpus /\ nearPc' = nearPc /\ parent' = parent
      /\ UNCHANGED <<mapping, nearManifest, checksum>>
  BY DEF Near!CreateSchema, Near!files
<1>2. IsNearDatabase(e) /\ \A g \in NearFields : g # "schema" => e[g] = d[g]
  BY FieldChanges DEF NearSound, NearDatabaseSound, NearFields
<1> HIDE DEF e
<1>3. /\ e.phase = d.phase /\ e.blocks = d.blocks /\ e.candidates = d.candidates /\ e.refined = d.refined
      /\ e.refineCursor = d.refineCursor /\ e.edges = d.edges /\ e.parents = d.parents
      /\ e.edgeCursor = d.edgeCursor /\ e.flattened = d.flattened /\ e.rooted = d.rooted /\ e.roots = d.roots
  BY <1>2 DEF NearFields
<1>4. NearDatabaseSound(e)
  BY <1>2, <1>3, PhaseKeeps DEF NearSound
<1>5. nearPc' \notin Unfinished /\ e.phase = None
  BY <1>1, <1>3 DEF Unfinished, NearSound
<1> QED BY <1>1, <1>3, <1>4, <1>5, WriteKeeps

\* The identity rows begin the inventory (_initialize_identity).
LEMMA InsertIdentityStep == ASSUME NearSound, Near!InsertIdentity PROVE NearSound'
<1> DEFINE d == nearDb
           e == [d EXCEPT !.phase = "inventory"]
<1>1. /\ nearPc = "create" /\ nearDb' = e /\ nearCorpus' = nearCorpus /\ nearPc' = "run" /\ parent' = parent
      /\ d.schema /\ UNCHANGED <<mapping, nearManifest, checksum>>
  BY DEF Near!InsertIdentity, Near!files
<1>2. IsNearDatabase(e) /\ e.phase = "inventory" /\ \A g \in NearFields : g # "phase" => e[g] = d[g]
  BY FieldChanges DEF NearSound, NearDatabaseSound, NearFields
<1> HIDE DEF e
<1>3. /\ e.schema = d.schema /\ e.blocks = d.blocks /\ e.candidates = d.candidates /\ e.refined = d.refined
      /\ e.refineCursor = d.refineCursor /\ e.edges = d.edges /\ e.parents = d.parents
      /\ e.edgeCursor = d.edgeCursor /\ e.flattened = d.flattened /\ e.rooted = d.rooted /\ e.roots = d.roots
  BY <1>2 DEF NearFields
<1>4. d.phase = None
  BY <1>1 DEF NearSound
<1>5. d.phase \notin Collected /\ e.phase \notin Collected
  BY <1>2, <1>4, PhasesNamed DEF Collected, Refining, Linking, Emitted
<1>6. NearDatabaseSound(e)
  BY <1>2, <1>3, <1>5, PhaseKeeps DEF NearSound, Collected, Refining, Linking
<1>7. nearPc' \notin Unfinished /\ nearPc' # "create"
  BY <1>1 DEF Unfinished
<1> QED BY <1>1, <1>3, <1>6, <1>7, WriteKeeps

\* The archives of the inventory, its signatures, the count of the blocks
\* and the rows of the caches are beside the tables.
LEMMA AsideSteps ==
    ASSUME NearSound, Near!IngestReport \/ Near!SignArchive \/ Near!FreezeBlocks \/ Near!CommitCache
    PROVE  NearSound'
<1> DEFINE d == nearDb
<1>1. PICK f, v : /\ f \in {"inventoried", "signed", "blocksTotal", "cached"} /\ nearPc = "run"
                  /\ d.phase \in {"inventory", "signatures", "candidates", "cache"}
                  /\ Near!Commit([d EXCEPT ![f] = v])
  BY DEF Near!IngestReport, Near!SignArchive, Near!FreezeBlocks, Near!CommitCache, Near!In
<1> DEFINE e == [d EXCEPT ![f] = v]
<1>2. IsNearDatabase(e) /\ \A g \in NearFields : g # f => e[g] = d[g]
  BY <1>1, FieldChanges DEF NearSound, NearDatabaseSound, NearFields
<1>3. Near!Commit(e)
  BY <1>1
<1> HIDE DEF e
<1>4. /\ e.schema = d.schema /\ e.phase = d.phase /\ e.blocks = d.blocks /\ e.candidates = d.candidates /\ e.refined = d.refined
      /\ e.refineCursor = d.refineCursor /\ e.edges = d.edges /\ e.parents = d.parents
      /\ e.edgeCursor = d.edgeCursor /\ e.flattened = d.flattened /\ e.rooted = d.rooted /\ e.roots = d.roots
  BY <1>1, <1>2 DEF NearFields
<1>5. NearDatabaseSound(e)
  BY <1>2, <1>4, PhaseKeeps DEF NearSound
<1>6. d.phase # None
  BY <1>1, PhasesNamed DEF Collected
<1> QED BY <1>1, <1>3, <1>4, <1>5, <1>6, CommitKeeps

\* The ends of the phases that leave nothing the next one reads.
LEMMA EarlyEnds ==
    ASSUME NearSound, Near!InventoryComplete \/ Near!SignaturesComplete \/ (Near!CacheComplete /\ nearDb' # nearDb)
    PROVE  NearSound'
<1> DEFINE d == nearDb
<1>1. PICK q \in {"signatures", "candidates", "refine"} :
         /\ nearPc = "run" /\ Near!Commit([d EXCEPT !.phase = q])
         /\ d.phase = CASE q = "signatures" -> "inventory" [] q = "candidates" -> "signatures"
                         [] q = "refine" -> "cache"
  BY DEF Near!InventoryComplete, Near!SignaturesComplete, Near!CacheComplete, Near!In, Near!Refuse
<1> DEFINE e == [d EXCEPT !.phase = q]
<1>2. IsNearDatabase(e) /\ e.phase = q /\ \A g \in NearFields : g # "phase" => e[g] = d[g]
  BY FieldChanges DEF NearSound, NearDatabaseSound, NearFields
<1>3. Near!Commit(e)
  BY <1>1
<1> HIDE DEF e
<1>4. /\ e.schema = d.schema /\ e.blocks = d.blocks /\ e.candidates = d.candidates /\ e.refined = d.refined
      /\ e.refineCursor = d.refineCursor /\ e.edges = d.edges /\ e.parents = d.parents
      /\ e.edgeCursor = d.edgeCursor /\ e.flattened = d.flattened /\ e.rooted = d.rooted /\ e.roots = d.roots
  BY <1>2 DEF NearFields
<1>5. /\ e.phase \in Collected => d.phase \in Collected
      /\ e.phase \notin Linking /\ d.phase \notin Linking /\ e.phase \notin Emitted /\ d.phase \notin Refining
  BY <1>1, <1>2 DEF Collected, Refining, Linking, Emitted
<1>6. NearDatabaseSound(e)
  BY <1>2, <1>4, <1>5, PhaseKeeps DEF NearSound
<1>7. d.phase # None
  BY <1>1, PhasesNamed DEF Collected
<1> QED BY <1>1, <1>3, <1>4, <1>6, <1>7, CommitKeeps

\* The steps that leave the database alone.
LEMMA QuietNearSteps ==
    ASSUME NearSound, nearDb' = nearDb, UNCHANGED <<nearCorpus, mapping, nearManifest, checksum>>,
           nearPc' \in {nearPc, "refused", "overflow", "down"}, nearPc' \notin Unfinished, parent' \in {None, parent}
    PROVE  NearSound'
<1>1. nearPc' = "create" => nearDb.phase = None
  BY DEF NearSound
<1> QED BY <1>1, StopKeeps

\* A refusal changes nothing but the process.
LEMMA RefuseKeeps ==
    ASSUME NearSound, NEW s \in {"refused", "overflow"}, Near!Refuse(s)
    PROVE  NearSound'
<1>1. nearPc' = s /\ nearDb' = nearDb /\ parent' = parent /\ UNCHANGED <<nearCorpus, mapping, nearManifest, checksum>>
  BY DEF Near!Refuse, Near!files
<1>2. nearPc' \notin Unfinished
  BY <1>1 DEF Unfinished
<1> QED BY <1>1, <1>2, QuietNearSteps

\* The cache files, the preflight and an interruption are beside the tables.
LEMMA QuietStepsOfNear ==
    ASSUME NearSound, Near!ReplaceCache \/ Near!MeasurePreflight \/ Near!PreflightFails \/ Near!Interrupt
    PROVE  NearSound'
<1>1. CASE Near!ReplaceCache
  <2>1. /\ nearPc = "run" /\ nearPc' = nearPc /\ nearDb' = nearDb /\ parent' = parent
        /\ UNCHANGED <<nearCorpus, mapping, nearManifest, checksum>>
    BY <1>1 DEF Near!ReplaceCache, Near!In
  <2> QED BY <2>1, QuietNearSteps DEF Unfinished
<1>2. CASE Near!MeasurePreflight
  <2>1. /\ nearPc = "run" /\ nearPc' \in {nearPc, "refused"} /\ nearDb' = nearDb /\ parent' = parent
        /\ UNCHANGED <<nearCorpus, mapping, nearManifest, checksum>>
    BY <1>2 DEF Near!MeasurePreflight, Near!In
  <2> QED BY <2>1, QuietNearSteps DEF Unfinished
<1>3. CASE Near!PreflightFails
  BY <1>3, RefuseKeeps DEF Near!PreflightFails
<1>4. CASE Near!Interrupt
  <2>1. /\ nearPc' = "down" /\ nearDb' = nearDb /\ parent' = None
        /\ UNCHANGED <<nearCorpus, mapping, nearManifest, checksum>>
    BY <1>4 DEF Near!Interrupt, Near!files
  <2> QED BY <2>1, QuietNearSteps DEF Unfinished
<1> QED BY <1>1, <1>2, <1>3, <1>4

\* The candidates are pairs of documents, finitely many.
LEMMA CandidatesArePairs ==
    ASSUME SoundCorpus, NEW d, BlocksSound(d)
    PROVE  d.candidates \subseteq Docs \X Docs /\ d.candidates \subseteq Nat \X Nat /\ IsFiniteSet(d.candidates)
<1>1. d.candidates \subseteq Docs \X Docs
  BY BlockPairIs DEF BlocksSound
<1>2. Docs \subseteq Nat /\ IsFiniteSet(Docs \X Docs)
  BY DocsFinite, FS_Product
<1> QED BY <1>1, <1>2, FS_Subset

\* Nothing was refined before the first batch.
LEMMA NoneRefinedYet ==
    ASSUME SoundCorpus, NEW P, P \subseteq Docs \X Docs
    PROVE  UpTo(P, <<0, 0>>) = {}
<1>1. \A p \in P : p[1] \in Nat /\ 0 < p[1]
  BY DEF Docs, SoundCorpus
<1> QED BY <1>1 DEF UpTo, Near!Precedes

\* The next block and its pairs are one transaction (generate_candidates).
LEMMA ReadBlockStep == ASSUME NearSound, Near!ReadBlock PROVE NearSound'
<1> DEFINE d == nearDb
           key == Near!Min(Near!Unread)
           e == [d EXCEPT !.candidates = Near!PairsWith(key), !.blocks = @ \cup {key}]
<1>0. SoundCorpus /\ IsNearDatabase(d) /\ NearDatabaseSound(d)
  BY CorpusIs DEF NearSound, NearDatabaseSound
<1>1. nearPc = "run" /\ d.phase = "candidates" /\ Near!Unread # {} /\ (Near!Refuse("overflow") \/ Near!Commit(e))
  BY DEF Near!ReadBlock, Near!In
<1>2. CASE Near!Refuse("overflow")
  BY <1>2, RefuseKeeps
<1>3. CASE Near!Commit(e)
  <2>1. key \in Near!Unread /\ \A k \in Near!Unread : key <= k
    <3>1. Near!Unread \subseteq Nat
      <4>1. Near!Blocks \subseteq Nat
        BY <1>0 DEF Near!Blocks, Near!Ordinals, SoundCorpus
      <4> QED BY <4>1 DEF Near!Unread
    <3>2. PICK k \in Near!Unread : \A m \in Near!Unread : k <= m
      BY <1>1, <3>1, LeastNumber
    <3>3. key = Min(Near!Unread)
      BY SameOperators
    <3> HIDE DEF key
    <3> QED BY <3>1, <3>2, <3>3 DEF Min
  <2>2. /\ e.schema = d.schema /\ e.phase = d.phase /\ e.blocks = d.blocks \cup {key} /\ e.candidates = Near!PairsWith(key)
        /\ e.refined = d.refined /\ e.refineCursor = d.refineCursor /\ e.edges = d.edges /\ e.parents = d.parents
        /\ e.edgeCursor = d.edgeCursor /\ e.flattened = d.flattened /\ e.rooted = d.rooted /\ e.roots = d.roots
        /\ IsNearDatabase(e)
    <3> HIDE DEF key
    <3> QED BY <1>0 DEF IsNearDatabase, NearFields
  <2> HIDE DEF e, key
  <2>3. BlocksSound(e)
    <3>1. key \in Near!Blocks
      BY <2>1 DEF Near!Unread
    <3>2. \A k \in Near!Blocks : k <= key => k \in e.blocks
      <4>1. Near!Blocks \subseteq Nat
        BY <1>0 DEF Near!Blocks, Near!Ordinals, SoundCorpus
      <4>2. ASSUME NEW k \in Near!Blocks, k <= key PROVE k \in e.blocks
        <5>1. CASE k \in Near!Unread
          BY <2>1, <2>2, <3>1, <4>1, <4>2, <5>1
        <5>2. CASE k \notin Near!Unread
          <6>1. PICK done \in d.blocks : ~(k > done)
            BY <5>2 DEF Near!Unread
          <6>2. done \in Nat /\ k \in Nat
            BY <1>0, <4>1 DEF NearDatabaseSound, BlocksSound
          <6> QED BY <1>0, <2>2, <6>1, <6>2 DEF NearDatabaseSound, BlocksSound
        <5> QED BY <5>1, <5>2
      <4> QED BY <4>2
    <3>3. \A done \in d.blocks : \A k \in Near!Blocks : k <= done => k \in e.blocks
      BY <1>0, <2>2 DEF NearDatabaseSound, BlocksSound
    <3>4. e.candidates = UNION {Near!BlockPairs(k) : k \in e.blocks}
      BY <1>0, <2>2 DEF Near!PairsWith, NearDatabaseSound, BlocksSound
    <3>5. e.phase \notin Collected
      BY <1>1, <2>2 DEF Collected, Refining, Linking, Emitted
    <3> QED BY <1>0, <2>2, <3>1, <3>2, <3>3, <3>4, <3>5 DEF NearDatabaseSound, BlocksSound
  <2>4. e.phase \notin Refining /\ e.phase \notin Linking /\ d.phase \notin Refining /\ d.phase \notin Linking
    BY <1>1, <2>2 DEF Refining, Linking, Emitted
  <2>5. EdgesSound(e)
    <3>1. d.refineCursor = <<0, 0>> /\ d.edges = <<>> /\ d.refined = UpTo(d.candidates, <<0, 0>>)
      BY <1>0, <2>4 DEF NearDatabaseSound, EdgesSound
    <3>2. d.candidates \subseteq Docs \X Docs /\ e.candidates \subseteq Docs \X Docs
      BY <1>0, <2>3, CandidatesArePairs DEF NearDatabaseSound
    <3>3. e.refined = UpTo(e.candidates, e.refineCursor)
      BY <1>0, <2>2, <3>1, <3>2, NoneRefinedYet
    <3>4. EdgesOf(e) = EdgesOf(d)
      BY <2>2 DEF EdgesOf
    <3> QED BY <1>0, <2>2, <2>4, <3>1, <3>3, <3>4 DEF NearDatabaseSound, EdgesSound
  <2>6. TreesSound(e) /\ RootsSound(e)
    <3>1. Listing(e.edges)
      BY <2>5 DEF EdgesSound
    <3> QED BY <1>0, <2>2, <2>4, <3>1, NoTreesYet
  <2>7. NearDatabaseSound(e)
    BY <2>2, <2>3, <2>5, <2>6 DEF NearDatabaseSound
  <2>8. d.phase # None
    BY <1>1, PhasesNamed
  <2> QED BY <1>1, <1>3, <2>2, <2>7, <2>8, CommitKeeps
<1> QED BY <1>1, <1>2, <1>3

\* Once no block is unread every block was read (generate_candidates).
LEMMA CandidatesCompleteStep == ASSUME NearSound, Near!CandidatesComplete PROVE NearSound'
<1> DEFINE d == nearDb
           e == [d EXCEPT !.phase = "cache", !.pairsTotal = Near!Cardinality(nearDb.candidates)]
<1>0. SoundCorpus /\ IsNearDatabase(d) /\ NearDatabaseSound(d)
  BY CorpusIs DEF NearSound, NearDatabaseSound
<1>1. nearPc = "run" /\ d.phase = "candidates" /\ Near!Unread = {} /\ Near!Commit(e)
  BY DEF Near!CandidatesComplete, Near!In
<1>2. /\ e.phase = "cache"
      /\ e.schema = d.schema /\ e.blocks = d.blocks /\ e.candidates = d.candidates /\ e.refined = d.refined
      /\ e.refineCursor = d.refineCursor /\ e.edges = d.edges /\ e.parents = d.parents
      /\ e.edgeCursor = d.edgeCursor /\ e.flattened = d.flattened /\ e.rooted = d.rooted /\ e.roots = d.roots
      /\ IsNearDatabase(e)
  BY <1>0 DEF IsNearDatabase, NearFields
<1> HIDE DEF e
<1>3. d.blocks = Near!Blocks
  <2>1. Near!Blocks \subseteq Nat
    BY <1>0 DEF Near!Blocks, Near!Ordinals, SoundCorpus
  <2>2. ASSUME NEW k \in Near!Blocks PROVE k \in d.blocks
    <3>1. PICK done \in d.blocks : ~(k > done)
      BY <1>1 DEF Near!Unread
    <3>2. done \in Nat /\ k \in Nat
      BY <1>0, <2>1 DEF NearDatabaseSound, BlocksSound
    <3> QED BY <1>0, <3>1, <3>2 DEF NearDatabaseSound, BlocksSound
  <2> QED BY <1>0, <2>2 DEF NearDatabaseSound, BlocksSound
<1>4. /\ e.phase \notin Linking /\ d.phase \notin Linking /\ e.phase \notin Emitted /\ d.phase \notin Refining
  BY <1>1, <1>2 DEF Refining, Linking, Emitted
<1>5. NearDatabaseSound(e)
  BY <1>0, <1>2, <1>3, <1>4, PhaseKeeps
<1>6. d.phase # None
  BY <1>1, PhasesNamed
<1> QED BY <1>1, <1>2, <1>5, <1>6, CommitKeeps

-----------------------------------------------------------------------------
(* Refinement.                                                             *)

(* The edges after a transaction that adds some. *)
JoinedTo(u, s, P) == Listing(u) /\ {u[i] : i \in 1..Len(u)} = {s[i] : i \in 1..Len(s)} \cup P

\* A listing of new edges goes to the end of the old ones.
LEMMA EdgesJoined ==
    ASSUME NEW s, NEW P, Listing(s), P \subseteq Nat \X Nat, IsFiniteSet(P)
    PROVE  JoinedTo(s \o Near!InOrder(P), s, P)
<1> DEFINE t == Near!InOrder(P)
           u == s \o t
<1>1. Listing(t) /\ {t[i] : i \in 1..Len(t)} = P
  BY InOrderIs
<1> HIDE DEF t
<1>2. Follows(u, s, t)
  BY <1>1, Joined
<1> HIDE DEF u
<1>3. Listing(u) /\ Len(u) = Len(s) + Len(t) /\ Len(s) \in Nat /\ Len(t) \in Nat
  BY <1>1, <1>2 DEF Follows, Listing
<1>4. \A i \in 1..Len(s) : u[i] = s[i] /\ i \in 1..Len(u)
  BY <1>2, <1>3 DEF Follows
<1>5. \A i \in 1..Len(t) : u[Len(s) + i] = t[i] /\ Len(s) + i \in 1..Len(u)
  BY <1>2, <1>3 DEF Follows
<1>6. \A i \in 1..Len(u) : i \in 1..Len(s) \/ (i - Len(s) \in 1..Len(t) /\ i = Len(s) + (i - Len(s)))
  BY <1>3
<1>7. {u[i] : i \in 1..Len(u)} = {s[i] : i \in 1..Len(s)} \cup P
  <2>1. ASSUME NEW i \in 1..Len(u) PROVE u[i] \in {s[j] : j \in 1..Len(s)} \cup P
    <3>1. CASE i \in 1..Len(s)
      BY <1>4, <3>1
    <3>2. CASE i \notin 1..Len(s)
      <4>1. i - Len(s) \in 1..Len(t) /\ i = Len(s) + (i - Len(s))
        BY <1>6, <3>2
      <4>2. u[i] = t[i - Len(s)]
        BY <1>5, <4>1
      <4> QED BY <1>1, <4>1, <4>2
    <3> QED BY <3>1, <3>2
  <2>2. ASSUME NEW p \in P PROVE p \in {u[i] : i \in 1..Len(u)}
    <3>1. PICK j \in 1..Len(t) : t[j] = p
      BY <1>1
    <3> QED BY <1>5, <3>1
  <2>3. \A j \in 1..Len(s) : s[j] \in {u[i] : i \in 1..Len(u)}
    BY <1>4
  <2> QED BY <2>1, <2>2, <2>3
<1>8. JoinedTo(u, s, P)
  BY <1>3, <1>7 DEF JoinedTo
<1> QED BY <1>8 DEF u, t

\* A batch of pairs, its accepted edges and the cursor are one transaction
\* (refine_candidates).
LEMMA RefineBatchStep == ASSUME NearSound, Near!RefineBatch PROVE NearSound'
<1> DEFINE d == nearDb
           batch == Near!PairsAfter(d.candidates, d.refineCursor, NearBatch)
           last == Near!Last(Near!InOrder(batch))
           more == {p \in batch : Near!Accepts(p)}
           e == [d EXCEPT !.refined = @ \cup batch, !.edges = @ \o Near!InOrder(more), !.refineCursor = last]
<1>0. SoundCorpus /\ IsNearDatabase(d) /\ NearDatabaseSound(d) /\ BlocksSound(d) /\ EdgesSound(d)
  BY CorpusIs DEF NearSound, NearDatabaseSound
<1>1. /\ nearPc = "run" /\ d.phase = "refine" /\ Near!PairsAfter(d.candidates, d.refineCursor, 1) # {}
      /\ Near!Refuse("refused") \/ Near!Commit(e)
  BY DEF Near!RefineBatch, Near!Refining, Near!In
<1>2. CASE Near!Refuse("refused")
  BY <1>2, RefuseKeeps
<1>3. CASE Near!Commit(e)
  <2>1. d.candidates \subseteq Docs \X Docs /\ d.candidates \subseteq Nat \X Nat /\ IsFiniteSet(d.candidates)
    BY <1>0, CandidatesArePairs
  <2>2. /\ batch \subseteq d.candidates /\ IsFiniteSet(batch) /\ last \in batch
        /\ UpTo(d.candidates, last) = UpTo(d.candidates, d.refineCursor) \cup batch
    <3>1. d.refineCursor \in Nat \X Nat
      BY <1>0 DEF EdgesSound
    <3>2. last = Last(Near!InOrder(batch))
      BY SameOperators
    <3> HIDE DEF last
    <3> QED BY <1>1, <2>1, <3>1, <3>2, BatchOfPairs, NearAssumption
  <2>3. more = Accepted(batch)
    BY DEF Accepted
  <2> HIDE DEF batch, last, more
  <2>4. /\ e.refined = d.refined \cup batch /\ e.edges = d.edges \o Near!InOrder(more) /\ e.refineCursor = last
        /\ e.schema = d.schema /\ e.phase = d.phase /\ e.blocks = d.blocks /\ e.candidates = d.candidates
        /\ e.parents = d.parents /\ e.edgeCursor = d.edgeCursor /\ e.flattened = d.flattened
        /\ e.rooted = d.rooted /\ e.roots = d.roots /\ IsNearDatabase(e)
    BY <1>0 DEF IsNearDatabase, NearFields
  <2> HIDE DEF e
  <2>5. more \subseteq batch /\ more \subseteq Nat \X Nat /\ IsFiniteSet(more)
    <3>1. more \subseteq batch
      BY <2>3 DEF Accepted
    <3> QED BY <2>1, <2>2, <3>1, FS_Subset
  <2>6. Listing(e.edges) /\ EdgesOf(e) = EdgesOf(d) \cup more
    <3>1. Listing(d.edges)
      BY <1>0 DEF EdgesSound
    <3>2. JoinedTo(d.edges \o Near!InOrder(more), d.edges, more)
      BY <2>5, <3>1, EdgesJoined
    <3>3. JoinedTo(e.edges, d.edges, more)
      BY <2>4, <3>2
    <3> QED BY <3>3 DEF EdgesOf, JoinedTo
  <2>7. Accepted(e.refined) = Accepted(d.refined) \cup more
    BY <2>3, <2>4 DEF Accepted
  <2>8. e.phase \in Refining /\ e.phase \notin Linking /\ d.phase \notin Linking
    BY <1>1, <2>4 DEF Refining, Linking, Emitted
  <2>9. EdgesSound(e)
    <3>1. e.refineCursor \in Nat \X Nat
      BY <2>1, <2>2, <2>4
    <3>2. e.refined = UpTo(e.candidates, e.refineCursor)
      BY <1>0, <2>2, <2>4 DEF EdgesSound
    <3>3. Accepted(e.refined) \subseteq EdgesOf(e) /\ EdgesOf(e) \subseteq Accepted(e.refined) \cup Twins
      BY <1>0, <2>6, <2>7 DEF EdgesSound
    <3> QED BY <2>6, <2>8, <3>1, <3>2, <3>3 DEF EdgesSound
  <2>10. BlocksSound(e)
    BY <1>0, <2>4, BlocksKept
  <2>11. TreesSound(e) /\ RootsSound(e)
    BY <1>0, <2>4, <2>6, <2>8, NoTreesYet
  <2>12. NearDatabaseSound(e)
    BY <2>4, <2>9, <2>10, <2>11 DEF NearDatabaseSound
  <2>13. d.phase # None
    BY <1>1, PhasesNamed DEF Collected, Refining
  <2> QED BY <1>1, <1>3, <2>4, <2>12, <2>13, CommitKeeps
<1> QED BY <1>1, <1>2, <1>3

\* What has no edge yet of the twins.
LEMMA TwinsLeft ==
    ASSUME SoundCorpus, EdgesSound(nearDb)
    PROVE  Near!NormalizedEdges = Twins \ EdgesOf(nearDb)
<1>1. Near!Range(nearDb.edges) = EdgesOf(nearDb)
  <2>1. Len(nearDb.edges) \in Nat /\ nearDb.edges = [i \in 1..Len(nearDb.edges) |-> nearDb.edges[i]]
    BY DEF EdgesSound, Listing
  <2>2. DOMAIN nearDb.edges = 1..Len(nearDb.edges)
    BY <2>1
  <2> QED BY <2>2, SameOperators DEF Range, EdgesOf
<1>2. Near!Ordinals = Docs
  BY DocsFinite
<1> QED BY <1>1, <1>2 DEF Near!NormalizedEdges, Twins

\* Twins are pairs of documents, finitely many.
LEMMA TwinsArePairs ==
    ASSUME SoundCorpus
    PROVE  Twins \subseteq Docs \X Docs /\ Twins \subseteq Nat \X Nat /\ IsFiniteSet(Twins)
<1>1. Twins \subseteq Docs \X Docs
  BY DocsFinite DEF Twins
<1>2. Docs \subseteq Nat /\ IsFiniteSet(Docs \X Docs)
  BY DocsFinite, FS_Product
<1> QED BY <1>1, <1>2, FS_Subset

\* The edges of equal texts that are not there yet are added (refine_candidates).
LEMMA AddNormalizedEdgesStep == ASSUME NearSound, Near!AddNormalizedEdges PROVE NearSound'
<1> DEFINE d == nearDb
           more == Near!NormalizedEdges
           e == [d EXCEPT !.edges = @ \o Near!InOrder(more)]
<1>0. SoundCorpus /\ IsNearDatabase(d) /\ NearDatabaseSound(d) /\ BlocksSound(d) /\ EdgesSound(d)
  BY CorpusIs DEF NearSound, NearDatabaseSound
<1>1. nearPc = "run" /\ d.phase = "refine" /\ (Near!Refuse("refused") \/ Near!Commit(e))
  BY DEF Near!AddNormalizedEdges, Near!Refining, Near!In
<1>2. CASE Near!Refuse("refused")
  BY <1>2, RefuseKeeps
<1>3. CASE Near!Commit(e)
  <2>1. more \subseteq Twins /\ more \subseteq Nat \X Nat /\ IsFiniteSet(more)
    <3>1. more \subseteq Twins
      BY <1>0, TwinsLeft
    <3> HIDE DEF more
    <3> QED BY <1>0, <3>1, TwinsArePairs, FS_Subset
  <2> HIDE DEF more
  <2>2. /\ e.edges = d.edges \o Near!InOrder(more)
        /\ e.schema = d.schema /\ e.phase = d.phase /\ e.blocks = d.blocks /\ e.candidates = d.candidates
        /\ e.refined = d.refined /\ e.refineCursor = d.refineCursor
        /\ e.parents = d.parents /\ e.edgeCursor = d.edgeCursor /\ e.flattened = d.flattened
        /\ e.rooted = d.rooted /\ e.roots = d.roots /\ IsNearDatabase(e)
    BY <1>0 DEF IsNearDatabase, NearFields
  <2> HIDE DEF e
  <2>3. Listing(e.edges) /\ EdgesOf(e) = EdgesOf(d) \cup more
    <3>1. Listing(d.edges)
      BY <1>0 DEF EdgesSound
    <3>2. JoinedTo(d.edges \o Near!InOrder(more), d.edges, more)
      BY <2>1, <3>1, EdgesJoined
    <3>3. JoinedTo(e.edges, d.edges, more)
      BY <2>2, <3>2
    <3> QED BY <3>3 DEF EdgesOf, JoinedTo
  <2>4. e.phase \in Refining /\ e.phase \notin Linking /\ d.phase \notin Linking
    BY <1>1, <2>2 DEF Refining, Linking, Emitted
  <2>5. EdgesSound(e)
    BY <1>0, <2>1, <2>2, <2>3, <2>4 DEF EdgesSound
  <2>6. BlocksSound(e)
    BY <1>0, <2>2, BlocksKept
  <2>7. TreesSound(e) /\ RootsSound(e)
    BY <1>0, <2>2, <2>3, <2>4, NoTreesYet
  <2>8. NearDatabaseSound(e)
    BY <2>2, <2>5, <2>6, <2>7 DEF NearDatabaseSound
  <2>9. d.phase # None
    BY <1>1, PhasesNamed DEF Collected, Refining
  <2> QED BY <1>1, <1>3, <2>2, <2>8, <2>9, CommitKeeps
<1> QED BY <1>1, <1>2, <1>3

\* After the last pair and the last twin the edges are all there are.
LEMMA RefineCompleteStep == ASSUME NearSound, Near!RefineComplete PROVE NearSound'
<1> DEFINE d == nearDb
           e == [d EXCEPT !.phase = "union"]
<1>0. SoundCorpus /\ IsNearDatabase(d) /\ NearDatabaseSound(d) /\ BlocksSound(d) /\ EdgesSound(d)
  BY CorpusIs DEF NearSound, NearDatabaseSound
<1>1. /\ nearPc = "run" /\ d.phase = "refine" /\ Near!Commit(e)
      /\ Near!PairsAfter(d.candidates, d.refineCursor, 1) = {} /\ Near!NormalizedEdges = {}
  BY DEF Near!RefineComplete, Near!Refining, Near!In, Near!AllRefined
<1>2. /\ e.phase = "union" /\ e.schema = d.schema /\ e.blocks = d.blocks /\ e.candidates = d.candidates /\ e.refined = d.refined
      /\ e.refineCursor = d.refineCursor /\ e.edges = d.edges /\ e.parents = d.parents
      /\ e.edgeCursor = d.edgeCursor /\ e.flattened = d.flattened /\ e.rooted = d.rooted /\ e.roots = d.roots
      /\ IsNearDatabase(e)
  BY <1>0 DEF IsNearDatabase, NearFields
<1> HIDE DEF e
<1>3. d.refined = d.candidates
  <2>1. d.candidates \subseteq Nat \X Nat /\ IsFiniteSet(d.candidates)
    BY <1>0, CandidatesArePairs
  <2>2. d.refineCursor \in Nat \X Nat /\ d.refined = UpTo(d.candidates, d.refineCursor)
    BY <1>0 DEF EdgesSound
  <2>3. 1 \in Positive
    BY DEF Positive
  <2> QED BY <1>1, <2>1, <2>2, <2>3, NothingAfter
<1>4. Twins \subseteq EdgesOf(d)
  BY <1>0, <1>1, TwinsLeft
<1>5. /\ e.phase \in Linking /\ e.phase \notin Emitted /\ d.phase \in Collected /\ e.phase \in Refining
  BY <1>1, <1>2 DEF Collected, Refining, Linking, Emitted
<1>6. NearDatabaseSound(e)
  BY <1>0, <1>2, <1>3, <1>4, <1>5, PhaseKeeps
<1>7. d.phase # None
  BY <1>5, PhasesNamed
<1> QED BY <1>1, <1>2, <1>6, <1>7, CommitKeeps

\* The caches end with every document a pair needs, or the build is refused.
LEMMA CacheCompleteStep == ASSUME NearSound, Near!CacheComplete PROVE NearSound'
<1>1. CASE nearDb' # nearDb
  BY <1>1, EarlyEnds
<1>2. CASE nearDb' = nearDb
  <2>1. /\ nearPc = "run" /\ nearPc' \in {nearPc, "refused"} /\ parent' = parent
        /\ UNCHANGED <<nearCorpus, mapping, nearManifest, checksum>>
    BY DEF Near!CacheComplete, Near!In, Near!Commit, Near!Refuse, Near!files
  <2> QED BY <1>2, <2>1, QuietNearSteps DEF Unfinished
<1> QED BY <1>1, <1>2

\* An edge joins two documents.
LEMMA EdgesArePairs ==
    ASSUME SoundCorpus, NearDatabaseSound(nearDb)
    PROVE  \A i \in 1..Len(nearDb.edges) : nearDb.edges[i][1] \in Docs /\ nearDb.edges[i][2] \in Docs
<1>1. nearDb.refined \subseteq Docs \X Docs
  <2>1. nearDb.candidates \subseteq Docs \X Docs
    BY CandidatesArePairs DEF NearDatabaseSound
  <2> QED BY <2>1 DEF NearDatabaseSound, EdgesSound, UpTo
<1>2. EdgesOf(nearDb) \subseteq Docs \X Docs
  BY <1>1, TwinsArePairs DEF NearDatabaseSound, EdgesSound, Accepted
<1>3. \A i \in 1..Len(nearDb.edges) : nearDb.edges[i] \in EdgesOf(nearDb)
  BY DEF EdgesOf
<1>4. \A p \in Docs \X Docs : p[1] \in Docs /\ p[2] \in Docs
  OBVIOUS
<1> QED BY <1>2, <1>3, <1>4

-----------------------------------------------------------------------------
(* Unions, and the roots.                                                  *)

\* The array a process loads is the one its rows stand for (union_edges).
LEMMA LoadParentsStep == ASSUME NearSound, Near!LoadParents PROVE NearSound'
<1>1. /\ nearPc = "run" /\ nearPc' = nearPc /\ nearDb' = nearDb /\ parent' = Near!ParentArray /\ nearCorpus' = nearCorpus
      /\ UNCHANGED <<mapping, nearManifest, checksum>>
  BY DEF Near!LoadParents, Near!In, Near!files
<1>2. Near!Ordinals = Docs
  BY CorpusIs, DocsFinite
<1>3. parent' = ArrayOf(nearDb')
  BY <1>1, <1>2 DEF Near!ParentArray, ArrayOf
<1>4. NearDatabaseSound(nearDb')
  BY <1>1 DEF NearSound
<1>5. nearPc' \notin Unfinished /\ (~nearDb'.schema \/ nearPc' = "create" => nearDb'.phase = None)
  BY <1>1 DEF Unfinished, NearSound
<1> QED BY <1>1, <1>3, <1>4, <1>5, WriteKeeps

\* A batch of edges: the rows of the changed documents are the array in memory,
\* and its trees those of the edges up to the cursor (union_edges).
LEMMA UnionBatchStep == ASSUME NearSound, Near!UnionBatch PROVE NearSound'
<1> DEFINE d == nearDb
           N == Len(nearCorpus)
           A == ArrayOf(d)
           last == Near!Min({d.edgeCursor + NearBatch, Len(d.edges)})
           start == [array |-> parent, changed |-> {}, merges |-> d.merges]
           after == Near!AfterEdges(start, d.edgeCursor, last)
           rows == DOMAIN d.parents \cup after.changed
           kept == [x \in rows |-> IF x \in after.changed THEN after.array[x] ELSE d.parents[x]]
           e == [d EXCEPT !.edgeCursor = last, !.merges = after.merges, !.parents = kept]
<1>0. /\ SoundCorpus /\ IsNearDatabase(d) /\ NearDatabaseSound(d) /\ BlocksSound(d)
      /\ EdgesSound(d) /\ TreesSound(d) /\ RootsSound(d)
  BY CorpusIs DEF NearSound, NearDatabaseSound
<1>1. /\ nearPc = "run" /\ d.phase = "union" /\ d.edgeCursor < Len(d.edges) /\ parent # None
      /\ parent' = after.array /\ nearDb' = e /\ nearCorpus' = nearCorpus /\ nearPc' = nearPc
      /\ UNCHANGED <<mapping, nearManifest, checksum>>
  BY DEF Near!UnionBatch, Near!In, Near!EdgesLeft, Near!files
<1>2. parent = A
  BY <1>1 DEF NearSound
<1>3. d.edgeCursor \in Nat /\ Len(d.edges) \in Nat /\ last \in Nat /\ d.edgeCursor < last /\ last <= Len(d.edges)
  <2>1. d.edgeCursor \in Nat /\ Len(d.edges) \in Nat
    BY <1>0 DEF TreesSound, EdgesSound, Listing
  <2>2. NearBatch \in Nat /\ NearBatch > 0
    BY NearAssumption DEF Positive
  <2>3. d.edgeCursor + NearBatch \in Nat /\ d.edgeCursor + NearBatch > d.edgeCursor
    BY <2>1, <2>2
  <2>4. last = Min({d.edgeCursor + NearBatch, Len(d.edges)})
    BY SameOperators
  <2>5. last = IF d.edgeCursor + NearBatch <= Len(d.edges) THEN d.edgeCursor + NearBatch ELSE Len(d.edges)
    BY <2>1, <2>3, <2>4, OfTwo
  <2> HIDE DEF last
  <2> QED BY <1>1, <2>1, <2>3, <2>5
<1>4. N \in Nat /\ Docs = 1..N /\ Forest(A, N)
  BY <1>0 DEF SoundCorpus, Docs, TreesSound
<1>5. start.array = A /\ start.changed = {}
  BY <1>2
<1> HIDE DEF last, start, A, N
<1>6. /\ Joins(start, after, N)
      /\ \A S : Uncut(after.array, S) <=> Uncut(A, S) /\ \A i \in d.edgeCursor + 1 .. last : Linked(d.edges[i], S)
  <2>1. \A i \in d.edgeCursor + 1 .. last : d.edges[i][1] \in 1..N /\ d.edges[i][2] \in 1..N
    BY <1>0, <1>3, <1>4, EdgesArePairs
  <2>2. start.changed \subseteq 1..N /\ Forest(start.array, N) /\ d.edgeCursor <= last
    BY <1>3, <1>4, <1>5
  <2> HIDE DEF d
  <2> QED BY <1>3, <1>4, <1>5, <2>1, <2>2, AfterEdgesIs DEF d
<1> HIDE DEF after
<1>7. /\ Forest(after.array, N) /\ after.changed \subseteq Docs
      /\ \A x \in Docs : x \notin after.changed => after.array[x] = A[x]
  BY <1>4, <1>5, <1>6 DEF Joins
<1>8. /\ e.edgeCursor = last /\ e.parents = kept
      /\ e.schema = d.schema /\ e.phase = d.phase /\ e.blocks = d.blocks /\ e.candidates = d.candidates
      /\ e.refined = d.refined /\ e.refineCursor = d.refineCursor /\ e.edges = d.edges
      /\ e.flattened = d.flattened /\ e.rooted = d.rooted /\ e.roots = d.roots /\ IsNearDatabase(e)
  <2> HIDE DEF kept
  <2> QED BY <1>0 DEF IsNearDatabase, NearFields
<1> HIDE DEF e
<1>9. ArrayOf(e) = after.array
  <2>1. after.array = [x \in Docs |-> after.array[x]]
    BY <1>4, <1>7 DEF Forest
  <2>2. ASSUME NEW x \in Docs PROVE (IF x \in DOMAIN kept THEN kept[x] ELSE x) = after.array[x]
    <3>1. CASE x \in after.changed
      BY <3>1
    <3>2. CASE x \notin after.changed
      <4>1. A[x] = IF x \in DOMAIN d.parents THEN d.parents[x] ELSE x
        BY DEF A, ArrayOf
      <4>2. after.array[x] = A[x]
        BY <1>7, <3>2
      <4> QED BY <3>2, <4>1, <4>2
    <3> QED BY <3>1, <3>2
  <2> HIDE DEF kept
  <2> QED BY <1>8, <2>1, <2>2 DEF ArrayOf
<1>10. TreesSound(e)
  <2>1. DOMAIN e.parents \subseteq Docs
    BY <1>0, <1>7, <1>8 DEF TreesSound
  <2>2. ASSUME NEW S PROVE Uncut(ArrayOf(e), S) <=> \A i \in Consumed(e) : Linked(e.edges[i], S)
    <3>1. Uncut(A, S) <=> \A i \in 1..d.edgeCursor : Linked(d.edges[i], S)
      BY <1>0 DEF TreesSound, A, Consumed
    <3>2. \A i : i \in 1..last <=> i \in 1..d.edgeCursor \/ i \in d.edgeCursor + 1 .. last
      BY <1>3
    <3>3. Uncut(ArrayOf(e), S) <=> Uncut(A, S) /\ \A i \in d.edgeCursor + 1 .. last : Linked(d.edges[i], S)
      BY <1>6, <1>9
    <3>4. Consumed(e) = 1..last /\ e.edges = d.edges
      BY <1>8 DEF Consumed
    <3> HIDE DEF d
    <3> QED BY <3>1, <3>2, <3>3, <3>4, Zenon
  <2>3. e.edgeCursor \in 0..Len(e.edges)
    BY <1>3, <1>8
  <2>4. Forest(ArrayOf(e), Len(nearCorpus)) /\ e.phase \in Linking
    BY <1>1, <1>7, <1>8, <1>9 DEF N, Linking
  <2> QED BY <2>1, <2>2, <2>3, <2>4 DEF TreesSound
<1>11. RootsSound(e)
  <2>1. d.rooted = None
    BY <1>0, <1>1, <1>3 DEF RootsSound
  <2>2. e.phase \notin Emitted
    BY <1>1, <1>8 DEF Emitted
  <2> QED BY <1>0, <1>8, <2>1, <2>2 DEF RootsSound
<1>12. BlocksSound(e) /\ EdgesSound(e)
  <2>1. e.phase \in Collected => d.phase \in Collected
    BY <1>8
  <2> QED BY <1>0, <1>8, <2>1, BlocksKept, EdgesKept
<1>13. NearDatabaseSound(e)
  BY <1>8, <1>10, <1>11, <1>12 DEF NearDatabaseSound
<1>14. nearPc' \notin Unfinished /\ e.schema /\ nearPc' # "create"
  <2>1. d.phase # None
    BY <1>1, PhasesNamed DEF Collected, Refining, Linking
  <2> QED BY <1>1, <1>8, <2>1 DEF Unfinished, NearSound
<1> QED BY <1>1, <1>9, <1>13, <1>14, WriteKeeps

\* A batch of rows is flattened: the trees stay (union_edges).
LEMMA FlattenBatchStep == ASSUME NearSound, Near!FlattenBatch PROVE NearSound'
<1> DEFINE d == nearDb
           N == Len(nearCorpus)
           A == ArrayOf(d)
           batch == Near!NumbersAfter(DOMAIN d.parents, Near!Progress.document, NearBatch)
           kept == [x \in DOMAIN d.parents |-> IF x \in batch THEN Near!RootIn(parent, x) ELSE d.parents[x]]
           reached == [document |-> Near!Max(batch), processed |-> Near!Progress.processed + Near!Cardinality(batch),
                       total |-> Near!Progress.total]
           c == [d EXCEPT !.flattened = Near!Progress]
           e == [d EXCEPT !.parents = kept, !.flattened = reached]
<1>0. /\ SoundCorpus /\ IsNearDatabase(d) /\ NearDatabaseSound(d) /\ BlocksSound(d)
      /\ EdgesSound(d) /\ TreesSound(d) /\ RootsSound(d)
  BY CorpusIs DEF NearSound, NearDatabaseSound
<1>1. /\ nearPc = "run" /\ d.phase = "union" /\ ~(d.edgeCursor < Len(d.edges)) /\ Near!FlattenLeft
      /\ \/ Near!Commit(c)
         \/ Near!Refuse("refused")
         \/ /\ parent # None
            /\ parent' = [x \in Near!Ordinals |-> IF x \in batch THEN Near!RootIn(parent, x) ELSE parent[x]]
            /\ nearDb' = e /\ nearCorpus' = nearCorpus /\ nearPc' = nearPc
            /\ UNCHANGED <<mapping, nearManifest, checksum>>
  BY DEF Near!FlattenBatch, Near!In, Near!EdgesLeft, Near!files
<1>2. d.rooted = None /\ d.roots = <<>>
  BY <1>0, <1>1 DEF RootsSound, Near!FlattenLeft
<1>3. d.phase # None
  BY <1>1, PhasesNamed DEF Collected, Refining, Linking
<1>4. CASE Near!Commit(c)
  <2>1. /\ c.schema = d.schema /\ c.phase = d.phase /\ c.blocks = d.blocks /\ c.candidates = d.candidates
        /\ c.refined = d.refined /\ c.refineCursor = d.refineCursor /\ c.edges = d.edges /\ c.parents = d.parents
        /\ c.edgeCursor = d.edgeCursor /\ c.rooted = d.rooted /\ c.roots = d.roots /\ IsNearDatabase(c)
    BY <1>0 DEF IsNearDatabase, NearFields
  <2> HIDE DEF c
  <2>2. BlocksSound(c) /\ EdgesSound(c) /\ TreesSound(c)
    <3>1. c.phase \in Collected => d.phase \in Collected
      BY <2>1
    <3> QED BY <1>0, <2>1, <3>1, BlocksKept, EdgesKept, TreesKept
  <2>3. RootsSound(c)
    <3>1. c.phase \notin Emitted
      BY <1>1, <2>1 DEF Emitted
    <3> QED BY <1>2, <2>1, <3>1 DEF RootsSound
  <2>4. NearDatabaseSound(c)
    BY <2>1, <2>2, <2>3 DEF NearDatabaseSound
  <2> QED BY <1>1, <1>3, <1>4, <2>1, <2>4, CommitKeeps
<1>5. CASE Near!Refuse("refused")
  BY <1>5, RefuseKeeps
<1>6. ASSUME /\ parent # None
             /\ parent' = [x \in Near!Ordinals |-> IF x \in batch THEN Near!RootIn(parent, x) ELSE parent[x]]
             /\ nearDb' = e /\ nearCorpus' = nearCorpus /\ nearPc' = nearPc
             /\ UNCHANGED <<mapping, nearManifest, checksum>>
      PROVE  NearSound'
  <2>1. parent = A /\ Near!Ordinals = Docs /\ N \in Nat /\ Docs = 1..N /\ Forest(A, N)
    BY <1>0, <1>6, DocsFinite DEF NearSound, SoundCorpus, Docs, TreesSound
  <2>2. batch \subseteq DOMAIN d.parents
    BY DEF Near!NumbersAfter
  <2> HIDE DEF batch, reached, N
  <2>3. /\ e.parents = kept
        /\ e.schema = d.schema /\ e.phase = d.phase /\ e.blocks = d.blocks /\ e.candidates = d.candidates
        /\ e.refined = d.refined /\ e.refineCursor = d.refineCursor /\ e.edges = d.edges
        /\ e.edgeCursor = d.edgeCursor /\ e.rooted = d.rooted /\ e.roots = d.roots /\ IsNearDatabase(e)
    <3> HIDE DEF kept
    <3> QED BY <1>0 DEF IsNearDatabase, NearFields
  <2> HIDE DEF e
  <2>4. parent' = Straight(A, N, batch)
    BY <1>6, <2>1 DEF Straight
  <2>5. ArrayOf(e) = Straight(A, N, batch)
    <3>1. ASSUME NEW x \in Docs
          PROVE  (IF x \in DOMAIN kept THEN kept[x] ELSE x) = IF x \in batch THEN Near!RootIn(A, x) ELSE A[x]
      <4>1. A[x] = IF x \in DOMAIN d.parents THEN d.parents[x] ELSE x
        BY DEF ArrayOf
      <4> HIDE DEF A, d
      <4> QED BY <2>1, <2>2, <4>1
    <3> HIDE DEF A, kept
    <3> QED BY <2>1, <2>3, <3>1 DEF ArrayOf, Straight
  <2> HIDE DEF A
  <2>6. Forest(ArrayOf(e), N) /\ SameTrees(A, ArrayOf(e))
    BY <2>1, <2>5, Shortened
  <2>7. TreesSound(e)
    <3>1. Consumed(e) = Consumed(d) /\ e.edges = d.edges /\ e.edgeCursor = d.edgeCursor
      BY <2>3 DEF Consumed
    <3>2. \A S : Uncut(ArrayOf(e), S) <=> Uncut(A, S)
      BY <2>6 DEF SameTrees
    <3>3. DOMAIN e.parents \subseteq Docs /\ e.phase \in Linking
      BY <1>0, <1>1, <2>3 DEF TreesSound, Linking
    <3> QED BY <1>0, <2>6, <3>1, <3>2, <3>3 DEF TreesSound, A, N
  <2>8. RootsSound(e)
    <3>1. e.phase \notin Emitted
      BY <1>1, <2>3 DEF Emitted
    <3> QED BY <1>2, <2>3, <3>1 DEF RootsSound
  <2>9. BlocksSound(e) /\ EdgesSound(e)
    <3>1. e.phase \in Collected => d.phase \in Collected
      BY <2>3
    <3> QED BY <1>0, <2>3, <3>1, BlocksKept, EdgesKept
  <2>10. NearDatabaseSound(e)
    BY <2>3, <2>7, <2>8, <2>9 DEF NearDatabaseSound
  <2>11. nearPc' \notin Unfinished /\ e.schema /\ nearPc' # "create" /\ parent' = ArrayOf(e)
    BY <1>1, <1>3, <1>6, <2>3, <2>4, <2>5 DEF Unfinished, NearSound
  <2> QED BY <1>6, <2>10, <2>11, WriteKeeps
<1> QED BY <1>1, <1>4, <1>5, <1>6

\* A batch of roots is read off an array that is flat (union_edges).
LEMMA AssignRootsStep == ASSUME NearSound, Near!AssignRoots PROVE NearSound'
<1> DEFINE d == nearDb
           N == Len(nearCorpus)
           A == ArrayOf(d)
           last == Near!Min({Near!Rooted + NearBatch, Len(nearCorpus)})
           more == [x \in 1..last |-> IF x <= Near!Rooted THEN d.roots[x]
                                      ELSE IF x \in DOMAIN d.parents THEN d.parents[x] ELSE x]
           e == [d EXCEPT !.roots = more, !.rooted = last]
<1>0. /\ SoundCorpus /\ IsNearDatabase(d) /\ NearDatabaseSound(d) /\ BlocksSound(d)
      /\ EdgesSound(d) /\ TreesSound(d) /\ RootsSound(d)
  BY CorpusIs DEF NearSound, NearDatabaseSound
<1>1. /\ nearPc = "run" /\ d.phase = "union" /\ ~(d.edgeCursor < Len(d.edges)) /\ ~Near!FlattenLeft /\ Near!Rooted < N
      /\ Near!Refuse("refused") \/ (Near!Flat /\ Near!Commit(e))
  BY DEF Near!AssignRoots, Near!In, Near!EdgesLeft
<1>2. CASE Near!Refuse("refused")
  BY <1>2, RefuseKeeps
<1>3. CASE Near!Flat /\ Near!Commit(e)
  <2>1. Near!Rooted \in Nat /\ last \in 0..N /\ N \in Nat /\ Docs = 1..N
    <3>1. N \in Nat /\ Docs = 1..N
      BY <1>0 DEF SoundCorpus, Docs
    <3>2. Near!Rooted \in Nat
      BY <1>0, <3>1 DEF Near!Rooted, RootsSound
    <3>3. NearBatch \in Nat
      BY NearAssumption DEF Positive
    <3>4. last = Min({Near!Rooted + NearBatch, N})
      BY SameOperators
    <3> HIDE DEF last, N
    <3>5. last = IF Near!Rooted + NearBatch <= N THEN Near!Rooted + NearBatch ELSE N
      BY <3>1, <3>2, <3>3, <3>4, OfTwo
    <3> QED BY <3>1, <3>2, <3>3, <3>5
  <2> HIDE DEF last, N
  <2>2. /\ e.roots = more /\ e.rooted = last
        /\ e.schema = d.schema /\ e.phase = d.phase /\ e.blocks = d.blocks /\ e.candidates = d.candidates
        /\ e.refined = d.refined /\ e.refineCursor = d.refineCursor /\ e.edges = d.edges /\ e.parents = d.parents
        /\ e.edgeCursor = d.edgeCursor /\ e.flattened = d.flattened /\ IsNearDatabase(e)
    <3> HIDE DEF more
    <3> QED BY <1>0 DEF IsNearDatabase, NearFields
  <2> HIDE DEF e
  <2>3. \A x \in Docs : A[x] = (IF x \in DOMAIN d.parents THEN d.parents[x] ELSE x) /\ A[x] \in Docs
    <3>1. \A x \in Docs : A[x] = IF x \in DOMAIN d.parents THEN d.parents[x] ELSE x
      BY DEF ArrayOf
    <3>2. \A x \in Docs : A[x] \in Docs
      BY <1>0, <2>1 DEF TreesSound, Forest, N
    <3> QED BY <3>1, <3>2
  <2>4. \A x \in Docs : A[A[x]] = A[x]
    <3>1. ASSUME NEW x \in Docs PROVE A[A[x]] = A[x]
      <4>1. CASE x \in DOMAIN d.parents
        <5>1. A[x] = d.parents[x] /\ A[x] \in Docs
          BY <2>3, <4>1
        <5>2. A[A[x]] = IF A[x] \in DOMAIN d.parents THEN d.parents[A[x]] ELSE A[x]
          BY <2>3, <5>1
        <5>3. d.parents[x] \in DOMAIN d.parents => d.parents[d.parents[x]] = d.parents[x]
          BY <1>3, <4>1 DEF Near!Flat
        <5> HIDE DEF A, d
        <5> QED BY <5>1, <5>2, <5>3
      <4>2. CASE x \notin DOMAIN d.parents
        BY <2>3, <4>2
      <4> QED BY <4>1, <4>2
    <3> QED BY <3>1
  <2>5. ArrayOf(e) = A
    BY <2>2 DEF ArrayOf
  <2>6. more = [x \in 1..last |-> A[x]]
    <3>1. ASSUME NEW x \in 1..last PROVE more[x] = A[x]
      <4>1. x \in Docs
        BY <2>1
      <4>2. CASE x <= Near!Rooted
        <5>1. d.rooted # None /\ Near!Rooted = d.rooted /\ x \in 1..d.rooted
          BY <2>1, <4>2 DEF Near!Rooted
        <5>2. d.roots[x] = A[x]
          BY <1>0, <5>1 DEF RootsSound
        <5> QED BY <4>2, <5>2
      <4>3. CASE ~(x <= Near!Rooted)
        BY <2>3, <4>1, <4>3
      <4> QED BY <4>2, <4>3
    <3> HIDE DEF A
    <3> QED BY <3>1
  <2>7. RootsSound(e)
    <3>1. e.phase \notin Emitted /\ e.phase \in Linking
      BY <1>1, <2>2 DEF Linking, Emitted
    <3>2. e.rooted # None /\ e.rooted \in 0..Len(nearCorpus)
      BY <2>1, <2>2, CurationAssumption DEF N
    <3>3. e.edgeCursor = Len(e.edges)
      <4>1. d.edgeCursor \in Nat /\ Len(d.edges) \in Nat /\ d.edgeCursor <= Len(d.edges)
        BY <1>0 DEF TreesSound, EdgesSound, Listing
      <4> HIDE DEF d
      <4> QED BY <1>1, <2>2, <4>1
    <3>4. e.flattened # None /\ ~(e.flattened.processed < e.flattened.total)
      BY <1>1, <2>2 DEF Near!FlattenLeft
    <3>5. e.roots = [x \in 1..e.rooted |-> ArrayOf(e)[x]]
      BY <2>2, <2>5, <2>6
    <3> HIDE DEF A
    <3> QED BY <2>4, <2>5, <3>1, <3>2, <3>3, <3>4, <3>5 DEF RootsSound
  <2>8. BlocksSound(e) /\ EdgesSound(e) /\ TreesSound(e)
    <3>1. e.phase \in Collected => d.phase \in Collected
      BY <2>2
    <3> QED BY <1>0, <2>2, <3>1, BlocksKept, EdgesKept, TreesKept
  <2>9. NearDatabaseSound(e)
    BY <2>2, <2>7, <2>8 DEF NearDatabaseSound
  <2>10. d.phase # None
    BY <1>1, PhasesNamed DEF Collected, Refining, Linking
  <2> QED BY <1>1, <1>3, <2>2, <2>9, <2>10, CommitKeeps
<1> QED BY <1>1, <1>2, <1>3

\* After the last edge the array of parents is uncut where no cluster is.
LEMMA AllLinked ==
    ASSUME SoundCorpus, NearDatabaseSound(nearDb), nearDb.phase \in Linking, nearDb.edgeCursor = Len(nearDb.edges)
    PROVE  \A S : Uncut(ArrayOf(nearDb), S) <=> Unsplit(S)
<1> DEFINE d == nearDb
<1>1. EdgesOf(d) = Accepted(AllPairs) \cup Twins
  <2>1. d.phase \in Collected
    BY DEF Collected, Refining
  <2>2. d.refined = AllPairs
    BY <2>1 DEF NearDatabaseSound, BlocksSound, EdgesSound, AllPairs
  <2> QED BY <2>2 DEF NearDatabaseSound, EdgesSound
<1>2. ASSUME NEW S PROVE Uncut(ArrayOf(d), S) <=> Unsplit(S)
  <2>1. Uncut(ArrayOf(d), S) <=> \A i \in 1..Len(d.edges) : Linked(d.edges[i], S)
    BY DEF NearDatabaseSound, TreesSound, Consumed
  <2>2. (\A i \in 1..Len(d.edges) : Linked(d.edges[i], S)) <=> \A p \in EdgesOf(d) : Linked(p, S)
    BY DEF EdgesOf
  <2>3. (\A p \in EdgesOf(d) : Linked(p, S)) <=> Unsplit(S)
    BY <1>1, EdgesAreAlike
  <2> QED BY <2>1, <2>2, <2>3
<1> QED BY <1>2

\* The last root completes the reference: the array is that of every edge and
\* flat (union_edges).
LEMMA UnionCompleteStep == ASSUME NearSound, Near!UnionComplete PROVE NearSound'
<1> DEFINE d == nearDb
           A == ArrayOf(d)
           e == [d EXCEPT !.phase = "emit"]
<1>0. SoundCorpus /\ IsNearDatabase(d) /\ NearDatabaseSound(d) /\ EdgesSound(d) /\ TreesSound(d) /\ RootsSound(d)
  BY CorpusIs DEF NearSound, NearDatabaseSound
<1>1. /\ nearPc = "run" /\ d.phase = "union" /\ ~(d.edgeCursor < Len(d.edges)) /\ Near!Rooted = Len(nearCorpus)
      /\ Near!Commit(e)
  BY DEF Near!UnionComplete, Near!In, Near!EdgesLeft
<1>2. d.edgeCursor = Len(d.edges) /\ d.phase \in Linking
  <2>1. d.edgeCursor \in Nat /\ Len(d.edges) \in Nat /\ d.edgeCursor <= Len(d.edges)
    BY <1>0 DEF TreesSound, EdgesSound, Listing
  <2>2. d.phase \in Linking
    BY <1>1 DEF Linking
  <2> HIDE DEF d
  <2> QED BY <1>1, <2>1, <2>2
<1>3. d.roots = A /\ \A x \in Docs : A[A[x]] = A[x]
  <2>1. A = [x \in Docs |-> A[x]]
    BY DEF ArrayOf
  <2>2. CASE d.rooted = None
    <3>1. Len(nearCorpus) = 0
      BY <1>1, <2>2 DEF Near!Rooted
    <3>2. Docs = {}
      BY <3>1 DEF Docs
    <3>3. d.roots = <<>>
      BY <1>0, <2>2 DEF RootsSound
    <3> HIDE DEF A, d
    <3>4. <<>> = A
      BY <2>1, <3>2
    <3> QED BY <3>2, <3>3, <3>4
  <2>3. CASE d.rooted # None
    <3>1. d.rooted = Len(nearCorpus)
      BY <1>1, <2>3 DEF Near!Rooted
    <3> QED BY <1>0, <2>1, <2>3, <3>1 DEF RootsSound, Docs
  <2> QED BY <2>2, <2>3
<1>4. A = Near!Reference
  <2>1. \A S : Uncut(A, S) <=> Unsplit(S)
    BY <1>0, <1>2, AllLinked
  <2>2. Forest(A, Len(nearCorpus))
    BY <1>0 DEF TreesSound
  <2> HIDE DEF A
  <2> QED BY <1>0, <1>3, <2>1, <2>2, TreesAreClusters
<1>5. /\ e.phase = "emit" /\ e.schema = d.schema /\ e.blocks = d.blocks /\ e.candidates = d.candidates /\ e.refined = d.refined
      /\ e.refineCursor = d.refineCursor /\ e.edges = d.edges /\ e.parents = d.parents
      /\ e.edgeCursor = d.edgeCursor /\ e.flattened = d.flattened /\ e.rooted = d.rooted /\ e.roots = d.roots
      /\ IsNearDatabase(e)
  BY <1>0 DEF IsNearDatabase, NearFields
<1> HIDE DEF e
<1>6. e.phase \in Linking /\ e.phase \in Refining /\ d.phase \in Collected /\ d.phase # None
  BY <1>2, <1>5, PhasesNamed DEF Collected, Refining, Linking, Emitted
<1>7. d.roots = Near!Reference
  BY <1>3, <1>4
<1>8. NearDatabaseSound(e)
  BY <1>0, <1>2, <1>5, <1>6, <1>7, PhaseKeeps
<1> QED BY <1>1, <1>5, <1>6, <1>8, CommitKeeps

-----------------------------------------------------------------------------
(* The files, and the whole build.                                         *)

\* A step that replaces a file, or ends, and leaves the database alone.
LEMMA FilesMove ==
    ASSUME NearSound, nearCorpus' = nearCorpus, nearDb' = nearDb, parent' = parent, nearPc' # "create", FilesSound'
    PROVE  NearSound'
<1>1. NearDatabaseSound(nearDb)'
  BY DatabasesStay DEF NearSound
<1>2. ArrayOf(nearDb)' = ArrayOf(nearDb)
  BY DEF ArrayOf, Docs
<1>3. /\ (nearCorpus \in NearCorpora)' /\ (parent # None => parent = ArrayOf(nearDb))'
      /\ (~nearDb.schema \/ nearPc = "create" => nearDb.phase = None)'
  BY <1>2 DEF NearSound
<1> QED BY <1>1, <1>3 DEF NearSound

\* The mapping is replaced by the roots, which are the reference (emit).
LEMMA ReplaceMappingStep == ASSUME NearSound, Near!ReplaceMapping PROVE NearSound'
<1>1. /\ nearDb.phase = "emit" /\ nearPc = "run" /\ nearDb' = nearDb
      /\ UNCHANGED <<nearCorpus, nearManifest, checksum, parent>>
      /\ \/ nearPc' = "mapped" /\ mapping' = nearDb.roots
         \/ nearPc' = "refused" /\ mapping' = mapping
  BY DEF Near!ReplaceMapping, Near!Emitting
<1>2. CASE nearPc' = "refused" /\ mapping' = mapping
  BY <1>1, <1>2, QuietNearSteps DEF Unfinished
<1>3. CASE nearPc' = "mapped" /\ mapping' = nearDb.roots
  <2>1. nearDb.roots = Near!Reference
    BY <1>1 DEF NearSound, NearDatabaseSound, RootsSound, Emitted
  <2>2. Near!Reference' = Near!Reference
    BY <1>1, CorpusStays
  <2>3. FilesSound'
    BY <1>1, <1>3, <2>1, <2>2 DEF NearSound, FilesSound
  <2> QED BY <1>1, <1>3, <2>3, FilesMove
<1> QED BY <1>1, <1>2, <1>3

\* The manifest describes the mapping, the checksum the manifest (emit).
LEMMA DescribeSteps ==
    ASSUME NearSound, Near!ReplaceManifest \/ Near!ReplaceChecksum
    PROVE  NearSound'
<1>1. /\ nearDb' = nearDb /\ UNCHANGED <<nearCorpus, mapping, parent>> /\ nearDb.phase = "emit"
      /\ \/ nearPc = "mapped" /\ nearPc' = "described" /\ nearManifest' = mapping
         \/ nearPc = "described" /\ nearPc' = "summed" /\ nearManifest' = nearManifest
  BY DEF Near!ReplaceManifest, Near!ReplaceChecksum, Near!Emitting
<1>2. Near!Reference' = Near!Reference
  BY <1>1, CorpusStays
<1>3. FilesSound'
  BY <1>1, <1>2 DEF NearSound, FilesSound
<1> QED BY <1>1, <1>3, FilesMove

\* The last transaction follows the files (emit).
LEMMA EmitCompleteStep == ASSUME NearSound, Near!EmitComplete PROVE NearSound'
<1> DEFINE d == nearDb
           e == [d EXCEPT !.phase = "complete"]
<1>1. /\ d.phase = "emit" /\ nearPc = "summed" /\ nearPc' = "run" /\ nearDb' = e
      /\ nearCorpus' = nearCorpus /\ parent' = parent /\ UNCHANGED <<mapping, nearManifest, checksum>>
  BY DEF Near!EmitComplete, Near!Emitting
<1>2. /\ e.phase = "complete" /\ e.schema = d.schema /\ e.blocks = d.blocks /\ e.candidates = d.candidates
      /\ e.refined = d.refined /\ e.refineCursor = d.refineCursor /\ e.edges = d.edges /\ e.parents = d.parents
      /\ e.edgeCursor = d.edgeCursor /\ e.flattened = d.flattened /\ e.rooted = d.rooted /\ e.roots = d.roots
      /\ IsNearDatabase(e)
  BY DEF NearSound, NearDatabaseSound, IsNearDatabase, NearFields
<1> HIDE DEF e
<1>3. /\ d.phase \in Collected /\ d.phase \in Linking /\ d.phase \in Emitted
      /\ e.phase \in Refining /\ e.phase \in Linking
  BY <1>1, <1>2 DEF Collected, Refining, Linking, Emitted
<1>4. NearDatabaseSound(e)
  BY <1>2, <1>3, PhaseKeeps DEF NearSound
<1>5. d.phase # None
  BY <1>3, PhasesNamed
<1>6. e.schema /\ nearPc' \notin Unfinished /\ nearPc' # "create"
  BY <1>1, <1>2, <1>5 DEF Unfinished, NearSound
<1> QED BY <1>1, <1>2, <1>4, <1>6, WriteKeeps

\* A finished output that verifies is published in all of its files.
LEMMA VerifyPublishedStep == ASSUME NearSound, Near!VerifyPublished PROVE NearSound'
<1>1. /\ nearPc = "run" /\ nearDb' = nearDb /\ UNCHANGED <<nearCorpus, mapping, nearManifest, checksum, parent>>
      /\ nearPc' \in {"done", "refused"}
      /\ nearPc' = "done" => checksum = nearManifest /\ nearManifest = mapping /\ mapping # None
  BY DEF Near!VerifyPublished, Near!In, Near!Refuse, Near!files
<1>2. Near!Reference' = Near!Reference
  BY <1>1, CorpusStays
<1>3. FilesSound'
  BY <1>1, <1>2 DEF NearSound, FilesSound
<1> QED BY <1>1, <1>3, FilesMove

\* Each step of the builder keeps what the tables and the files should hold.
LEMMA NearStep == ASSUME NearSound, Near!NearNext PROVE NearSound'
<1>1. CASE Near!Enter \/ Near!CreateSchema \/ Near!InsertIdentity
  BY <1>1, EnterStep, CreateSchemaStep, InsertIdentityStep
<1>2. CASE Near!Inventory
  BY <1>2, AsideSteps, EarlyEnds DEF Near!Inventory
<1>3. CASE Near!Candidates
  BY <1>3, AsideSteps, ReadBlockStep, CandidatesCompleteStep DEF Near!Candidates
<1>4. CASE Near!Cache
  BY <1>4, QuietStepsOfNear, AsideSteps, CacheCompleteStep DEF Near!Cache
<1>5. CASE Near!Refine
  BY <1>5, QuietStepsOfNear, RefineBatchStep, AddNormalizedEdgesStep, RefineCompleteStep DEF Near!Refine
<1>6. CASE Near!Union
  BY <1>6, LoadParentsStep, UnionBatchStep, FlattenBatchStep, AssignRootsStep, UnionCompleteStep DEF Near!Union
<1>7. CASE Near!Emit
  BY <1>7, ReplaceMappingStep, DescribeSteps, EmitCompleteStep, VerifyPublishedStep DEF Near!Emit
<1>8. CASE Near!Interrupt
  BY <1>8, QuietStepsOfNear
<1> QED BY <1>1, <1>2, <1>3, <1>4, <1>5, <1>6, <1>7, <1>8 DEF Near!NearNext, Near!NearWork

\* Nothing is built yet.
LEMMA NearStarts == ASSUME Near!NearInit PROVE NearSound
<1> DEFINE d == Near!NoDatabase
<1>1. /\ nearCorpus \in NearCorpora /\ nearDb = d /\ mapping = None /\ nearManifest = None
      /\ nearPc = "down" /\ parent = None
  BY DEF Near!NearInit
<1>2. /\ d.schema = FALSE /\ d.phase = None /\ d.blocks = {} /\ d.candidates = {} /\ d.refined = {}
      /\ d.refineCursor = <<0, 0>> /\ d.edges = <<>> /\ d.parents = <<>> /\ d.edgeCursor = 0
      /\ d.flattened = None /\ d.rooted = None /\ d.roots = <<>> /\ IsNearDatabase(d)
  BY DEF Near!NoDatabase, IsNearDatabase, NearFields
<1> HIDE DEF d
<1>3. d.phase \notin Collected /\ d.phase \notin Refining /\ d.phase \notin Linking /\ d.phase \notin Emitted
  BY <1>2, PhasesNamed DEF Collected, Refining, Linking
<1>4. BlocksSound(d)
  BY <1>2, <1>3 DEF BlocksSound
<1>5. EdgesSound(d)
  <2>1. EdgesOf(d) = {} /\ Accepted({}) = {} /\ UpTo({}, <<0, 0>>) = {}
    BY <1>2 DEF EdgesOf, Accepted, UpTo
  <2>2. Listing(<<>>)
    BY DEF Listing
  <2> QED BY <1>2, <1>3, <2>1, <2>2 DEF EdgesSound
<1>6. TreesSound(d)
  <2>1. Len(nearCorpus) \in Nat
    BY <1>1, NearAssumption
  <2>2. ArrayOf(d) = [x \in Docs |-> x] /\ DOMAIN d.parents = {} /\ Consumed(d) = {}
    BY <1>2 DEF ArrayOf, Consumed
  <2>3. Forest(ArrayOf(d), Len(nearCorpus)) /\ \A S : Uncut(ArrayOf(d), S)
    BY <2>1, <2>2 DEF Forest, Uncut, Docs
  <2> QED BY <1>2, <1>3, <2>2, <2>3 DEF TreesSound
<1>7. RootsSound(d)
  BY <1>2, <1>3 DEF RootsSound
<1>8. FilesSound
  BY <1>1 DEF FilesSound
<1> QED BY <1>1, <1>2, <1>4, <1>5, <1>6, <1>7, <1>8 DEF NearSound, NearDatabaseSound

\* Wherever the build of the near-duplicate map was interrupted, its database
\* is sound: the candidates are the pairs of the blocks read so far, the edges
\* those of them accepted up to the cursor and the twins of equal texts, the
\* rows of parents the trees of the edges consumed, the roots those of a flat
\* array, and what is published the least documents of the clusters
\* (generate_candidates, refine_candidates, union_edges, emit).
THEOREM NearStaysSound == SelectionSpec => []NearSound
<1>1. SelectionInit => NearSound
  BY NearStarts DEF SelectionInit
<1>2. ASSUME NearSound, [SelectionNext]_selectionVars PROVE NearSound'
  <2>1. CASE NearStage
    BY <1>2, <2>1, NearStep DEF NearStage
  <2>2. CASE CurationStage \/ UNCHANGED selectionVars
    <3>1. UNCHANGED <<nearCorpus, nearDb, mapping, nearManifest, checksum, nearPc, parent>>
      BY <2>2 DEF CurationStage, selectionVars, nearVars
    <3>2. Near!Reference' = Near!Reference /\ NearDatabaseSound(nearDb)' /\ ArrayOf(nearDb)' = ArrayOf(nearDb)
      BY <1>2, <3>1, CorpusStays, DatabasesStay DEF NearSound, ArrayOf, Docs
    <3> QED BY <1>2, <3>1, <3>2 DEF NearSound, FilesSound
  <2> QED BY <1>2, <2>1, <2>2 DEF SelectionNext
<1> QED BY <1>1, <1>2, PTL DEF SelectionSpec

\* The published near-duplicate map sends every document to the least
\* document of its cluster, and a run that reports success has published all
\* of it (emit, _verify_published_mapping).
THEOREM NearMappingStaysExact == SelectionSpec => []NearMappingExact
<1>1. NearSound => NearMappingExact
  BY DEF NearSound, FilesSound, NearMappingExact, Near!MappingExact
<1> QED BY <1>1, NearStaysSound, PTL
=============================================================================
