----------------------------- MODULE Packing_proofs -----------------------------
(***************************************************************************)
(* What the materializer and the portable finalizer guarantee together,    *)
(* and what the raw token cache guarantees them, for any archives,         *)
(* destinations, geometries and interruptions.                             *)
(***************************************************************************)
EXTENDS Corpus, FiniteSetTheorems, SequenceTheorems, WellFoundedInduction, TLAPS

-----------------------------------------------------------------------------
(* The place of a run: a write of a file in progress leads on to "then".   *)
Here == IF pc = "replace" THEN pending.then ELSE pc
Writing(file) == pc = "replace" /\ pending.file = file

(* Documents of destination d up to archive a; rows of its index shard.    *)
UpTo(d, a) == Place(d, <<a + 1, 1>>)
Prefix(d, n) == [k \in 1..n |-> Reference(d)[k]]
RowsFrom(d, from, to) == [k \in 1..(to - from) |-> <<Reference(d)[from + k], from + k - 1>>]
ShardRows(d, a) == RowsFrom(d, UpTo(d, a - 1), UpTo(d, a))

IndexExact(d, c) ==
    /\ \A i \in 1..Len(c.index) :
         /\ c.index[i].archive \in 1..c.next
         /\ c.index[i].rows = ShardRows(d, c.index[i].archive) /\ c.index[i].rows # <<>>
         /\ RowsBefore(c.index, i) = UpTo(d, c.index[i].archive - 1)
         /\ i > 1 => c.index[i - 1].archive < c.index[i].archive
    /\ Records(c.index) = c.documents
CursorExact(d, c) == /\ c \in Cursors /\ c.documents = UpTo(d, c.next)
                     /\ IndexExact(d, c)

Places == {"down", "prepare", "open", "loop", "feed", "index", "commit", "finish",
           "index_manifests", "packed", "orders", "publish_order", "provenance", "manifest",
           "sidecar", "unlink", "checksum", "validate"}
Files == {"journal", "manifest", "sidecar"}
RunTypeOK ==
    /\ recipe \in {"alone", "handoff", "mixed"}
    /\ pc \in Places \cup {"replace"} /\ (pc # "down" => job \in RecipeJobs)
    /\ pc = "replace" => pending.file \in Files /\ pending.then \in Places
    /\ left \subseteq Dests /\ todo \in Seq(SeqSet(Splits) \cup {"handoff", "source"})
    /\ fed \in Nat
MemoryTypeOK ==
    /\ stream \in [Dests -> Streams] /\ cursor \in [Dests -> Cursors]
    /\ shard \in [Dests -> Shards]
DirectoryTypeOK ==
    /\ writer \in [Dests -> [docs : Streams, cursor : Cursors, published : BOOLEAN]]
    /\ indexManifest \in [Dests -> IndexManifests \cup {None}]
    /\ journal \in Journals \cup {None}
    /\ orders \in [SeqSet(Splits) -> Orders \cup {None}]
    /\ staging \subseteq {"materialize", "portable"} \X SeqSet(Splits)
    /\ provenance = [n \in {"handoff", "source"} |-> provenance[n]]
    /\ provenance["handoff"] \in Journals \cup {None}
    /\ provenance["source"] \in {"source", None}
PackTypeOK == RunTypeOK /\ MemoryTypeOK /\ DirectoryTypeOK

(* What is on disk of the packing.                                         *)
Durable ==
    /\ \A d \in Dests :
         /\ CursorExact(d, writer[d].cursor)
         /\ writer[d].docs = Prefix(d, writer[d].cursor.documents)
         /\ writer[d].published => writer[d].cursor.next = Len(Kept)
         /\ indexManifest[d] # None => /\ writer[d].published
                                       /\ indexManifest[d] = [documents |-> writer[d].cursor.documents,
                                                              shards |-> writer[d].cursor.index]
    /\ \A d, e \in Dests : writer[d].cursor.next <= writer[e].cursor.next + 1
Filed ==
    /\ \A f \in DOMAIN indexFiles : /\ f \in Dests \X Archives
                                    /\ indexFiles[f] = ShardRows(f[1], f[2])
    /\ \A d \in Dests : \A a \in 1..writer[d].cursor.next :
          ShardRows(d, a) # <<>> => <<d, a>> \in DOMAIN indexFiles
AllPacked == \A d \in Dests : writer[d].published /\ indexManifest[d] # None

(* What a run knows while it packs.                                        *)
PackingPlaces == {"loop", "feed", "index", "commit", "finish", "index_manifests", "packed"}
OrderPlaces == {"orders", "publish_order", "provenance", "manifest", "sidecar", "unlink", "checksum"}
Ready(d) == /\ cursor[d].next < Len(Kept)
            /\ stream[d] = Prefix(d, UpTo(d, cursor[d].next + 1))
            /\ shard[d] = ShardRows(d, cursor[d].next + 1)
            /\ \A e \in Dests : cursor[d].next <= cursor[e].next
Rested(d) == stream[d] = writer[d].docs
Held ==
    /\ Here \in PackingPlaces => job.kind = "materialize"
    /\ Here \in PackingPlaces \cup (OrderPlaces \ {"unlink", "checksum"}) /\ job.kind = "materialize" =>
          \A d \in Dests : cursor[d] = writer[d].cursor
    /\ Here \in {"loop", "finish"} => \A d \in Dests : Rested(d)
    /\ Here = "feed" =>
         /\ Lowest < Len(Kept) /\ fed <= Len(Kept[Archive])
         /\ \A d \in Dests : IF d \in Eligible
               THEN LET now == Place(d, <<Archive, fed + 1>>)
                    IN  /\ stream[d] = Prefix(d, now)
                        /\ shard[d] = RowsFrom(d, UpTo(d, Archive - 1), now)
               ELSE Rested(d)
    /\ Here = "index" =>
         /\ left \subseteq Eligible
         /\ \A d \in Dests : IF d \in Eligible THEN Ready(d) ELSE Rested(d)
         /\ \A d \in Eligible \ left : shard[d] # <<>> => <<d, Archive>> \in DOMAIN indexFiles
    /\ Here = "commit" =>
         /\ \A d \in left : Ready(d) /\ (shard[d] # <<>> => <<d, cursor[d].next + 1>> \in DOMAIN indexFiles)
         /\ \A d \in Dests \ left : /\ Rested(d)
                                    /\ \A e \in left : cursor[d].next = cursor[e].next + 1
    /\ Here \in {"finish", "index_manifests"} =>
          \A d \in Dests : cursor[d].next = Len(Kept)
    /\ Here = "finish" => \A d \in Dests \ left : writer[d].published
    /\ Here = "index_manifests" => \A d \in Dests : writer[d].published /\
                                        (d \notin left => indexManifest[d] # None)
    /\ Here \in OrderPlaces \cup {"packed"} => AllPacked

(* The bridge journal.                                                     *)
Backed(j) ==
    /\ j.cursors = <<>> => j.phase = "packing"
    /\ j.cursors # <<>> => \A d \in Dests : /\ CursorExact(d, j.cursors[d])
                                            /\ j.cursors[d].next <= writer[d].cursor.next
    /\ j.phase # "packing" => /\ AllPacked
                              /\ \A d \in Dests : j.cursors[d] = writer[d].cursor
Blank == manifest = None /\ sidecar = None /\ DOMAIN indexFiles = {}
Journalled ==
    /\ journal # None => Backed(journal)
    /\ Writing("journal") => /\ pending.value \in Journals /\ Backed(pending.value)
                             /\ job.kind = "materialize"
    /\ journal = None => \/ Complete /\ pc \in {"down", "prepare", "validate"}
                         \/ Blank /\ (pc \in {"down", "prepare"} \/ (Writing("journal") /\ Here = "open"))
    /\ Here \in OrderPlaces /\ job.kind = "portable" => journal.phase = "packed"

(* The orders, the provenance, the manifest and its checksum.              *)
FinalPlaces == {"provenance", "manifest", "sidecar", "checksum", "unlink"}
OrderDone(s) == orders[s] # None /\ OrderValid(s)
Certified(p) == p # None => /\ p \in Journals /\ p.phase = "packed" /\ AllPacked
                            /\ \A d \in Dests : p.cursors[d] = writer[d].cursor
Ordered ==
    /\ Here \in {"orders", "publish_order"} =>
         /\ SeqSet(todo) \subseteq SeqSet(Splits)
         /\ (job.kind = "materialize" => ~job.stop)
         /\ ~job.stop => \A s \in SeqSet(Splits) \ SeqSet(todo) : OrderDone(s)
    /\ Here = "publish_order" => todo # <<>> /\ orders[Head(todo)] = None
    /\ Here \in FinalPlaces => ~job.stop /\ \A s \in SeqSet(Splits) : OrderDone(s)
    /\ Here = "provenance" =>
         /\ SeqSet(todo) \subseteq SeqSet(ProvenanceFiles(job.kind))
         /\ \A f \in SeqSet(ProvenanceFiles(job.kind)) \ SeqSet(todo) : provenance[f] # None
    /\ Here \in FinalPlaces \ {"provenance"} =>
         \A f \in SeqSet(ProvenanceFiles(job.kind)) : provenance[f] # None
    /\ Certified(provenance["handoff"])
    /\ Here \in {"sidecar", "unlink"} => job.kind = "materialize"
    /\ Here = "checksum" => job.kind = "portable"
Published(m) ==
    /\ AllPacked
    /\ m.contents = Contents(Listed(m.contents))
    /\ orders[Train].geometry = m.configuration.geometry
    /\ \A s \in SeqSet(Splits) : orders[s].target = m.configuration.target[s]
Manifested ==
    /\ manifest # None => AllPacked
    /\ sidecar # None => /\ sidecar = manifest /\ Published(manifest)
                         /\ pc \in {"down", "prepare", "unlink", "validate"}
    /\ pc \in {"unlink", "validate"} => Complete
    /\ Writing("manifest") => /\ pending.value = FinalManifest
                              /\ pending.then \in {"sidecar", "checksum"}
    /\ pc \in {"sidecar", "checksum"} => manifest = FinalManifest
    /\ Writing("sidecar") => /\ manifest # None /\ pending.value = manifest /\ Published(manifest)
                             /\ pending.then \in {"unlink", "validate"}
    /\ Writing("journal") => pending.then \in {"open", "loop", "packed", "orders", "manifest"}

(* In a documented recipe one program builds the orders.                   *)
Maker == IF recipe = "alone" THEN "materialize" ELSE "portable"
Staging ==
    recipe # "mixed" => \A p \in staging : p[1] = Maker /\ orders[p[2]] = None

IInv == PackTypeOK /\ Durable /\ Filed /\ Held /\ Journalled /\ Ordered /\ Manifested /\ Staging
Recovers == ~TempSurvives => temps = {}
Resumes == recipe # "mixed" /\ ~TempSurvives => outcome # "unrecoverable"

-----------------------------------------------------------------------------
(* Places of documents.                                                    *)

\* What the assumptions say of the constants.
LEMMA KeptFacts == Len(Kept) \in Nat /\ Archives = 1..Len(Kept)
BY DestinationsAssumption DEF Archives

LEMMA ArchiveFacts ==
    ASSUME NEW a \in Archives
    PROVE  /\ a \in Nat /\ a \in 1..Len(Kept) /\ Kept[a] \in Seq(Dests) /\ Len(Kept[a]) \in Nat
           /\ DOMAIN Kept[a] = 1..Len(Kept[a])
<1>1. a \in 1..Len(Kept) /\ Kept \in Seq(Seq(Dests))
  BY KeptFacts, DestinationsAssumption
<1>2. Kept[a] \in Seq(Dests)
  BY <1>1
<1> QED BY <1>1, <1>2, KeptFacts

LEMMA DestinationFacts ==
    /\ Dests # {} /\ Len(Destinations) \in Nat
    /\ \A d \in Dests : \E i \in 1..Len(Destinations) : Destinations[i] = d
    /\ \A i \in 1..Len(Destinations) : Destinations[i] \in Dests
    /\ DOMAIN Destinations = 1..Len(Destinations)
BY DestinationsAssumption DEF Dests, SeqSet

\* A finite family of finite sets has a finite union.
LEMMA FiniteUnion ==
    ASSUME NEW S, IsFiniteSet(S), NEW f, \A x \in S : IsFiniteSet(f[x])
    PROVE  IsFiniteSet(UNION {f[x] : x \in S})
<1> DEFINE T == {f[x] : x \in S}
           g == [x \in S |-> f[x]]
<1>1. g \in Surjection(S, T)
  BY DEF Surjection
<1>2. IsFiniteSet(T)
  BY <1>1, FS_Surjection
<1> QED BY <1>2, FS_UNION

\* The documents of a destination, and those before a place.
LEMMA DocumentsFinite ==
    ASSUME NEW d
    PROVE  /\ IsFiniteSet(Documents(d)) /\ Cardinality(Documents(d)) \in Nat
           /\ \A x : x \in Documents(d) <=>
                \E a \in Archives : \E i \in 1..Len(Kept[a]) : x = <<a, i>> /\ Kept[a][i] = d
<1> DEFINE f == [a \in Archives |-> {a} \X {i \in DOMAIN Kept[a] : Kept[a][i] = d}]
<1>1. IsFiniteSet(Archives)
  <2> DEFINE q == Len(Kept)
  <2>1. q \in Int /\ 1 \in Int /\ Archives = 1..q
    BY KeptFacts
  <2> HIDE DEF q
  <2> QED BY <2>1, FS_Interval
<1>2. ASSUME NEW a \in Archives PROVE IsFiniteSet(f[a])
  <2>0. Len(Kept[a]) \in Int /\ 1 \in Int
    BY ArchiveFacts
  <2>1. IsFiniteSet(1..Len(Kept[a]))
    BY <2>0, FS_Interval
  <2>2. {i \in DOMAIN Kept[a] : Kept[a][i] = d} \in SUBSET (1..Len(Kept[a]))
    BY KeptFacts, ArchiveFacts
  <2>3. IsFiniteSet({i \in DOMAIN Kept[a] : Kept[a][i] = d})
    BY <2>1, <2>2, FS_Subset
  <2>4. IsFiniteSet({a})
    BY FS_Singleton
  <2> QED BY <2>3, <2>4, FS_Product
<1>3. Documents(d) = UNION {f[a] : a \in Archives}
  BY DEF Documents
<1>4. IsFiniteSet(Documents(d))
  <2> HIDE DEF f
  <2> QED BY <1>1, <1>2, <1>3, FiniteUnion
<1>5. ASSUME NEW x PROVE x \in Documents(d) <=>
         \E a \in Archives : \E i \in 1..Len(Kept[a]) : x = <<a, i>> /\ Kept[a][i] = d
  BY KeptFacts, ArchiveFacts DEF Documents
<1> QED BY <1>4, <1>5, FS_CardinalityType

Before(d, x) == {y \in Documents(d) : Earlier(y, x)}

\* A place counts documents.
LEMMA PlaceType ==
    ASSUME NEW d, NEW x
    PROVE  /\ Place(d, x) \in Nat /\ Place(d, x) <= Cardinality(Documents(d))
           /\ IsFiniteSet(Before(d, x)) /\ Place(d, x) = Cardinality(Before(d, x))
<1>1. Before(d, x) \in SUBSET Documents(d)
  BY DEF Before
<1>2. IsFiniteSet(Before(d, x)) /\ Cardinality(Before(d, x)) <= Cardinality(Documents(d))
  BY <1>1, DocumentsFinite, FS_Subset
<1> QED BY <1>2, FS_CardinalityType DEF Before, Place

\* More documents come before a later place.
LEMMA PlaceMonotone ==
    ASSUME NEW d, NEW x, NEW y, Before(d, x) \subseteq Before(d, y)
    PROVE  Place(d, x) <= Place(d, y)
BY PlaceType, FS_Subset

\* Going past a document counts it if it is of the destination.
LEMMA PlaceStep ==
    ASSUME NEW d, NEW a \in Archives, NEW i \in 1..Len(Kept[a])
    PROVE  Place(d, <<a, i + 1>>) = Place(d, <<a, i>>) + IF Kept[a][i] = d THEN 1 ELSE 0
<1>1. ASSUME NEW y \in Documents(d)
      PROVE  Earlier(y, <<a, i + 1>>) <=> Earlier(y, <<a, i>>) \/ y = <<a, i>>
  <2>1. PICK b \in Archives, j \in Nat : j \in 1..Len(Kept[b]) /\ y = <<b, j>>
    BY DocumentsFinite
  <2>2. b \in Nat /\ a \in Nat /\ j \in Nat /\ i \in Nat
    BY KeptFacts, ArchiveFacts
  <2> QED BY <2>1, <2>2 DEF Earlier
<1>2. <<a, i>> \notin Before(d, <<a, i>>)
  BY KeptFacts, ArchiveFacts DEF Before, Earlier
<1>3. CASE Kept[a][i] = d
  <2>1. <<a, i>> \in Documents(d)
    BY <1>3, DocumentsFinite
  <2>2. Before(d, <<a, i + 1>>) = Before(d, <<a, i>>) \cup {<<a, i>>}
    BY <1>1, <2>1 DEF Before
  <2>3. Cardinality(Before(d, <<a, i>>) \cup {<<a, i>>}) = Cardinality(Before(d, <<a, i>>)) + 1
    BY <1>2, PlaceType, FS_AddElement
  <2>4. Place(d, <<a, i + 1>>) = Cardinality(Before(d, <<a, i + 1>>))
    BY PlaceType
  <2>5. Place(d, <<a, i>>) = Cardinality(Before(d, <<a, i>>))
    BY PlaceType
  <2> QED BY <1>3, <2>2, <2>3, <2>4, <2>5
<1>4. CASE Kept[a][i] # d
  <2>1. <<a, i>> \notin Documents(d)
    BY <1>4, DocumentsFinite
  <2>2. Before(d, <<a, i + 1>>) = Before(d, <<a, i>>)
    BY <1>1, <2>1 DEF Before
  <2> QED BY <1>4, <2>2, PlaceType
<1> QED BY <1>3, <1>4

\* The end of an archive is the beginning of the next one.
LEMMA PlaceTurn ==
    ASSUME NEW d, NEW a \in Archives
    PROVE  Place(d, <<a, Len(Kept[a]) + 1>>) = UpTo(d, a)
<1>1. ASSUME NEW y \in Documents(d)
      PROVE  Earlier(y, <<a, Len(Kept[a]) + 1>>) <=> Earlier(y, <<a + 1, 1>>)
  <2>1. PICK b \in Archives, j \in Nat : j \in 1..Len(Kept[b]) /\ y = <<b, j>>
    BY DocumentsFinite
  <2>2. b \in Nat /\ a \in Nat /\ j \in Nat /\ j >= 1 /\ Len(Kept[a]) \in Nat
    BY <2>1, ArchiveFacts
  <2>3. b = a => j <= Len(Kept[a])
    BY <2>1, ArchiveFacts
  <2> QED BY <2>1, <2>2, <2>3 DEF Earlier
<1> QED BY <1>1 DEF Place, UpTo

\* No document comes before the first archive and every one before the end.
LEMMA PlaceEnds ==
    ASSUME NEW d
    PROVE  /\ UpTo(d, 0) = 0 /\ UpTo(d, Len(Kept)) = Cardinality(Documents(d))
           /\ \A a \in 0..Len(Kept) : \A b \in a..Len(Kept) : UpTo(d, a) <= UpTo(d, b)
           /\ \A a : UpTo(d, a) \in Nat /\ UpTo(d, a) <= Cardinality(Documents(d))
<1>1. ASSUME NEW y \in Documents(d)
      PROVE  ~Earlier(y, <<0 + 1, 1>>) /\ Earlier(y, <<Len(Kept) + 1, 1>>)
  <2>1. PICK b \in Archives, j \in Nat : j \in 1..Len(Kept[b]) /\ y = <<b, j>>
    BY DocumentsFinite
  <2>2. b \in 1..Len(Kept) /\ j \in Nat /\ j >= 1
    BY <2>1, ArchiveFacts
  <2> QED BY <2>1, <2>2, KeptFacts, ArchiveFacts DEF Earlier
<1>2. Before(d, <<0 + 1, 1>>) = {} /\ Before(d, <<Len(Kept) + 1, 1>>) = Documents(d)
  BY <1>1 DEF Before
<1>3. ASSUME NEW a \in 0..Len(Kept), NEW b \in a..Len(Kept)
      PROVE  UpTo(d, a) <= UpTo(d, b)
  <2>1. ASSUME NEW y \in Documents(d), Earlier(y, <<a + 1, 1>>) PROVE Earlier(y, <<b + 1, 1>>)
    <3>1. PICK c \in Archives, j \in Nat : j \in 1..Len(Kept[c]) /\ y = <<c, j>>
      BY DocumentsFinite
    <3>2. c \in Nat /\ a \in Nat /\ b \in Nat /\ a <= b /\ j \in Nat
      BY KeptFacts, ArchiveFacts
    <3> QED BY <2>1, <3>1, <3>2 DEF Earlier
  <2>2. Before(d, <<a + 1, 1>>) \subseteq Before(d, <<b + 1, 1>>)
    BY <2>1 DEF Before
  <2> QED BY <2>2, PlaceMonotone DEF UpTo
<1>4. Place(d, <<0 + 1, 1>>) = 0 /\ Place(d, <<Len(Kept) + 1, 1>>) = Cardinality(Documents(d))
  BY <1>2, PlaceType, FS_EmptySet
<1> QED BY <1>3, <1>4, PlaceType DEF UpTo

\* A document stands at its place in the reference.
LEMMA PlaceOf ==
    ASSUME NEW d \in Dests, NEW x \in Documents(d)
    PROVE  /\ Place(d, x) + 1 \in 1..Cardinality(Documents(d))
           /\ Reference(d)[Place(d, x) + 1] = x
<1> DEFINE n == Place(d, x) + 1
<1>1. PICK a \in Archives, i \in Nat : i \in 1..Len(Kept[a]) /\ x = <<a, i>> /\ Kept[a][i] = d
  BY DocumentsFinite
<1>2. Place(d, x) \in Nat /\ Place(d, <<a, i + 1>>) = n
  BY <1>1, PlaceStep, PlaceType
<1>3. n \in 1..Cardinality(Documents(d))
  BY <1>2, PlaceType, DocumentsFinite
<1>4. ASSUME NEW y \in Documents(d), y # x PROVE Place(d, y) # Place(d, x)
  <2>1. PICK b \in Archives, j \in Nat : j \in 1..Len(Kept[b]) /\ y = <<b, j>> /\ Kept[b][j] = d
    BY DocumentsFinite
  <2>2. a \in Nat /\ b \in Nat /\ i \in Nat /\ j \in Nat
    BY KeptFacts, ArchiveFacts
  <2>3. Place(d, <<b, j + 1>>) = Place(d, y) + 1 /\ Place(d, y) \in Nat
    BY <2>1, PlaceStep, PlaceType
  <2>4. CASE Earlier(x, y)
    <3>1. ASSUME NEW z \in Documents(d), Earlier(z, <<a, i + 1>>) PROVE Earlier(z, y)
      <4>1. PICK c \in Archives, k \in Nat : k \in 1..Len(Kept[c]) /\ z = <<c, k>>
        BY DocumentsFinite
      <4>2. c \in Nat /\ k \in Nat
        BY KeptFacts, ArchiveFacts
      <4> QED BY <1>1, <2>1, <2>2, <2>4, <3>1, <4>1, <4>2 DEF Earlier
    <3>2. Before(d, <<a, i + 1>>) \subseteq Before(d, y)
      BY <3>1 DEF Before
    <3> QED BY <3>2, <1>2, <2>3, PlaceMonotone
  <2>5. CASE Earlier(y, x)
    <3>1. ASSUME NEW z \in Documents(d), Earlier(z, <<b, j + 1>>) PROVE Earlier(z, x)
      <4>1. PICK c \in Archives, k \in Nat : k \in 1..Len(Kept[c]) /\ z = <<c, k>>
        BY DocumentsFinite
      <4>2. c \in Nat /\ k \in Nat
        BY KeptFacts, ArchiveFacts
      <4> QED BY <1>1, <2>1, <2>2, <2>5, <3>1, <4>1, <4>2 DEF Earlier
    <3>2. Before(d, <<b, j + 1>>) \subseteq Before(d, x)
      BY <3>1 DEF Before
    <3> QED BY <3>2, <1>2, <2>3, PlaceMonotone
  <2>6. Earlier(x, y) \/ Earlier(y, x)
    BY <1>1, <1>4, <2>1, <2>2 DEF Earlier
  <2> QED BY <2>4, <2>5, <2>6
<1>5. Reference(d)[n] = CHOOSE y \in Documents(d) : Place(d, y) = n - 1
  BY <1>3 DEF Reference, References
<1>6. n - 1 = Place(d, x)
  BY <1>2
<1>7. (CHOOSE y \in Documents(d) : Place(d, y) = n - 1) = x
  BY <1>4, <1>6
<1> QED BY <1>3, <1>5, <1>7
-----------------------------------------------------------------------------
(* Rows of an index and the cursor they belong to.                         *)

\* Rows of an index are counted shard by shard.
LEMMA RowsCounted ==
    ASSUME NEW index, NEW n \in Nat, \A j \in 1..n : Len(index[j].rows) \in Nat
    PROVE  /\ RowsBefore(index, 1) = 0
           /\ \A i \in 1..n + 1 : RowsBefore(index, i) \in Nat
           /\ \A i \in 1..n : RowsBefore(index, i + 1) = RowsBefore(index, i) + Len(index[i].rows)
<1> DEFINE f == [j \in 1..n |-> {j} \X (1..Len(index[j].rows))]
           U(i) == UNION {{j} \X (1..Len(index[j].rows)) : j \in 1..i - 1}
<1>1. ASSUME NEW j \in 1..n
      PROVE  /\ IsFiniteSet({j} \X (1..Len(index[j].rows)))
             /\ Cardinality({j} \X (1..Len(index[j].rows))) = Len(index[j].rows)
  <2>1. Len(index[j].rows) \in Nat
    OBVIOUS
  <2>2. IsFiniteSet(1..Len(index[j].rows)) /\ Cardinality(1..Len(index[j].rows)) = Len(index[j].rows)
    <3> DEFINE q == Len(index[j].rows)
    <3>1. q \in Nat /\ q \in Int /\ 1 \in Int
      BY <2>1
    <3> HIDE DEF q
    <3>2. IsFiniteSet(1..q) /\ Cardinality(1..q) = IF 1 > q THEN 0 ELSE q - 1 + 1
      BY <3>1, FS_Interval
    <3>3. Cardinality(1..q) = q
      BY <3>1, <3>2
    <3> QED BY <3>2, <3>3 DEF q
  <2>3. IsFiniteSet({j}) /\ Cardinality({j}) = 1
    BY FS_Singleton
  <2> DEFINE A == {j}
             B == 1..Len(index[j].rows)
  <2>4. IsFiniteSet(A) /\ IsFiniteSet(B) /\ Cardinality(A) = 1
        /\ Cardinality(B) = Len(index[j].rows)
    BY <2>2, <2>3
  <2>5. IsFiniteSet(A \X B) /\ Cardinality(A \X B) = Cardinality(A) * Cardinality(B)
    <3> HIDE DEF A, B
    <3> QED BY <2>4, FS_Product
  <2>6. Cardinality(A) * Cardinality(B) = Len(index[j].rows)
    <3> HIDE DEF A, B
    <3> QED BY <2>1, <2>4
  <2> QED BY <2>5, <2>6
<1>2. ASSUME NEW i \in 1..n + 1 PROVE IsFiniteSet(U(i))
  <2>1. IsFiniteSet(1..i - 1)
    <3>1. 1 \in Int /\ i - 1 \in Int
      OBVIOUS
    <3> QED BY <3>1, FS_Interval
  <2>2. ASSUME NEW x \in 1..i - 1 PROVE IsFiniteSet(f[x])
    <3>1. x \in 1..n
      OBVIOUS
    <3>2. f[x] = {x} \X (1..Len(index[x].rows))
      BY <3>1
    <3> QED BY <1>1, <3>1, <3>2
  <2>3. U(i) = UNION {f[x] : x \in 1..i - 1}
    <3>1. \A x \in 1..i - 1 : f[x] = {x} \X (1..Len(index[x].rows))
      OBVIOUS
    <3> HIDE DEF f
    <3> QED BY <3>1
  <2> DEFINE I == 1..i - 1
  <2>4. IsFiniteSet(I) /\ \A x \in I : IsFiniteSet(f[x])
    BY <2>1, <2>2
  <2>5. U(i) = UNION {f[x] : x \in I}
    BY <2>3
  <2> HIDE DEF f, U, I
  <2> QED BY <2>4, <2>5, FiniteUnion
<1>3. \A i : RowsBefore(index, i) = Cardinality(U(i))
  BY DEF RowsBefore
<1>4. U(1) = {}
  OBVIOUS
<1>5. ASSUME NEW i \in 1..n
      PROVE  Cardinality(U(i + 1)) = Cardinality(U(i)) + Len(index[i].rows)
  <2> DEFINE V == {i} \X (1..Len(index[i].rows))
  <2>1. U(i + 1) = U(i) \cup V
    <3>1. 1..(i + 1) - 1 = (1..i - 1) \cup {i}
      OBVIOUS
    <3> QED BY <3>1
  <2>2. U(i) \cap V = {}
    OBVIOUS
  <2>3. IsFiniteSet(U(i)) /\ IsFiniteSet(V) /\ Cardinality(V) = Len(index[i].rows)
    <3>1. IsFiniteSet(V) /\ Cardinality(V) = Len(index[i].rows)
      BY <1>1
    <3>2. i \in 1..n + 1
      OBVIOUS
    <3> HIDE DEF U, V
    <3> QED BY <1>2, <3>1, <3>2
  <2>4. Cardinality(U(i)) \in Nat /\ Cardinality(U(i) \cap V) = 0
    BY <2>2, <2>3, FS_CardinalityType, FS_EmptySet
  <2> HIDE DEF U, V
  <2>5. Cardinality(U(i) \cup V) = Cardinality(U(i)) + Cardinality(V) - Cardinality(U(i) \cap V)
    BY <2>3, FS_Union
  <2>6. Len(index[i].rows) \in Nat
    OBVIOUS
  <2>7. Cardinality(U(i + 1)) = Cardinality(U(i) \cup V)
    BY <2>1
  <2>8. Cardinality(U(i) \cup V) = Cardinality(U(i)) + Len(index[i].rows)
    BY <2>3, <2>4, <2>5, <2>6
  <2> QED BY <2>7, <2>8
<1>6. Cardinality(U(1)) = 0
  BY <1>4, FS_EmptySet
<1> HIDE DEF U
<1>7. \A i \in 1..n + 1 : Cardinality(U(i)) \in Nat
  BY <1>2, FS_CardinalityType
<1> QED BY <1>3, <1>5, <1>6, <1>7

\* What is appended to an index leaves the counts before it alone.
LEMMA RowsAppended ==
    ASSUME NEW index, NEW more, NEW i \in Nat, \A j \in 1..i - 1 : more[j] = index[j]
    PROVE  RowsBefore(more, i) = RowsBefore(index, i)
BY DEF RowsBefore

\* The rows of a shard, and their number.
LEMMA ShardFacts ==
    ASSUME NEW d, NEW a \in Archives
    PROVE  /\ UpTo(d, a - 1) \in Nat /\ UpTo(d, a) \in Nat /\ UpTo(d, a - 1) <= UpTo(d, a)
           /\ DOMAIN ShardRows(d, a) = 1..(UpTo(d, a) - UpTo(d, a - 1))
           /\ Len(ShardRows(d, a)) = UpTo(d, a) - UpTo(d, a - 1)
           /\ ShardRows(d, a) = <<>> <=> UpTo(d, a) = UpTo(d, a - 1)
<1>1. a \in Nat /\ a - 1 \in 0..Len(Kept) /\ a \in (a - 1)..Len(Kept)
  BY ArchiveFacts, KeptFacts
<1>2. UpTo(d, a - 1) \in Nat /\ UpTo(d, a) \in Nat /\ UpTo(d, a - 1) <= UpTo(d, a)
  BY <1>1, PlaceEnds
<1> DEFINE n == UpTo(d, a) - UpTo(d, a - 1)
<1>3. n \in Nat
  BY <1>2
<1>4. DOMAIN ShardRows(d, a) = 1..n
  BY DEF ShardRows, RowsFrom
<1>5. ShardRows(d, a) = [k \in 1..n |-> ShardRows(d, a)[k]]
  BY DEF ShardRows, RowsFrom
<1>6. Len(ShardRows(d, a)) = n
  <2> HIDE DEF n
  <2> QED BY <1>3, <1>5
<1>7. ShardRows(d, a) = <<>> <=> n = 0
  <2> HIDE DEF n
  <2> QED BY <1>3, <1>4, <1>5
<1> QED BY <1>2, <1>4, <1>6, <1>7

\* A construction begins with nothing.
LEMMA CursorStarts ==
    ASSUME NEW d
    PROVE  CursorExact(d, InitialCursor) /\ InitialCursor.next = 0
<1>1. InitialCursor \in Cursors
  BY KeptFacts DEF InitialCursor, Cursors, Indexes
<1>2. UpTo(d, 0) = 0
  BY PlaceEnds
<1>3. RowsBefore(<<>>, 1) = 0
  <2>1. \A j \in 1..0 : Len(<<>>[j].rows) \in Nat
    OBVIOUS
  <2> QED BY <2>1, RowsCounted
<1>4. IndexExact(d, InitialCursor)
  BY <1>3 DEF IndexExact, InitialCursor, Records
<1> QED BY <1>1, <1>2, <1>4 DEF CursorExact, InitialCursor

\* The counts of a cursor's index.
LEMMA IndexCounts ==
    ASSUME NEW d, NEW c, CursorExact(d, c)
    PROVE  /\ Len(c.index) \in Nat /\ c.index \in Indexes
           /\ c.next \in 0..Len(Kept) /\ c.documents \in Nat
           /\ \A i \in 1..Len(c.index) : /\ c.index[i].rows \in Shards /\ Len(c.index[i].rows) \in Nat
                                         /\ c.index[i].archive \in Archives
           /\ RowsBefore(c.index, Len(c.index) + 1) = c.documents
           /\ c.documents = UpTo(d, c.next)
<1>1. c \in Cursors
  BY DEF CursorExact
<1>2. c.index \in Indexes /\ c.next \in 0..Len(Kept) /\ c.documents \in Nat
  BY <1>1 DEF Cursors
<1>3. \A i \in 1..Len(c.index) : c.index[i] \in [archive : Archives, rows : Shards]
  <2> DEFINE S == [archive : Archives, rows : Shards]
  <2>1. c.index \in Seq(S)
    BY <1>2 DEF Indexes
  <2> HIDE DEF S
  <2>2. \A i \in 1..Len(c.index) : c.index[i] \in S
    BY <2>1, ElementOfSeq
  <2> QED BY <2>2 DEF S
<1>4. \A i \in 1..Len(c.index) : c.index[i].rows \in Shards /\ c.index[i].archive \in Archives
  BY <1>3
<1>5. \A i \in 1..Len(c.index) : Len(c.index[i].rows) \in Nat
  BY <1>4 DEF Shards
<1>6. Len(c.index) \in Nat
  BY <1>2 DEF Indexes
<1> QED BY <1>2, <1>4, <1>5, <1>6 DEF CursorExact, IndexExact, Records

Extended(c, s) == [next |-> c.next + 1, documents |-> c.documents + Len(s),
                   index |-> IF s = <<>> THEN c.index
                             ELSE Append(c.index, [archive |-> c.next + 1, rows |-> s])]

\* A commit of the next archive's rows keeps a cursor exact.
LEMMA CursorAdvances ==
    ASSUME NEW d, NEW c, CursorExact(d, c), c.next < Len(Kept),
           NEW s \in Shards, s = ShardRows(d, c.next + 1)
    PROVE  CursorExact(d, Extended(c, s))
<1> DEFINE a == c.next + 1
           n == Extended(c, s)
<1>1. a \in Archives /\ a - 1 = c.next /\ a \in 1..Len(Kept)
  BY IndexCounts, KeptFacts
<1>2. UpTo(d, a - 1) \in Nat /\ UpTo(d, a) \in Nat /\ Len(s) = UpTo(d, a) - UpTo(d, a - 1)
  BY <1>1, ShardFacts
<1>3. n.next = a /\ n.documents = UpTo(d, a)
  BY <1>1, <1>2, IndexCounts DEF Extended
<1>4. CASE s = <<>>
  <2>1. n.index = c.index
    BY <1>4 DEF Extended
  <2>2. UpTo(d, a) = c.documents
    BY <1>1, <1>2, <1>4, ShardFacts, IndexCounts
  <2>3. n = [next |-> a, documents |-> UpTo(d, a), index |-> c.index]
    BY <2>1, <1>3, <1>4 DEF Extended
  <2>4. n \in Cursors
    BY <2>3, <1>1, <1>2, IndexCounts, KeptFacts DEF Cursors
  <2>5. \A i \in 1..Len(c.index) : c.index[i].archive \in 1..a
    BY <1>1, IndexCounts DEF CursorExact, IndexExact
  <2>6. IndexExact(d, n)
    <3> HIDE DEF n, a
    <3>1. IndexExact(d, c)
      BY DEF CursorExact
    <3> QED BY <2>1, <1>3, <2>2, <2>5, <3>1 DEF IndexExact
  <2> QED BY <2>4, <2>6, <1>3 DEF CursorExact
<1>5. CASE s # <<>>
  <2> DEFINE x == [archive |-> a, rows |-> s]
             m == Len(c.index)
  <2>1. n.index = Append(c.index, x) /\ m \in Nat /\ c.index \in Indexes
    BY <1>5, IndexCounts DEF Extended
  <2>2. x \in [archive : Archives, rows : Shards]
    BY <1>1
  <2>3. n.index \in Indexes /\ Len(n.index) = m + 1 /\ n.index[m + 1] = x
        /\ \A j \in 1..m : n.index[j] = c.index[j]
    <3> DEFINE S == [archive : Archives, rows : Shards]
    <3>1. c.index \in Seq(S) /\ Indexes = Seq(S)
      BY <2>1 DEF Indexes
    <3>2. x \in S /\ n.index = Append(c.index, x)
      BY <2>1, <2>2
    <3> HIDE DEF x, S, n
    <3>3. /\ Append(c.index, x) \in Seq(S)
          /\ Len(Append(c.index, x)) = Len(c.index) + 1
          /\ \A j \in 1..Len(c.index) : Append(c.index, x)[j] = c.index[j]
          /\ Append(c.index, x)[Len(c.index) + 1] = x
      BY <3>1, <3>2, AppendProperties
    <3> QED BY <3>1, <3>2, <3>3
  <2>4. n = [next |-> a, documents |-> UpTo(d, a), index |-> n.index]
    BY <1>3 DEF Extended
  <2>5. n \in Cursors
    BY <2>3, <2>4, <1>1, <1>2, KeptFacts DEF Cursors
  <2>6. \A i \in 1..m + 1 : RowsBefore(n.index, i) = RowsBefore(c.index, i)
    <3> TAKE i \in 1..m + 1
    <3>1. i \in Nat /\ \A j \in 1..i - 1 : n.index[j] = c.index[j]
      BY <2>1, <2>3
    <3> HIDE DEF n
    <3> QED BY <3>1, RowsAppended
  <2>7. RowsBefore(n.index, m + 1) = UpTo(d, a - 1)
    BY <2>1, <2>6, <1>1, IndexCounts
  <2>8. Records(n.index) = UpTo(d, a)
    <3>1. \A j \in 1..m + 1 : Len(n.index[j].rows) \in Nat
      <4>1. Len(x.rows) \in Nat
        BY DEF Shards
      <4> HIDE DEF x
      <4> QED BY <4>1, <2>1, <2>3, IndexCounts
    <3>2. n.index[m + 1].rows = s
      BY <2>3
    <3> HIDE DEF n, m, x
    <3>3. m + 1 \in Nat
      BY <2>1
    <3>4. RowsBefore(n.index, (m + 1) + 1) = RowsBefore(n.index, m + 1) + Len(s)
      <4> DEFINE q == m + 1
      <4>1. q \in Nat /\ q \in 1..q /\ \A j \in 1..q : Len(n.index[j].rows) \in Nat
        BY <2>1, <3>1
      <4> HIDE DEF q
      <4>2. RowsBefore(n.index, q + 1) = RowsBefore(n.index, q) + Len(n.index[q].rows)
        BY <4>1, RowsCounted
      <4> QED BY <4>2, <3>2 DEF q
    <3> QED BY <3>4, <2>3, <2>7, <1>2 DEF Records
  <2>9. ASSUME NEW i \in 1..m + 1
        PROVE  /\ n.index[i].archive \in 1..a
               /\ n.index[i].rows = ShardRows(d, n.index[i].archive) /\ n.index[i].rows # <<>>
               /\ RowsBefore(n.index, i) = UpTo(d, n.index[i].archive - 1)
               /\ i > 1 => n.index[i - 1].archive < n.index[i].archive
    <3>1. CASE i = m + 1
      <4>1. n.index[i].archive = a /\ n.index[i].rows = s
        BY <3>1, <2>3
      <4>2. i > 1 => n.index[i - 1].archive < a
        <5>1. ASSUME i > 1 PROVE i - 1 \in 1..m
          BY <5>1, <3>1, <2>1
        <5>2. i > 1 => n.index[i - 1] = c.index[i - 1] /\ c.index[i - 1].archive \in 1..c.next
          <6> HIDE DEF n, m
          <6> QED BY <5>1, <2>3 DEF CursorExact, IndexExact, m
        <5>3. ASSUME i > 1 PROVE n.index[i - 1].archive < a
          <6>1. c.next \in Int /\ n.index[i - 1].archive \in 1..c.next
            BY <5>2, <5>3, IndexCounts
          <6> QED BY <6>1
        <5> QED BY <5>3
      <4> HIDE DEF n
      <4> QED BY <3>1, <4>1, <4>2, <2>7, <1>1, <1>5
    <3>2. CASE i \in 1..m
      <4>1. n.index[i] = c.index[i] /\ RowsBefore(n.index, i) = RowsBefore(c.index, i)
        BY <3>2, <2>3, <2>6
      <4>2. i > 1 => n.index[i - 1] = c.index[i - 1]
        <5>1. ASSUME i > 1 PROVE i - 1 \in 1..m
          BY <5>1, <3>2, <2>1
        <5> QED BY <5>1, <2>3
      <4>3. c.index[i].archive \in 1..a
        <5>1. c.next \in Int
          BY IndexCounts
        <5>2. c.index[i].archive \in 1..c.next
          BY <3>2 DEF CursorExact, IndexExact
        <5> QED BY <5>1, <5>2
      <4> HIDE DEF n
      <4> QED BY <3>2, <4>1, <4>2, <4>3 DEF CursorExact, IndexExact
    <3> QED BY <3>1, <3>2, <2>1
  <2>10. IndexExact(d, n)
    <3> HIDE DEF n, a, m
    <3> QED BY <2>3, <2>8, <2>9, <1>3 DEF IndexExact
  <2> QED BY <2>5, <2>10, <1>3 DEF CursorExact
<1> QED BY <1>4, <1>5

\* An exact cursor whose rows are filed passes the checks of a resume, and as the
\* cursor of a finished writer it gives the index manifest that passes too.
LEMMA CursorPasses ==
    ASSUME NEW d \in Dests, NEW c, CursorExact(d, c), Filed, c.next <= writer[d].cursor.next,
           writer[d].cursor.next \in Nat
    PROVE  /\ ListedIntact(d, c.index) /\ CursorValid(d, c)
           /\ \A m : (/\ m.documents = c.documents /\ m.shards = c.index
                      /\ c.documents = Len(writer[d].docs)) => IndexValid(d, m)
<1>1. c.next \in Nat /\ c.next <= Len(Kept) /\ Len(c.index) \in Nat
  BY IndexCounts, KeptFacts
<1>2. ASSUME NEW i \in 1..Len(c.index)
      PROVE  /\ c.index[i].archive \in 1..c.next /\ c.index[i].archive \in Archives
             /\ c.index[i].rows = ShardRows(d, c.index[i].archive) /\ c.index[i].rows # <<>>
             /\ RowsBefore(c.index, i) = UpTo(d, c.index[i].archive - 1)
             /\ i > 1 => c.index[i - 1].archive < c.index[i].archive
  BY IndexCounts DEF CursorExact, IndexExact
<1>3. ASSUME NEW i \in 1..Len(c.index)
      PROVE  <<d, c.index[i].archive>> \in DOMAIN indexFiles
             /\ indexFiles[<<d, c.index[i].archive>>] = c.index[i].rows
  <2> DEFINE a == c.index[i].archive
  <2>1. a \in 1..c.next /\ ShardRows(d, a) # <<>>
    BY <1>2
  <2>2. a \in 1..writer[d].cursor.next
    BY <2>1, <1>1
  <2>3. <<d, a>> \in DOMAIN indexFiles
    BY <2>1, <2>2 DEF Filed
  <2>4. indexFiles[<<d, a>>] = ShardRows(<<d, a>>[1], <<d, a>>[2])
    BY <2>3 DEF Filed
  <2> QED BY <2>3, <2>4, <1>2
<1>4. ListedIntact(d, c.index)
  BY <1>3 DEF ListedIntact
<1>5. Records(c.index) = c.documents
  BY DEF CursorExact, IndexExact
<1>6. CursorValid(d, c)
  <2>1. \A i \in 1..Len(c.index) : c.index[i].archive <= c.next
    BY <1>1, <1>2
  <2> QED BY <1>1, <1>2, <1>4, <1>5, <2>1 DEF CursorValid
<1>7. ASSUME NEW m, m.documents = c.documents, m.shards = c.index,
             c.documents = Len(writer[d].docs)
      PROVE  IndexValid(d, m)
  <2>1. ASSUME NEW i \in 1..Len(c.index), NEW k \in 1..Len(c.index[i].rows)
        PROVE  c.index[i].rows[k][2] = RowsBefore(c.index, i) + k - 1
    <3> DEFINE a == c.index[i].archive
    <3>1. a \in Archives /\ c.index[i].rows = ShardRows(d, a) /\ RowsBefore(c.index, i) = UpTo(d, a - 1)
      BY <1>2
    <3>2. k \in 1..(UpTo(d, a) - UpTo(d, a - 1))
      BY <3>1, ShardFacts
    <3>3. ShardRows(d, a)[k] = <<Reference(d)[UpTo(d, a - 1) + k], UpTo(d, a - 1) + k - 1>>
      BY <3>2 DEF ShardRows, RowsFrom
    <3> QED BY <3>1, <3>3
  <2> QED BY <1>4, <1>5, <1>7, <2>1 DEF IndexValid
<1>8. \A m : (/\ m.documents = c.documents /\ m.shards = c.index
             /\ c.documents = Len(writer[d].docs)) => IndexValid(d, m)
  BY <1>7, Zenon
<1> QED BY <1>4, <1>6, <1>8, Zenon

\* A document of an archive stands where the rows so far end.
LEMMA NextDocument ==
    ASSUME NEW a \in Archives, NEW i \in 1..Len(Kept[a]), NEW d \in Dests, Kept[a][i] = d
    PROVE  LET here == Place(d, <<a, i>>)
           IN  /\ Place(d, <<a, i + 1>>) = here + 1 /\ Reference(d)[here + 1] = <<a, i>>
               /\ here \in Nat /\ UpTo(d, a - 1) <= here /\ UpTo(d, a - 1) \in Nat
<1>1. <<a, i>> \in Documents(d)
  BY DocumentsFinite
<1>2. Reference(d)[Place(d, <<a, i>>) + 1] = <<a, i>>
  BY <1>1, PlaceOf
<1>3. Place(d, <<a, i + 1>>) = Place(d, <<a, i>>) + 1 /\ Place(d, <<a, i>>) \in Nat
  BY PlaceStep, PlaceType
<1>4. UpTo(d, a - 1) = Place(d, <<a, 1>>)
  BY ArchiveFacts DEF UpTo
<1>5. Before(d, <<a, 1>>) \subseteq Before(d, <<a, i>>)
  <2>1. ASSUME NEW y \in Documents(d), Earlier(y, <<a, 1>>) PROVE Earlier(y, <<a, i>>)
    <3>1. PICK b \in Archives, j \in Nat : j \in 1..Len(Kept[b]) /\ y = <<b, j>>
      BY DocumentsFinite
    <3>2. b \in Nat /\ a \in Nat /\ i \in Nat /\ i >= 1
      BY ArchiveFacts
    <3> QED BY <2>1, <3>1, <3>2 DEF Earlier
  <2> QED BY <2>1 DEF Before
<1> QED BY <1>2, <1>3, <1>4, <1>5, PlaceMonotone, PlaceType

\* Appending the next document to a prefix, and its row to the rows.
LEMMA PrefixGrows ==
    ASSUME NEW d \in Dests, NEW n \in Nat, NEW x, Reference(d)[n + 1] = x,
           NEW from \in Nat, from <= n
    PROVE  /\ Append(Prefix(d, n), x) = Prefix(d, n + 1)
           /\ Append(RowsFrom(d, from, n), <<x, from + Len(RowsFrom(d, from, n))>>)
                = RowsFrom(d, from, n + 1)
<1>1. Append(Prefix(d, n), x) = Prefix(d, n + 1)
  <2>1. Len(Prefix(d, n)) = n
    BY DEF Prefix
  <2> QED BY <2>1 DEF Prefix
<1> DEFINE m == n - from
           r == [k \in 1..m |-> <<Reference(d)[from + k], from + k - 1>>]
<1>2. m \in Nat /\ from + m = n /\ (n + 1) - from = m + 1
  OBVIOUS
<1>3. RowsFrom(d, from, n) = r /\ Len(r) = m
  <2>1. RowsFrom(d, from, n) = r
    BY DEF RowsFrom
  <2> HIDE DEF m
  <2> QED BY <2>1, <1>2
<1>4. RowsFrom(d, from, n + 1) = [k \in 1..m + 1 |-> <<Reference(d)[from + k], from + k - 1>>]
  BY <1>2 DEF RowsFrom
<1>5. <<Reference(d)[from + (m + 1)], from + (m + 1) - 1>> = <<x, from + m>>
  <2>1. from + (m + 1) = n + 1 /\ from + (m + 1) - 1 = from + m
    OBVIOUS
  <2> QED BY <2>1
<1>6. Append(r, <<x, from + m>>) = [k \in 1..m + 1 |-> <<Reference(d)[from + k], from + k - 1>>]
  <2> HIDE DEF m
  <2> QED BY <1>2, <1>3, <1>5
<1> QED BY <1>1, <1>3, <1>4, <1>6
-----------------------------------------------------------------------------
(* The least of some numbers, and what it is for a run.                    *)

\* A set of numbers that is not empty has a least one.
LEMMA LeastNatural ==
    ASSUME NEW S, S \subseteq Nat, S # {}
    PROVE  \E n \in S : \A m \in S : n <= m
<1>1. \E n \in S : \A m \in S : <<m, n>> \notin OpToRel(<, Nat)
  BY NatLessThanWellFounded, WFMin
<1>2. PICK n \in S : \A m \in S : <<m, n>> \notin OpToRel(<, Nat)
  BY <1>1
<1>3. ASSUME NEW m \in S PROVE n <= m
  <2>1. m \in Nat /\ n \in Nat
    OBVIOUS
  <2>2. m < n => <<m, n>> \in OpToRel(<, Nat)
    BY <2>1 DEF OpToRel
  <2>3. <<m, n>> \notin OpToRel(<, Nat)
    BY <1>2, <1>3, Zenon
  <2>4. ~(m < n)
    BY <2>2, <2>3, Zenon
  <2> QED BY <2>1, <2>4
<1> QED BY <1>3

\* The archive a run works on next is that of a lagging writer.
LEMMA LowestFacts ==
    ASSUME cursor \in [Dests -> Cursors]
    PROVE  /\ Lowest \in 0..Len(Kept) /\ Lowest \in Nat
           /\ \A d \in Dests : cursor[d].next \in 0..Len(Kept) /\ Lowest <= cursor[d].next
           /\ \E d \in Dests : cursor[d].next = Lowest
<1> DEFINE S == {cursor[d].next : d \in Dests}
<1>1. \A d \in Dests : cursor[d].next \in 0..Len(Kept)
  BY DEF Cursors
<1>2. S \subseteq Nat /\ S # {}
  BY <1>1, KeptFacts, DestinationFacts
<1>3. \E n \in S : \A d \in Dests : n <= cursor[d].next
  <2>1. \E n \in S : \A m \in S : n <= m
    <3> HIDE DEF S
    <3> QED BY <1>2, LeastNatural
  <2> QED BY <2>1
<1>4. Lowest \in S /\ \A d \in Dests : Lowest <= cursor[d].next
  BY <1>3 DEF Lowest
<1> QED BY <1>1, <1>4, KeptFacts

\* A cursor that no other is behind is the lowest.
LEMMA LowestIs ==
    ASSUME cursor \in [Dests -> Cursors], NEW d \in Dests,
           \A e \in Dests : cursor[d].next <= cursor[e].next
    PROVE  Lowest = cursor[d].next
<1>1. \A e \in Dests : cursor[e].next \in 0..Len(Kept)
  BY DEF Cursors
<1>2. PICK e \in Dests : cursor[e].next = Lowest
  BY LowestFacts
<1>3. Lowest <= cursor[d].next
  BY LowestFacts
<1> QED BY <1>1, <1>2, <1>3, KeptFacts

\* A loop goes on with one of the destinations that are left.
LEMMA NextFacts ==
    ASSUME left \subseteq Dests, left # {}
    PROVE  NextDestination \in left
<1> DEFINE S == {i \in DOMAIN Destinations : Destinations[i] \in left}
<1>1. S \subseteq Nat /\ S # {}
  BY DestinationFacts
<1>2. \E i \in S : \A j \in S : i <= j
  <2> HIDE DEF S
  <2> QED BY <1>1, LeastNatural
<1> DEFINE i == CHOOSE i \in S : \A j \in S : i <= j
<1>3. i \in S
  <2> HIDE DEF S
  <2> QED BY <1>2
<1>4. NextDestination = Destinations[i]
  BY DEF NextDestination
<1> HIDE DEF i
<1> QED BY <1>3, <1>4

-----------------------------------------------------------------------------
(* What every step may rely on.                                            *)

\* What is asked of a run depends on the recipe.
LEMMA JobFacts ==
    ASSUME PackTypeOK, pc # "down"
    PROVE  /\ job.kind \in {"materialize", "portable"} /\ job.stop \in BOOLEAN
           /\ job.geometry \in Geometries \cup {None}
           /\ recipe # "mixed" => job.kind = Maker \/ (job.kind = "materialize" /\ job.stop)
<1>1. /\ Wanted.kind = "materialize" /\ Wanted.stop = FALSE
      /\ Wanted.geometry \in Geometries
  <2>1. (CHOOSE g \in Geometries : TRUE) \in Geometries
    BY DestinationsAssumption
  <2> QED BY <2>1 DEF Wanted
<1>2. job \in RecipeJobs /\ recipe \in {"alone", "handoff", "mixed"}
  BY DEF PackTypeOK, RunTypeOK
<1>3. CASE recipe = "alone"
  <2>1. job = PackingJob \/ job = Wanted
    BY <1>2, <1>3 DEF RecipeJobs
  <2>2. CASE job = PackingJob
    BY <2>2, <1>3 DEF PackingJob, Maker
  <2>3. CASE job = Wanted
    BY <2>3, <1>1, <1>3 DEF Maker
  <2> QED BY <2>1, <2>2, <2>3
<1>4. CASE recipe = "handoff"
  <2>1. job = PackingJob \/ job = HeldoutJob \/ job = FinalJob
    BY <1>2, <1>4 DEF RecipeJobs
  <2>2. CASE job = PackingJob
    BY <2>2, <1>4 DEF PackingJob, Maker
  <2>3. CASE job = HeldoutJob
    BY <2>3, <1>4 DEF HeldoutJob, Maker
  <2>4. CASE job = FinalJob
    BY <2>4, <1>1, <1>4 DEF FinalJob, Maker
  <2> QED BY <2>1, <2>2, <2>3, <2>4
<1>5. CASE recipe = "mixed"
  <2>1. job \in Jobs \cup PortableJobs
    BY <1>2, <1>5 DEF RecipeJobs
  <2>2. \/ job \in [kind : {"materialize"}, geometry : Geometries, stop : {FALSE}]
        \/ job \in [kind : {"portable"}, geometry : Geometries, stop : {FALSE}]
        \/ job = PackingJob \/ job = HeldoutJob
    BY <2>1 DEF Jobs, PortableJobs, PackingJob, HeldoutJob
  <2>3. CASE job \in [kind : {"materialize"}, geometry : Geometries, stop : {FALSE}]
    BY <2>3, <1>5
  <2>4. CASE job \in [kind : {"portable"}, geometry : Geometries, stop : {FALSE}]
    BY <2>4, <1>5
  <2>5. CASE job = PackingJob
    BY <2>5, <1>5 DEF PackingJob
  <2>6. CASE job = HeldoutJob
    BY <2>6, <1>5 DEF HeldoutJob
  <2> QED BY <2>2, <2>3, <2>4, <2>5, <2>6
<1> QED BY <1>2, <1>3, <1>4, <1>5
\* Facts about the directory that stay true while nothing in it changes.
Untouched == UNCHANGED <<recipe, writer, indexFiles, indexManifest, journal, orders, staging,
                         provenance, manifest, sidecar>>
LEMMA SameDirectory ==
    ASSUME IInv, Untouched
    PROVE  /\ Durable' /\ Filed' /\ Staging' /\ DirectoryTypeOK'
           /\ AllPacked' <=> AllPacked
           /\ Complete' <=> Complete
           /\ Blank' <=> Blank
           /\ journal # None => Backed(journal)'
           /\ Certified(provenance["handoff"])'
           /\ Published(manifest)' <=> Published(manifest)
<1>1. Durable'
  BY DEF IInv, Durable, Untouched
<1>2. Filed'
  BY DEF IInv, Filed, Untouched
<1>3. Staging'
  BY DEF IInv, Staging, Maker, Untouched
<1>0. DirectoryTypeOK'
  BY DEF IInv, PackTypeOK, DirectoryTypeOK, Untouched
<1>4. (AllPacked' <=> AllPacked) /\ (Complete' <=> Complete) /\ (Blank' <=> Blank)
  BY DEF AllPacked, Complete, Blank, Untouched
<1>5. journal # None => Backed(journal)'
  <2>1. journal # None => Backed(journal)
    BY DEF IInv, Journalled
  <2>2. Backed(journal) => Backed(journal)'
    BY <1>4 DEF Backed, Untouched
  <2> QED BY <2>1, <2>2
<1>6. Certified(provenance["handoff"])'
  <2>1. Certified(provenance["handoff"])
    BY DEF IInv, Ordered
  <2> QED BY <1>4, <2>1 DEF Certified, Untouched
<1>7. Published(manifest)' <=> Published(manifest)
  BY <1>4 DEF Published, Contents, Listed, Untouched
<1> QED BY <1>0, <1>1, <1>2, <1>3, <1>4, <1>5, <1>6, <1>7

\* The end of a run leaves a directory another run can start from.
LEMMA EndKeeps ==
    ASSUME IInv, pc' = "down", Forget, Untouched
    PROVE  IInv'
<1>0. /\ Here' = "down" /\ pc' # "replace" /\ ~Writing("journal")' /\ ~Writing("manifest")'
      /\ ~Writing("sidecar")'
  BY DEF Here, Writing
<1>1. Durable' /\ Filed' /\ Staging'
  BY SameDirectory
<1>4. Journalled'
  <2>1. journal' = None => Complete' \/ Blank'
    BY SameDirectory DEF IInv, Journalled, Untouched
  <2>2. journal' # None => Backed(journal)'
    BY SameDirectory DEF Untouched
  <2> QED BY <1>0, <2>1, <2>2 DEF Journalled, OrderPlaces
<1>5. PackTypeOK'
  <2>1. InitialCursor \in Cursors /\ <<>> \in Streams /\ <<>> \in Shards
    BY KeptFacts DEF InitialCursor, Cursors, Indexes, Streams, Shards
  <2>2. stream' \in [Dests -> Streams] /\ shard' \in [Dests -> Shards] /\ cursor' \in [Dests -> Cursors]
    BY <2>1 DEF Forget, Nothing, NoCursors
  <2>3. left' = {} /\ todo' = <<>> /\ fed' = 0 /\ pc' \in Places
    BY DEF Forget, Places
  <2>4. recipe' = recipe /\ recipe \in {"alone", "handoff", "mixed"}
    BY DEF IInv, PackTypeOK, RunTypeOK, Untouched
  <2>5. RunTypeOK' /\ MemoryTypeOK'
    BY <1>0, <2>2, <2>3, <2>4 DEF RunTypeOK, MemoryTypeOK
  <2> QED BY <2>5, SameDirectory DEF PackTypeOK
<1>6. Held'
  BY <1>0 DEF Held, PackingPlaces, OrderPlaces
<1>7. Ordered'
  BY <1>0, SameDirectory DEF Ordered, FinalPlaces
<1>8. Manifested'
  <2>1. Manifested /\ (manifest # None => AllPacked) /\ (sidecar # None => sidecar = manifest /\ Published(manifest))
    BY DEF IInv, Manifested
  <2>2. manifest' = manifest /\ sidecar' = sidecar
    BY DEF Untouched
  <2> QED BY <1>0, <2>1, <2>2, SameDirectory DEF Manifested
<1> QED BY <1>1, <1>4, <1>5, <1>6, <1>7, <1>8 DEF IInv

\* The end of a run that removes the journal of a finished corpus.
LEMMA EndFinishes ==
    ASSUME IInv, Complete, pc' = "down", Forget, journal' = None,
           UNCHANGED <<recipe, writer, indexFiles, indexManifest, orders, staging, provenance,
                       manifest, sidecar>>
    PROVE  IInv'
<1>0. /\ Here' = "down" /\ pc' # "replace" /\ ~Writing("journal")' /\ ~Writing("manifest")'
      /\ ~Writing("sidecar")'
  BY DEF Here, Writing
<1>1. Durable' /\ Filed' /\ Staging'
  BY DEF IInv, Durable, Filed, Staging, Maker
<1>2. (AllPacked' <=> AllPacked) /\ Complete'
  BY DEF AllPacked, Complete
<1>3. Published(manifest)' <=> Published(manifest)
  BY <1>2 DEF Published, Contents, Listed
<1>4. Journalled'
  BY <1>0, <1>2 DEF Journalled, OrderPlaces
<1>5. PackTypeOK'
  <2>1. InitialCursor \in Cursors /\ <<>> \in Streams /\ <<>> \in Shards
    BY KeptFacts DEF InitialCursor, Cursors, Indexes, Streams, Shards
  <2>2. stream' \in [Dests -> Streams] /\ shard' \in [Dests -> Shards] /\ cursor' \in [Dests -> Cursors]
    BY <2>1 DEF Forget, Nothing, NoCursors
  <2>3. left' = {} /\ todo' = <<>> /\ fed' = 0 /\ pc' \in Places
    BY DEF Forget, Places
  <2>4. recipe' = recipe /\ recipe \in {"alone", "handoff", "mixed"}
    BY DEF IInv, PackTypeOK, RunTypeOK
  <2>5. RunTypeOK' /\ MemoryTypeOK'
    BY <1>0, <2>2, <2>3, <2>4 DEF RunTypeOK, MemoryTypeOK
  <2>6. DirectoryTypeOK'
    BY DEF IInv, PackTypeOK, DirectoryTypeOK
  <2> QED BY <2>5, <2>6 DEF PackTypeOK
<1>6. Held'
  BY <1>0 DEF Held, PackingPlaces, OrderPlaces
<1>7. Ordered'
  <2>1. Certified(provenance["handoff"])
    BY DEF IInv, Ordered
  <2>2. Certified(provenance["handoff"])'
    BY <1>2, <2>1 DEF Certified
  <2> QED BY <1>0, <2>2 DEF Ordered, FinalPlaces
<1>8. Manifested'
  <2>1. Manifested /\ (manifest # None => AllPacked) /\ (sidecar # None => sidecar = manifest /\ Published(manifest))
    BY DEF IInv, Manifested
  <2> QED BY <1>0, <1>2, <1>3, <2>1 DEF Manifested
<1> QED BY <1>1, <1>4, <1>5, <1>6, <1>7, <1>8 DEF IInv

-----------------------------------------------------------------------------
(* Steps of packing.                                                       *)

\* A step of packing that leaves the directory alone.
LEMMA PackingMove ==
    ASSUME IInv, Untouched, job' = job, pc \in PackingPlaces, pc' \in PackingPlaces,
           RunTypeOK', MemoryTypeOK', Held'
    PROVE  IInv'
<1>0. /\ Here = pc /\ Here' = pc' /\ pc # "replace" /\ pc' # "replace" /\ ~Writing("journal")'
      /\ ~Writing("manifest")' /\ ~Writing("sidecar")'
  BY DEF Here, Writing, PackingPlaces
<1>1. job.kind = "materialize" /\ journal # None /\ sidecar = None
  BY <1>0 DEF IInv, Held, Journalled, Manifested, PackingPlaces
<1>2. Journalled'
  <2>1. journal' # None /\ Backed(journal)'
    BY <1>1, SameDirectory DEF Untouched
  <2>2. job'.kind = "materialize"
    BY <1>1
  <2> QED BY <1>0, <2>1, <2>2 DEF Journalled
<1>3. Ordered'
  BY <1>0, SameDirectory DEF Ordered, PackingPlaces, FinalPlaces
<1>4. Manifested'
  <2>1. manifest' # None => AllPacked'
    BY SameDirectory DEF IInv, Manifested, Untouched
  <2>2. sidecar' = None
    BY <1>1 DEF Untouched
  <2> QED BY <1>0, <2>1, <2>2 DEF Manifested, PackingPlaces
<1> QED BY <1>2, <1>3, <1>4, SameDirectory DEF IInv, PackTypeOK

\* Before everything is packed no order and no manifest is written.
LEMMA Unpacked ==
    ASSUME IInv, ~AllPacked
    PROVE  /\ manifest = None /\ sidecar = None /\ provenance["handoff"] = None
           /\ journal # None => journal.phase = "packing"
BY DEF IInv, Manifested, Published, Ordered, Certified, Journalled, Backed

\* A destination with archives ahead of it is not packed.
LEMMA Lagging ==
    ASSUME IInv, NEW d \in Dests, writer[d].cursor.next # Len(Kept)
    PROVE  ~AllPacked /\ ~writer[d].published /\ indexManifest[d] = None
BY DEF IInv, Durable, AllPacked

\* A step of packing that commits or publishes something of a destination.
LEMMA PackingWrites ==
    ASSUME IInv, ~AllPacked, job' = job, pc \in PackingPlaces, pc' \in PackingPlaces,
           UNCHANGED <<recipe, journal, orders, staging, provenance, manifest, sidecar>>,
           \A d \in Dests : writer[d].cursor.next <= writer'[d].cursor.next,
           RunTypeOK', MemoryTypeOK', DirectoryTypeOK', Durable', Filed', Held'
    PROVE  IInv'
<1>0. /\ Here = pc /\ Here' = pc' /\ pc # "replace" /\ pc' # "replace" /\ ~Writing("journal")'
      /\ ~Writing("manifest")' /\ ~Writing("sidecar")'
  BY DEF Here, Writing, PackingPlaces
<1>1. job.kind = "materialize" /\ journal # None
  BY <1>0 DEF IInv, Held, Journalled, PackingPlaces
<1>2. Journalled'
  <2>1. journal' # None /\ journal'.phase = "packing"
    BY <1>1, Unpacked
  <2>2. Backed(journal)
    BY <1>1 DEF IInv, Journalled
  <2>3. \A d \in Dests : journal.cursors # <<>> =>
           /\ CursorExact(d, journal.cursors[d])
           /\ journal.cursors[d].next <= writer'[d].cursor.next
    <3> TAKE d \in Dests
    <3>1. HAVE journal.cursors # <<>>
    <3>2. CursorExact(d, journal.cursors[d]) /\ journal.cursors[d].next <= writer[d].cursor.next
      BY <2>2, <3>1 DEF Backed
    <3>3. journal.cursors[d].next \in Nat
      BY <3>2, IndexCounts, KeptFacts
    <3>4. writer[d].cursor.next \in Nat /\ writer'[d].cursor.next \in Nat
      <4>1. CursorExact(d, writer[d].cursor)
        BY DEF IInv, Durable
      <4>2. writer'[d].cursor \in Cursors
        BY DEF DirectoryTypeOK
      <4> QED BY <4>1, <4>2, IndexCounts, KeptFacts DEF Cursors
    <3>5. writer[d].cursor.next <= writer'[d].cursor.next
      OBVIOUS
    <3> QED BY <3>2, <3>3, <3>4, <3>5
  <2>4. Backed(journal)'
    BY <2>1, <2>3 DEF Backed
  <2>5. job'.kind = "materialize"
    BY <1>1
  <2> QED BY <1>0, <2>1, <2>4, <2>5 DEF Journalled
<1>3. Ordered'
  <2>1. provenance'["handoff"] = None
    BY Unpacked
  <2> QED BY <1>0, <2>1 DEF Ordered, Certified, PackingPlaces, FinalPlaces
<1>4. Manifested'
  BY <1>0, Unpacked DEF Manifested, PackingPlaces
<1>5. Staging'
  BY DEF IInv, Staging, Maker
<1> QED BY <1>2, <1>3, <1>4, <1>5 DEF IInv, PackTypeOK

\* A step that does not end a run as unrecoverable.
Fine == outcome' = outcome \/ outcome' # "unrecoverable"

\* The recipe is a choice made once.
LEMMA RecipeStays ==
    ASSUME recipe' = recipe
    PROVE  RecipeJobs' = RecipeJobs /\ Maker' = Maker
BY DEF RecipeJobs, Maker, PackingJob, HeldoutJob, FinalJob

\* A run is launched.
LEMMA LaunchKeeps ==
    ASSUME IInv, NEW j, j \in RecipeJobs, Launch(j), recipe' = recipe
    PROVE  IInv' /\ Fine
<1>0. /\ pc' = "prepare" /\ Here' = "prepare" /\ ~Writing("journal")' /\ ~Writing("manifest")'
      /\ ~Writing("sidecar")' /\ pc = "down" /\ job' = j /\ Untouched
      /\ UNCHANGED <<left, todo, fed, stream, cursor, shard>>
  BY DEF Launch, Here, Writing, Untouched, memory, directory, indexes, publication
<1>1. RunTypeOK'
  <2> QED BY <1>0, RecipeStays DEF IInv, PackTypeOK, RunTypeOK, Places
<1>2. MemoryTypeOK'
  BY <1>0 DEF IInv, PackTypeOK, MemoryTypeOK
<1>3. Journalled'
  <2>1. journal' # None => Backed(journal)'
    BY <1>0, SameDirectory DEF Untouched
  <2>2. journal' = None => Complete' \/ Blank'
    BY <1>0, SameDirectory DEF IInv, Journalled, Untouched
  <2> QED BY <1>0, <2>1, <2>2 DEF Journalled, OrderPlaces
<1>4. Held'
  BY <1>0 DEF Held, PackingPlaces, OrderPlaces
<1>5. Ordered'
  BY <1>0, SameDirectory DEF Ordered, FinalPlaces
<1>6. Manifested'
  <2>1. (manifest # None => AllPacked) /\ (sidecar # None => sidecar = manifest /\ Published(manifest))
    BY DEF IInv, Manifested
  <2>2. manifest' = manifest /\ sidecar' = sidecar
    BY <1>0 DEF Untouched
  <2> QED BY <1>0, <2>1, <2>2, SameDirectory DEF Manifested
<1>7. Fine
  <2>1. outcome' = None
    BY DEF Launch
  <2> QED BY <2>1, NoneAssumption DEF Outcomes, Fine
<1> QED BY <1>0, <1>1, <1>2, <1>3, <1>4, <1>5, <1>6, <1>7, SameDirectory DEF IInv, PackTypeOK

\* The next archive begins.
LEMMA BeginArchiveKeeps ==
    ASSUME IInv, BeginArchive, recipe' = recipe
    PROVE  IInv' /\ Fine
<1>0. /\ pc = "loop" /\ Here = "loop" /\ Lowest < Len(Kept) /\ Untouched
      /\ PackTypeOK /\ Durable /\ Held
  BY DEF BeginArchive, Here, directory, indexes, publication, Untouched, IInv
<1>1. \A d \in Dests : /\ cursor[d] = writer[d].cursor /\ stream[d] = writer[d].docs
                       /\ writer[d].docs = Prefix(d, writer[d].cursor.documents)
                       /\ writer[d].cursor.documents = UpTo(d, writer[d].cursor.next)
  <2>1. job.kind = "materialize"
    BY <1>0 DEF Held, PackingPlaces
  <2>2. \A d \in Dests : cursor[d] = writer[d].cursor /\ stream[d] = writer[d].docs
    BY <1>0, <2>1 DEF Held, PackingPlaces, Rested
  <2>3. \A d \in Dests : CursorExact(d, writer[d].cursor) /\ writer[d].docs = Prefix(d, writer[d].cursor.documents)
    BY <1>0 DEF Durable
  <2> QED BY <2>2, <2>3 DEF CursorExact
<1>2. cursor \in [Dests -> Cursors]
  BY <1>0 DEF PackTypeOK, MemoryTypeOK
<1>3. Spread(cursor)
  <2>1. ASSUME NEW d \in Dests, NEW e \in Dests PROVE cursor[d].next - cursor[e].next <= 1
    <3>1. writer[d].cursor.next <= writer[e].cursor.next + 1
      BY <1>0 DEF Durable
    <3>2. cursor[d].next \in Nat /\ cursor[e].next \in Nat
      BY <1>2, KeptFacts DEF Cursors
    <3> QED BY <1>1, <3>1, <3>2
  <2> QED BY <2>1 DEF Spread
<1>4. /\ pc' = "feed" /\ Here' = "feed" /\ job' = job /\ outcome' = outcome /\ fed' = 0
      /\ shard' = [d \in Dests |-> <<>>]
      /\ UNCHANGED <<left, todo, stream, cursor>>
  BY <1>3 DEF BeginArchive, Goto, Here
<1>5. RunTypeOK' /\ MemoryTypeOK'
  <2>2. <<>> \in Shards
    BY DEF Shards
  <2>3. RunTypeOK'
    BY <1>0, <1>4, RecipeStays DEF PackTypeOK, RunTypeOK, Places
  <2>4. MemoryTypeOK'
    BY <1>0, <1>4, <2>2 DEF PackTypeOK, MemoryTypeOK
  <2> QED BY <2>3, <2>4
<1>6. Lowest' = Lowest /\ Archive' = Archive /\ Eligible' = Eligible
  BY <1>4 DEF Lowest, Archive, Eligible
<1>7. Archive \in Archives /\ Archive - 1 = Lowest /\ Len(Kept[Archive]) \in Nat
  BY <1>0, <1>2, LowestFacts, KeptFacts, ArchiveFacts DEF Archive
<1>8. Held'
  <2>1. job'.kind = "materialize"
    BY <1>0, <1>4 DEF Held, PackingPlaces
  <2>2. \A d \in Dests : cursor'[d] = writer'[d].cursor
    BY <1>0, <1>1, <1>4 DEF Untouched
  <2>3. ASSUME NEW d \in Dests
        PROVE  IF d \in Eligible
               THEN /\ stream'[d] = Prefix(d, Place(d, <<Archive, fed' + 1>>))
                    /\ shard'[d] = RowsFrom(d, UpTo(d, Archive - 1), Place(d, <<Archive, fed' + 1>>))
               ELSE stream'[d] = writer'[d].docs
    <3>1. Place(d, <<Archive, fed' + 1>>) = UpTo(d, Lowest)
      BY <1>4 DEF UpTo, Archive
    <3>2. CASE d \in Eligible
      <4>1. cursor[d].next = Lowest
        BY <3>2 DEF Eligible
      <4>2. stream'[d] = Prefix(d, UpTo(d, Lowest))
        BY <1>1, <1>4, <4>1
      <4>3. RowsFrom(d, UpTo(d, Lowest), UpTo(d, Lowest)) = <<>>
        <5>1. UpTo(d, Lowest) \in Nat
          BY PlaceEnds
        <5> QED BY <5>1 DEF RowsFrom
      <4> QED BY <3>1, <3>2, <4>2, <4>3, <1>4, <1>7
    <3>3. CASE d \notin Eligible
      BY <1>0, <1>1, <1>4, <3>3 DEF Untouched
    <3> QED BY <3>2, <3>3
  <2>4. Lowest' < Len(Kept) /\ fed' <= Len(Kept[Archive'])
    BY <1>0, <1>4, <1>6, <1>7
  <2> QED BY <1>4, <1>6, <2>1, <2>2, <2>3, <2>4 DEF Held, PackingPlaces, OrderPlaces, Rested
<1> QED BY <1>0, <1>4, <1>5, <1>8, PackingMove DEF PackingPlaces, Fine

\* A document of the archive is read.
LEMMA FeedDocumentKeeps ==
    ASSUME IInv, FeedDocument, recipe' = recipe
    PROVE  IInv' /\ Fine
<1> DEFINE n == fed + 1
           d == Kept[Archive][n]
<1>0. /\ pc = "feed" /\ Here = "feed" /\ pc' = "feed" /\ Here' = "feed" /\ Untouched
      /\ PackTypeOK /\ Durable /\ Held /\ fed' = n /\ fed < Len(Kept[Archive])
      /\ UNCHANGED <<job, outcome, left, todo, cursor>>
  BY DEF FeedDocument, Here, run, publication, Untouched, IInv
<1>1. cursor \in [Dests -> Cursors] /\ fed \in Nat
  BY <1>0 DEF PackTypeOK, MemoryTypeOK, RunTypeOK
<1>2. Archive \in Archives /\ Archive - 1 = Lowest /\ Len(Kept[Archive]) \in Nat
  BY <1>0, <1>1, LowestFacts, KeptFacts, ArchiveFacts DEF Archive, Held
<1>3. n \in 1..Len(Kept[Archive]) /\ d \in Dests
  <2>1. n \in 1..Len(Kept[Archive])
    BY <1>0, <1>1, <1>2
  <2>2. Kept[Archive] \in Seq(Dests)
    BY <1>2, ArchiveFacts
  <2> QED BY <2>1, <2>2, ElementOfSeq
<1>4. Lowest' = Lowest /\ Archive' = Archive /\ Eligible' = Eligible
  BY <1>0 DEF Lowest, Archive, Eligible
<1> DEFINE place(e) == Place(e, <<Archive, n>>)
           from(e) == UpTo(e, Archive - 1)
<1>5. \A e \in Dests : IF e \in Eligible
         THEN stream[e] = Prefix(e, place(e)) /\ shard[e] = RowsFrom(e, from(e), place(e))
         ELSE Rested(e)
  BY <1>0 DEF Held
<1>6. ASSUME d \in Eligible
      PROVE  /\ Append(stream[d], <<Archive, n>>) = Prefix(d, place(d) + 1)
             /\ Append(shard[d], <<<<Archive, n>>, Position(d)>>) = RowsFrom(d, from(d), place(d) + 1)
             /\ Place(d, <<Archive, n + 1>>) = place(d) + 1 /\ Position(d) \in Nat
  <2>1. /\ Place(d, <<Archive, n + 1>>) = place(d) + 1 /\ Reference(d)[place(d) + 1] = <<Archive, n>>
        /\ place(d) \in Nat /\ from(d) <= place(d) /\ from(d) \in Nat
    <3> HIDE DEF n
    <3>1. d \in Dests /\ d = Kept[Archive][n]
      BY <1>3
    <3> HIDE DEF d
    <3> QED BY <1>2, <1>3, <3>1, NextDocument
  <2>2. cursor[d].documents = from(d)
    <3>1. cursor[d] = writer[d].cursor
      <4>1. job.kind = "materialize"
        BY <1>0 DEF Held, PackingPlaces
      <4> QED BY <1>0, <1>3, <4>1 DEF Held, PackingPlaces
    <3>2. CursorExact(d, writer[d].cursor)
      BY <1>0, <1>3 DEF Durable
    <3>3. cursor[d].next = Lowest
      BY <1>6 DEF Eligible
    <3> QED BY <3>1, <3>2, <3>3, <1>2 DEF CursorExact
  <2>3. stream[d] = Prefix(d, place(d)) /\ shard[d] = RowsFrom(d, from(d), place(d))
    BY <1>3, <1>5, <1>6
  <2>4. Position(d) = from(d) + Len(RowsFrom(d, from(d), place(d)))
    BY <2>2, <2>3 DEF Position
  <2>5. /\ Append(Prefix(d, place(d)), <<Archive, n>>) = Prefix(d, place(d) + 1)
        /\ Append(RowsFrom(d, from(d), place(d)), <<<<Archive, n>>, from(d) + Len(RowsFrom(d, from(d), place(d)))>>)
             = RowsFrom(d, from(d), place(d) + 1)
    <3> DEFINE x == <<Archive, n>>
               m == place(d)
               q == from(d)
    <3>1. Reference(d)[m + 1] = x /\ m \in Nat /\ q \in Nat /\ q <= m /\ d \in Dests
      BY <2>1, <1>3
    <3> HIDE DEF x, m, q, d
    <3>2. /\ Append(Prefix(d, m), x) = Prefix(d, m + 1)
          /\ Append(RowsFrom(d, q, m), <<x, q + Len(RowsFrom(d, q, m))>>) = RowsFrom(d, q, m + 1)
      BY <3>1, PrefixGrows
    <3> QED BY <3>2 DEF x, m, q
  <2>6. Position(d) \in Nat
    <3>1. shard[d] \in Shards
      BY <1>0, <1>3 DEF PackTypeOK, MemoryTypeOK
    <3>2. Len(shard[d]) \in Nat
      BY <3>1 DEF Shards
    <3> QED BY <2>1, <2>2, <3>2 DEF Position
  <2> HIDE DEF n, d, place, from
  <2> QED BY <2>1, <2>3, <2>4, <2>5, <2>6
<1>7. ASSUME NEW e \in Dests, e # d PROVE Place(e, <<Archive, n + 1>>) = place(e)
  <2>1. Kept[Archive][n] # e /\ place(e) \in Nat
    BY <1>7, PlaceType
  <2> HIDE DEF n
  <2>2. Place(e, <<Archive, n + 1>>) = Place(e, <<Archive, n>>) + IF Kept[Archive][n] = e THEN 1 ELSE 0
    BY <1>2, <1>3, PlaceStep
  <2> QED BY <2>1, <2>2
<1>8. IF d \in Eligible
      THEN /\ stream' = [stream EXCEPT ![d] = Append(@, <<Archive, n>>)]
           /\ shard' = [shard EXCEPT ![d] = Append(@, <<<<Archive, n>>, Position(d)>>)]
      ELSE UNCHANGED <<stream, shard>>
  BY DEF FeedDocument
<1>9. stream \in [Dests -> Streams] /\ shard \in [Dests -> Shards]
  BY <1>0 DEF PackTypeOK, MemoryTypeOK
<1>10. RunTypeOK' /\ MemoryTypeOK'
  <2>1. RunTypeOK'
    BY <1>0, <1>1, RecipeStays DEF PackTypeOK, RunTypeOK, Places
  <2>2. <<Archive, n>> \in Archives \X Nat
    BY <1>1, <1>2
  <2> HIDE DEF n, d
  <2>3. ASSUME d \in Eligible
        PROVE  /\ Append(stream[d], <<Archive, n>>) \in Streams
               /\ Append(shard[d], <<<<Archive, n>>, Position(d)>>) \in Shards
    <3> DEFINE S == Archives \X Nat
               x == <<Archive, n>>
    <3>1. stream[d] \in Seq(S) /\ shard[d] \in Seq(S \X Nat) /\ x \in S /\ Position(d) \in Nat
      BY <1>3, <1>6, <1>9, <2>2, <2>3 DEF Streams, Shards
    <3> HIDE DEF S, x
    <3>2. Append(stream[d], x) \in Seq(S) /\ Append(shard[d], <<x, Position(d)>>) \in Seq(S \X Nat)
      BY <3>1, AppendProperties
    <3> QED BY <3>2 DEF S, x, Streams, Shards
  <2>4. stream' \in [Dests -> Streams] /\ shard' \in [Dests -> Shards]
    BY <1>3, <1>8, <1>9, <2>3
  <2> QED BY <1>0, <1>1, <2>1, <2>4 DEF MemoryTypeOK
<1>11. Held'
  <2>1. job'.kind = "materialize" /\ \A e \in Dests : cursor'[e] = writer'[e].cursor
    <3>1. job.kind = "materialize"
      BY <1>0 DEF Held, PackingPlaces
    <3>2. \A e \in Dests : cursor[e] = writer[e].cursor
      BY <1>0, <3>1 DEF Held, PackingPlaces
    <3> QED BY <1>0, <3>1, <3>2 DEF Untouched
  <2>2. Lowest' < Len(Kept) /\ fed' <= Len(Kept[Archive'])
    <3>1. Lowest < Len(Kept)
      BY <1>0 DEF Held
    <3> QED BY <1>0, <1>3, <1>4, <3>1
  <2>3. ASSUME NEW e \in Dests
        PROVE  IF e \in Eligible
               THEN /\ stream'[e] = Prefix(e, Place(e, <<Archive, n + 1>>))
                    /\ shard'[e] = RowsFrom(e, from(e), Place(e, <<Archive, n + 1>>))
               ELSE stream'[e] = writer'[e].docs
    <3>1. CASE e = d /\ e \in Eligible
      <4> HIDE DEF n, d, place, from
      <4> QED BY <1>6, <1>8, <1>9, <3>1
    <3>2. CASE e # d \/ e \notin Eligible
      <4>1. stream'[e] = stream[e] /\ shard'[e] = shard[e]
        <5> HIDE DEF n, d
        <5> QED BY <1>8, <1>9, <3>2
      <4>2. e \in Eligible => Place(e, <<Archive, n + 1>>) = place(e)
        BY <1>7, <3>2
      <4>3. e \notin Eligible => stream[e] = writer'[e].docs
        BY <1>0, <1>5 DEF Rested, Untouched
      <4>4. e \in Eligible => stream[e] = Prefix(e, place(e)) /\ shard[e] = RowsFrom(e, from(e), place(e))
        BY <1>5
      <4> HIDE DEF n, d, place, from
      <4> QED BY <4>1, <4>2, <4>3, <4>4
    <3> QED BY <3>1, <3>2
  <2>4. \A e \in Dests : IF e \in Eligible'
               THEN /\ stream'[e] = Prefix(e, Place(e, <<Archive', fed' + 1>>))
                    /\ shard'[e] = RowsFrom(e, UpTo(e, Archive' - 1), Place(e, <<Archive', fed' + 1>>))
               ELSE stream'[e] = writer'[e].docs
    <3> HIDE DEF n, d
    <3> QED BY <1>0, <1>4, <2>3
  <2> QED BY <1>0, <2>1, <2>2, <2>4 DEF Held, PackingPlaces, OrderPlaces, Rested
<1> QED BY <1>0, <1>10, <1>11, PackingMove DEF PackingPlaces, Fine

\* What a run holds while it packs.
LEMMA AtPacking ==
    ASSUME IInv, pc \in PackingPlaces
    PROVE  /\ Here = pc /\ job.kind = "materialize" /\ cursor \in [Dests -> Cursors]
           /\ \A d \in Dests :
                /\ cursor[d] = writer[d].cursor /\ CursorExact(d, cursor[d])
                /\ cursor[d].next \in 0..Len(Kept) /\ cursor[d].next \in Nat
                /\ cursor[d].documents = UpTo(d, cursor[d].next)
                /\ writer[d].docs = Prefix(d, cursor[d].documents)
           /\ \A d, e \in Dests : cursor[d].next <= cursor[e].next + 1
<1>1. Here = pc
  BY DEF Here, PackingPlaces
<1>2. job.kind = "materialize" /\ cursor \in [Dests -> Cursors]
  BY <1>1 DEF IInv, Held, PackTypeOK, MemoryTypeOK
<1>3. \A d \in Dests : cursor[d] = writer[d].cursor
  BY <1>1, <1>2 DEF IInv, Held
<1>4. \A d \in Dests : CursorExact(d, cursor[d]) /\ writer[d].docs = Prefix(d, cursor[d].documents)
  BY <1>3 DEF IInv, Durable
<1>5. \A d \in Dests : cursor[d].next \in 0..Len(Kept) /\ cursor[d].next \in Nat
                       /\ cursor[d].documents = UpTo(d, cursor[d].next)
  BY <1>4, IndexCounts, KeptFacts
<1>6. \A d, e \in Dests : cursor[d].next <= cursor[e].next + 1
  BY <1>3 DEF IInv, Durable
<1> QED BY <1>1, <1>2, <1>3, <1>4, <1>5, <1>6

\* The archive has been read.
LEMMA ArchiveReadKeeps ==
    ASSUME IInv, ArchiveRead, recipe' = recipe
    PROVE  IInv' /\ Fine
<1>0. /\ pc = "feed" /\ pc' = "index" /\ Here' = "index" /\ Untouched
      /\ PackTypeOK /\ Durable /\ Held /\ fed = Len(Kept[Archive]) /\ left' = Eligible
      /\ UNCHANGED <<job, outcome, todo, fed, stream, shard, cursor>>
  BY DEF ArchiveRead, Here, Goto, held, directory, indexes, publication, Untouched, IInv
<1>1. /\ Here = "feed" /\ job.kind = "materialize" /\ cursor \in [Dests -> Cursors]
      /\ \A e \in Dests : cursor[e] = writer[e].cursor
  BY <1>0, AtPacking DEF PackingPlaces
<1>2. Archive \in Archives /\ Archive - 1 = Lowest /\ Archive = Lowest + 1 /\ Lowest < Len(Kept)
  BY <1>0, <1>1, LowestFacts, KeptFacts DEF Archive, Held
<1>3. \A d \in Dests : d \in Eligible => Ready(d)
  <2> TAKE d \in Dests
  <2> HAVE d \in Eligible
  <2>1. cursor[d].next = Lowest /\ \A e \in Dests : cursor[d].next <= cursor[e].next
    BY <1>1, LowestFacts DEF Eligible
  <2>2. Place(d, <<Archive, fed + 1>>) = UpTo(d, Archive)
    BY <1>0, <1>2, PlaceTurn
  <2>3. stream[d] = Prefix(d, UpTo(d, Archive)) /\ shard[d] = RowsFrom(d, UpTo(d, Archive - 1), UpTo(d, Archive))
    BY <1>0, <1>1, <2>2 DEF Held
  <2> QED BY <1>2, <2>1, <2>3 DEF Ready, ShardRows
<1>4. \A d \in Dests : d \notin Eligible => Rested(d)
  BY <1>0, <1>1 DEF Held
<1>5. RunTypeOK' /\ MemoryTypeOK'
  <2>1. Eligible \subseteq Dests
    BY DEF Eligible
  <2>2. RunTypeOK'
    BY <1>0, <2>1, RecipeStays DEF PackTypeOK, RunTypeOK, Places
  <2> QED BY <1>0, <2>2 DEF PackTypeOK, MemoryTypeOK
<1>6. Eligible' = Eligible
  BY <1>0 DEF Lowest, Eligible
<1>7. Held'
  <2>1. \A d \in Dests : (Ready(d) => Ready(d)') /\ (Rested(d) => Rested(d)')
    BY <1>0 DEF Ready, Rested, Untouched
  <2>2. \A d \in Dests : cursor'[d] = writer'[d].cursor
    BY <1>0, <1>1 DEF Untouched
  <2>3. job'.kind = "materialize"
    BY <1>0, <1>1
  <2> QED BY <1>0, <1>3, <1>4, <1>6, <2>1, <2>2, <2>3 DEF Held, PackingPlaces, OrderPlaces
<1> QED BY <1>0, <1>5, <1>7, PackingMove DEF PackingPlaces, Fine

\* An index shard is published, or found and found to be the same.
LEMMA PublishIndexShardKeeps ==
    ASSUME IInv, PublishIndexShard, recipe' = recipe
    PROVE  IInv' /\ Fine
<1> DEFINE d == NextDestination
           key == <<d, Archive>>
<1>0. /\ pc = "index" /\ left # {} /\ PackTypeOK /\ Durable /\ Held /\ Filed
      /\ UNCHANGED <<recipe, writer, indexManifest, journal, orders, staging, provenance,
                     manifest, sidecar>>
  BY DEF PublishIndexShard, publication, IInv
<1>1. /\ Here = "index" /\ job.kind = "materialize" /\ cursor \in [Dests -> Cursors]
      /\ \A e \in Dests : cursor[e] = writer[e].cursor
  BY <1>0, AtPacking DEF PackingPlaces
<1>2. /\ left \subseteq Eligible
      /\ \A e \in Dests : IF e \in Eligible THEN Ready(e) ELSE Rested(e)
      /\ \A e \in Eligible \ left : shard[e] # <<>> => <<e, Archive>> \in DOMAIN indexFiles
  BY <1>0, <1>1 DEF Held
<1>3. d \in left /\ d \in Dests /\ d \in Eligible
  <2>1. left \subseteq Dests
    BY <1>2 DEF Eligible
  <2> QED BY <1>0, <1>2, <2>1, NextFacts
<1>4. Ready(d) /\ cursor[d].next = Lowest
  BY <1>2, <1>3 DEF Eligible
<1>5. Archive \in Archives /\ Archive = Lowest + 1
  BY <1>1, <1>4, LowestFacts, KeptFacts DEF Archive, Ready
<1>6. shard[d] = ShardRows(d, Archive)
  BY <1>4, <1>5 DEF Ready
<1>7. key \in DOMAIN indexFiles => indexFiles[key] = shard[d]
  <2> HIDE DEF d
  <2>1. ASSUME key \in DOMAIN indexFiles PROVE indexFiles[key] = ShardRows(key[1], key[2])
    BY <1>0, <2>1 DEF Filed
  <2> QED BY <2>1, <1>6
<1>8. /\ left' = left \ {d} /\ UNCHANGED <<pc, job, outcome, todo, fed, stream, cursor, shard>>
      /\ indexFiles' = IF shard[d] = <<>> THEN indexFiles
                       ELSE [k \in DOMAIN indexFiles \cup {key} |->
                               IF k = key THEN shard[d] ELSE indexFiles[k]]
  BY <1>7 DEF PublishIndexShard, Visited, run, held
<1>9. pc' = "index" /\ Here' = "index"
  BY <1>0, <1>8 DEF Here
<1> HIDE DEF d
<1>10. RunTypeOK' /\ MemoryTypeOK' /\ DirectoryTypeOK'
  <2>1. RunTypeOK'
    BY <1>0, <1>8, <1>9, RecipeStays DEF PackTypeOK, RunTypeOK, Places
  <2>2. DirectoryTypeOK'
    BY <1>0 DEF PackTypeOK, DirectoryTypeOK
  <2> QED BY <1>0, <1>8, <2>1, <2>2 DEF PackTypeOK, MemoryTypeOK
<1>11. /\ DOMAIN indexFiles \subseteq DOMAIN indexFiles'
       /\ shard[d] # <<>> => key \in DOMAIN indexFiles'
  BY <1>8
<1>12. Filed'
  <2>1. ASSUME NEW f \in DOMAIN indexFiles'
        PROVE  f \in Dests \X Archives /\ indexFiles'[f] = ShardRows(f[1], f[2])
    <3>1. CASE f \in DOMAIN indexFiles /\ indexFiles'[f] = indexFiles[f]
      BY <1>0, <3>1 DEF Filed
    <3>2. CASE f = key /\ indexFiles'[f] = shard[d]
      BY <1>3, <1>5, <1>6, <3>2
    <3>3. \/ f \in DOMAIN indexFiles /\ indexFiles'[f] = indexFiles[f]
          \/ f = key /\ indexFiles'[f] = shard[d]
      BY <1>8
    <3> QED BY <3>1, <3>2, <3>3
  <2>2. \A e \in Dests : \A a \in 1..writer'[e].cursor.next :
          ShardRows(e, a) # <<>> => <<e, a>> \in DOMAIN indexFiles'
    BY <1>0, <1>11 DEF Filed
  <2> QED BY <2>1, <2>2 DEF Filed
<1>13. Durable'
  BY <1>0 DEF Durable
<1>14. Eligible' = Eligible /\ Archive' = Archive
  BY <1>8 DEF Lowest, Archive, Eligible
<1>15. Held'
  <2>1. \A e \in Dests : (Ready(e) => Ready(e)') /\ (Rested(e) => Rested(e)')
    BY <1>0, <1>8 DEF Ready, Rested
  <2>2. \A e \in Dests : cursor'[e] = writer'[e].cursor
    BY <1>0, <1>1, <1>8
  <2>3. job'.kind = "materialize"
    BY <1>1, <1>8
  <2>4. ASSUME NEW e \in Eligible \ left', shard[e] # <<>> PROVE <<e, Archive>> \in DOMAIN indexFiles'
    BY <1>2, <1>8, <1>11, <2>4
  <2>5. left' \subseteq Eligible
    BY <1>2, <1>8
  <2>6. \A e \in Dests : IF e \in Eligible' THEN Ready(e)' ELSE Rested(e)'
    BY <1>2, <1>14, <2>1
  <2>7. shard' = shard
    BY <1>8
  <2> QED BY <1>9, <1>14, <2>2, <2>3, <2>4, <2>5, <2>6, <2>7 DEF Held, PackingPlaces, OrderPlaces
<1>16. ~AllPacked
  BY <1>1, <1>3, <1>4, Lagging DEF Ready
<1>17. \A e \in Dests : writer[e].cursor.next <= writer'[e].cursor.next
  BY <1>0, <1>1, LowestFacts, KeptFacts
<1> QED BY <1>0, <1>8, <1>9, <1>10, <1>12, <1>13, <1>15, <1>16, <1>17, PackingWrites DEF PackingPlaces, Fine

\* The index shards of the archive are all there.
LEMMA IndexPublishedKeeps ==
    ASSUME IInv, IndexPublished, recipe' = recipe
    PROVE  IInv' /\ Fine
<1>0. /\ pc = "index" /\ pc' = "commit" /\ Here' = "commit" /\ Untouched
      /\ PackTypeOK /\ Durable /\ Held /\ left = {} /\ left' = Eligible
      /\ UNCHANGED <<job, outcome, todo, fed, stream, shard, cursor>>
  BY DEF IndexPublished, Here, Goto, held, directory, indexes, publication, Untouched, IInv
<1>1. /\ Here = "index" /\ job.kind = "materialize" /\ cursor \in [Dests -> Cursors]
      /\ \A e \in Dests : cursor[e] = writer[e].cursor /\ cursor[e].next \in Nat
      /\ \A d, e \in Dests : cursor[d].next <= cursor[e].next + 1
  BY <1>0, AtPacking DEF PackingPlaces
<1>2. /\ \A e \in Dests : IF e \in Eligible THEN Ready(e) ELSE Rested(e)
      /\ \A e \in Eligible : shard[e] # <<>> => <<e, Archive>> \in DOMAIN indexFiles
  BY <1>0, <1>1 DEF Held
<1>3. RunTypeOK' /\ MemoryTypeOK'
  <2>1. Eligible \subseteq Dests
    BY DEF Eligible
  <2>2. RunTypeOK'
    BY <1>0, <2>1, RecipeStays DEF PackTypeOK, RunTypeOK, Places
  <2> QED BY <1>0, <2>2 DEF PackTypeOK, MemoryTypeOK
<1>4. Held'
  <2>1. \A d \in Dests : (Ready(d) => Ready(d)') /\ (Rested(d) => Rested(d)')
    BY <1>0 DEF Ready, Rested, Untouched
  <2>2. \A d \in Dests : cursor'[d] = writer'[d].cursor
    BY <1>0, <1>1 DEF Untouched
  <2>3. job'.kind = "materialize"
    BY <1>0, <1>1
  <2>4. \A d \in left' : Ready(d)' /\ (shard'[d] # <<>> => <<d, cursor'[d].next + 1>> \in DOMAIN indexFiles')
    <3> TAKE d \in left'
    <3>1. d \in Eligible /\ d \in Dests /\ Archive = cursor[d].next + 1
      BY <1>0 DEF Eligible, Archive
    <3>2. indexFiles' = indexFiles
      BY <1>0 DEF Untouched
    <3> QED BY <1>0, <1>2, <2>1, <3>1, <3>2
  <2>5. ASSUME NEW d \in Dests \ left'
        PROVE  Rested(d)' /\ \A e \in left' : cursor'[d].next = cursor'[e].next + 1
    <3>1. d \in Dests /\ d \notin Eligible /\ cursor[d].next # Lowest /\ Lowest <= cursor[d].next
      BY <1>0, <1>1, LowestFacts DEF Eligible
    <3>2. ASSUME NEW e \in Eligible PROVE cursor[d].next = cursor[e].next + 1
      <4>1. e \in Dests /\ cursor[e].next = Lowest
        BY DEF Eligible
      <4> QED BY <1>1, <3>1, <4>1
    <3> QED BY <1>0, <1>2, <2>1, <3>1, <3>2
  <2> QED BY <1>0, <2>2, <2>3, <2>4, <2>5 DEF Held, PackingPlaces, OrderPlaces
<1> QED BY <1>0, <1>3, <1>4, PackingMove DEF PackingPlaces, Fine

\* A writer commits the documents of the archive.
LEMMA CommitWriterKeeps ==
    ASSUME IInv, CommitWriter, recipe' = recipe
    PROVE  IInv' /\ Fine
<1> DEFINE d == NextDestination
           c == cursor[d]
           s == shard[d]
           n == Extended(c, s)
<1>0. /\ pc = "commit" /\ Here = "commit" /\ pc' = "commit" /\ Here' = "commit" /\ left # {}
      /\ PackTypeOK /\ Durable /\ Held /\ Filed /\ left' = left \ {d}
      /\ UNCHANGED <<recipe, indexFiles, indexManifest, journal, orders, staging, provenance,
                     manifest, sidecar, job, outcome, todo, fed, stream>>
  BY DEF CommitWriter, Visited, Here, run, indexes, publication, IInv
<1>1. /\ job.kind = "materialize" /\ cursor \in [Dests -> Cursors]
      /\ \A e \in Dests : /\ cursor[e] = writer[e].cursor /\ cursor[e].next \in Nat
                          /\ CursorExact(e, cursor[e])
      /\ \A x, e \in Dests : cursor[x].next <= cursor[e].next + 1
  BY <1>0, AtPacking DEF PackingPlaces
<1>2. /\ \A x \in left : Ready(x) /\ (shard[x] # <<>> => <<x, cursor[x].next + 1>> \in DOMAIN indexFiles)
      /\ \A x \in Dests \ left : Rested(x) /\ \A e \in left : cursor[x].next = cursor[e].next + 1
  BY <1>0 DEF Held
<1>3. d \in left /\ d \in Dests
  <2>1. left \subseteq Dests
    BY <1>0 DEF PackTypeOK, RunTypeOK
  <2> QED BY <1>0, <2>1, NextFacts
<1>4. /\ c.next < Len(Kept) /\ stream[d] = Prefix(d, UpTo(d, c.next + 1))
      /\ s = ShardRows(d, c.next + 1) /\ \A e \in Dests : c.next <= cursor[e].next
      /\ (s # <<>> => <<d, c.next + 1>> \in DOMAIN indexFiles)
  BY <1>2, <1>3 DEF Ready
<1>5. s \in Shards /\ stream[d] \in Streams
  BY <1>0, <1>3 DEF PackTypeOK, MemoryTypeOK
<1>6. Advanced(d) = n
  <2>1. Lowest = c.next
    BY <1>1, <1>3, <1>4, LowestIs
  <2> QED BY <2>1 DEF Advanced, Extended, Archive
<1>7. CursorExact(d, n) /\ n \in Cursors /\ n.next = c.next + 1
  <2>1. CursorExact(d, c)
    BY <1>1, <1>3
  <2> HIDE DEF d, c, s
  <2>2. CursorExact(d, Extended(c, s))
    BY <1>4, <1>5, <2>1, CursorAdvances
  <2> QED BY <2>2 DEF CursorExact, Extended
<1>8. /\ writer' = [writer EXCEPT ![d].docs = stream[d], ![d].cursor = n]
      /\ cursor' = [cursor EXCEPT ![d] = n]
      /\ shard' = [shard EXCEPT ![d] = <<>>]
  BY <1>6 DEF CommitWriter
<1>9. writer \in [Dests -> [docs : Streams, cursor : Cursors, published : BOOLEAN]]
  BY <1>0 DEF PackTypeOK, DirectoryTypeOK
<1> HIDE DEF d, c, s, n
<1>10. /\ writer'[d].docs = stream[d] /\ writer'[d].cursor = n
       /\ writer'[d].published = writer[d].published /\ cursor'[d] = n
       /\ \A e \in Dests : e # d => writer'[e] = writer[e] /\ cursor'[e] = cursor[e] /\ shard'[e] = shard[e]
  <2>1. shard \in [Dests -> Shards]
    BY <1>0 DEF PackTypeOK, MemoryTypeOK
  <2> QED BY <1>1, <1>3, <1>8, <1>9, <2>1
<1>11. RunTypeOK' /\ MemoryTypeOK' /\ DirectoryTypeOK'
  <2>1. RunTypeOK'
    BY <1>0, RecipeStays DEF PackTypeOK, RunTypeOK, Places
  <2>2. cursor' \in [Dests -> Cursors]
    BY <1>1, <1>7, <1>8
  <2>3. shard' \in [Dests -> Shards]
    <3>1. shard \in [Dests -> Shards] /\ <<>> \in Shards
      BY <1>0 DEF PackTypeOK, MemoryTypeOK, Shards
    <3> QED BY <1>8, <3>1
  <2>4. MemoryTypeOK'
    BY <1>0, <2>2, <2>3 DEF PackTypeOK, MemoryTypeOK
  <2>5. writer' \in [Dests -> [docs : Streams, cursor : Cursors, published : BOOLEAN]]
    BY <1>5, <1>7, <1>8, <1>9
  <2>6. DirectoryTypeOK'
    BY <1>0, <2>5 DEF PackTypeOK, DirectoryTypeOK
  <2> QED BY <2>1, <2>4, <2>6
<1>12. c.next = writer[d].cursor.next /\ c.next \in Nat /\ c = cursor[d]
  BY <1>1, <1>3 DEF c
<1>13. ~AllPacked /\ ~writer[d].published /\ indexManifest[d] = None
  BY <1>3, <1>4, <1>12, KeptFacts, Lagging
<1>14. Durable'
  <2>1. ASSUME NEW e \in Dests
        PROVE  /\ CursorExact(e, writer'[e].cursor)
               /\ writer'[e].docs = Prefix(e, writer'[e].cursor.documents)
               /\ writer'[e].published => writer'[e].cursor.next = Len(Kept)
               /\ indexManifest'[e] # None => /\ writer'[e].published
                     /\ indexManifest'[e] = [documents |-> writer'[e].cursor.documents,
                                             shards |-> writer'[e].cursor.index]
    <3>1. CASE e = d
      <4>1. n.documents = UpTo(d, c.next + 1)
        BY <1>7 DEF CursorExact
      <4> QED BY <1>0, <1>4, <1>7, <1>10, <1>13, <3>1, <4>1
    <3>2. CASE e # d
      BY <1>0, <1>10, <3>2 DEF Durable
    <3> QED BY <3>1, <3>2
  <2>2. ASSUME NEW x \in Dests, NEW e \in Dests PROVE writer'[x].cursor.next <= writer'[e].cursor.next + 1
    <3>1. \A y \in Dests : writer'[y].cursor.next = IF y = d THEN c.next + 1 ELSE cursor[y].next
      BY <1>1, <1>7, <1>10
    <3>2. c.next <= cursor[e].next /\ cursor[x].next <= c.next + 1 /\ cursor[x].next <= cursor[e].next + 1
      BY <1>1, <1>3, <1>4, <1>12
    <3>3. cursor[e].next \in Nat /\ cursor[x].next \in Nat
      BY <1>1
    <3> QED BY <1>12, <3>1, <3>2, <3>3
  <2> QED BY <2>1, <2>2 DEF Durable
<1>15. Filed'
  <2>1. \A f \in DOMAIN indexFiles' : f \in Dests \X Archives /\ indexFiles'[f] = ShardRows(f[1], f[2])
    BY <1>0 DEF Filed
  <2>2. ASSUME NEW e \in Dests, NEW a \in 1..writer'[e].cursor.next, ShardRows(e, a) # <<>>
        PROVE  <<e, a>> \in DOMAIN indexFiles'
    <3>1. CASE a \in 1..writer[e].cursor.next
      BY <1>0, <2>2, <3>1 DEF Filed
    <3>2. CASE e = d /\ a = c.next + 1
      BY <1>0, <1>4, <2>2, <3>2
    <3>3. a \in 1..writer[e].cursor.next \/ (e = d /\ a = c.next + 1)
      <4>1. CASE e = d
        <5>1. a \in 1..c.next + 1
          BY <1>7, <1>10, <4>1
        <5> QED BY <1>12, <4>1, <5>1
      <4>2. CASE e # d
        BY <1>10, <4>2
      <4> QED BY <4>1, <4>2
    <3> QED BY <3>1, <3>2, <3>3
  <2> QED BY <2>1, <2>2 DEF Filed
<1>16. Held'
  <2>1. job'.kind = "materialize" /\ \A e \in Dests : cursor'[e] = writer'[e].cursor
    BY <1>0, <1>1, <1>10
  <2>2. ASSUME NEW e \in left'
        PROVE  Ready(e)' /\ (shard'[e] # <<>> => <<e, cursor'[e].next + 1>> \in DOMAIN indexFiles')
    <3>1. e \in left /\ e # d /\ e \in Dests
      BY <1>0, <2>2 DEF PackTypeOK, RunTypeOK
    <3>2. Ready(e) /\ (shard[e] # <<>> => <<e, cursor[e].next + 1>> \in DOMAIN indexFiles)
      BY <1>2, <3>1
    <3>3. cursor'[e] = cursor[e] /\ shard'[e] = shard[e] /\ stream'[e] = stream[e]
      BY <1>0, <1>10, <3>1
    <3>4. ASSUME NEW x \in Dests PROVE cursor'[e].next <= cursor'[x].next
      <4>1. cursor[e].next <= cursor[x].next
        BY <3>2 DEF Ready
      <4>2. CASE x = d
        <5>1. cursor[e].next <= c.next
          BY <4>1, <4>2, <1>12
        <5> QED BY <1>1, <1>7, <1>10, <1>12, <3>1, <3>3, <4>2, <5>1
      <4>3. CASE x # d
        BY <1>10, <3>3, <4>1, <4>3
      <4> QED BY <4>2, <4>3
    <3> QED BY <1>0, <3>2, <3>3, <3>4 DEF Ready
  <2>3. ASSUME NEW x \in Dests \ left'
        PROVE  Rested(x)' /\ \A e \in left' : cursor'[x].next = cursor'[e].next + 1
    <3>1. ASSUME NEW e \in left' PROVE e \in left /\ e # d /\ e \in Dests /\ cursor'[e] = cursor[e]
      BY <1>0, <1>10 DEF PackTypeOK, RunTypeOK
    <3>2. CASE x = d
      <4>1. Rested(x)'
        BY <1>0, <1>10, <3>2 DEF Rested
      <4>2. ASSUME NEW e \in left' PROVE cursor'[x].next = cursor'[e].next + 1
        <5>1. cursor[e].next <= cursor[d].next
          BY <1>2, <1>3, <3>1 DEF Ready
        <5>2. c.next <= cursor[e].next /\ cursor[e].next \in Nat
          BY <1>1, <1>4, <3>1
        <5>3. cursor[e].next = c.next
          BY <1>12, <5>1, <5>2
        <5> QED BY <1>7, <1>10, <3>1, <3>2, <5>3
      <4> QED BY <4>1, <4>2
    <3>3. CASE x # d
      <4>1. x \in Dests \ left
        BY <1>0, <3>3
      <4>2. Rested(x) /\ \A e \in left : cursor[x].next = cursor[e].next + 1
        BY <1>2, <4>1
      <4>3. writer'[x] = writer[x] /\ cursor'[x] = cursor[x] /\ stream' = stream
        BY <1>0, <1>10, <3>3, <4>1
      <4> QED BY <3>1, <4>2, <4>3 DEF Rested
    <3> QED BY <3>2, <3>3
  <2> QED BY <1>0, <2>1, <2>2, <2>3 DEF Held, PackingPlaces, OrderPlaces
<1>17. \A e \in Dests : writer[e].cursor.next <= writer'[e].cursor.next
  <2> TAKE e \in Dests
  <2>1. cursor[e].next \in Nat /\ cursor[e] = writer[e].cursor
    BY <1>1
  <2> QED BY <1>7, <1>10, <1>12, <2>1
<1> QED BY <1>0, <1>11, <1>13, <1>14, <1>15, <1>16, <1>17, PackingWrites DEF PackingPlaces, Fine

\* A run stops between two archives or is interrupted anywhere.
LEMMA StopKeeps ==
    ASSUME IInv, ControlledStop \/ Crash, recipe' = recipe
    PROVE  IInv' /\ Fine
<1>1. pc' = "down" /\ Forget /\ Untouched /\ outcome' # "unrecoverable"
  BY DEF ControlledStop, Crash, End, directory, indexes, publication, Untouched
<1> QED BY <1>1, EndKeeps DEF Fine

\* A run begins to replace the journal by one that the directory backs.
LEMMA JournalWrites ==
    ASSUME IInv, Untouched, job' = job, job.kind = "materialize", journal # None, sidecar = None,
           pc' = "replace", pending'.file = "journal", pending'.then \in {"open", "loop", "packed"},
           pending'.value \in Journals, Backed(pending.value)', RunTypeOK', MemoryTypeOK', Held'
    PROVE  IInv'
<1>0. /\ Here' = pending'.then /\ ~Writing("manifest")' /\ ~Writing("sidecar")'
  BY DEF Here, Writing
<1>1. Journalled'
  <2>1. journal' # None /\ Backed(journal)'
    BY SameDirectory DEF Untouched
  <2>2. Here' \notin OrderPlaces
    BY <1>0 DEF OrderPlaces
  <2> QED BY <1>0, <2>1, <2>2 DEF Journalled
<1>2. Ordered'
  BY <1>0, SameDirectory DEF Ordered, FinalPlaces
<1>3. Manifested'
  <2>1. (manifest' # None => AllPacked') /\ sidecar' = None
    BY SameDirectory DEF IInv, Manifested, Untouched
  <2> QED BY <1>0, <2>1 DEF Manifested
<1> QED BY <1>1, <1>2, <1>3, SameDirectory DEF IInv, PackTypeOK

\* The journal after an archive.
LEMMA ArchiveCommittedKeeps ==
    ASSUME IInv, ArchiveCommitted, recipe' = recipe
    PROVE  IInv' /\ Fine
<1> DEFINE v == JournalPayload("packing")
<1>0. /\ pc = "commit" /\ left = {} /\ pc' = "replace"
      /\ pending' = [file |-> "journal", value |-> v, then |-> "loop"] /\ Here' = "loop"
      /\ Untouched /\ PackTypeOK /\ Durable /\ Held
      /\ UNCHANGED <<job, outcome, left, todo, fed, stream, shard, cursor>>
  BY DEF ArchiveCommitted, WriteJournal, Write, Here, memory, directory, indexes, publication,
         Untouched, IInv
<1>1. /\ Here = "commit" /\ job.kind = "materialize" /\ cursor \in [Dests -> Cursors]
      /\ \A e \in Dests : cursor[e] = writer[e].cursor /\ CursorExact(e, cursor[e])
                          /\ cursor[e].next \in Nat
  BY <1>0, AtPacking DEF PackingPlaces
<1>2. \A d \in Dests : Rested(d)
  BY <1>0, <1>1 DEF Held
<1>3. journal # None /\ sidecar = None
  BY <1>0 DEF IInv, Journalled, Manifested, Writing
<1>4. v \in Journals
  BY <1>1 DEF JournalPayload, Journals, Phases
<1>5. Backed(pending.value)'
  <2>1. pending'.value = v
    BY <1>0
  <2>2. v.phase = "packing" /\ v.cursors = cursor
    BY DEF JournalPayload
  <2>3. ASSUME NEW d \in Dests
        PROVE  CursorExact(d, v.cursors[d]) /\ v.cursors[d].next <= writer'[d].cursor.next
    BY <1>0, <1>1, <2>2 DEF Untouched
  <2>4. v.cursors # <<>>
    BY <1>1, <2>2, DestinationFacts
  <2> HIDE DEF v
  <2> QED BY <2>1, <2>2, <2>3, <2>4 DEF Backed
<1>6. RunTypeOK' /\ MemoryTypeOK'
  <2>1. RunTypeOK'
    BY <1>0, RecipeStays DEF PackTypeOK, RunTypeOK, Places, Files
  <2> QED BY <1>0, <2>1 DEF PackTypeOK, MemoryTypeOK
<1>7. Held'
  <2>1. \A d \in Dests : Rested(d)' /\ cursor'[d] = writer'[d].cursor
    BY <1>0, <1>1, <1>2 DEF Rested, Untouched
  <2>2. job'.kind = "materialize"
    BY <1>0, <1>1
  <2> QED BY <1>0, <2>1, <2>2 DEF Held, PackingPlaces, OrderPlaces
<1>8. pending'.file = "journal" /\ pending'.then = "loop" /\ pending'.value \in Journals
  BY <1>0, <1>4
<1> HIDE DEF v
<1> QED BY <1>0, <1>1, <1>3, <1>5, <1>6, <1>7, <1>8, JournalWrites DEF Fine

\* A finished directory is only validated.
LEMMA ValidationBegins ==
    ASSUME IInv, Untouched, Complete, pc = "prepare", pc' = "validate",
           UNCHANGED <<job, outcome, left, todo, fed, stream, shard, cursor>>
    PROVE  IInv'
<1>0. /\ Here' = "validate" /\ ~Writing("journal")' /\ ~Writing("manifest")'
      /\ ~Writing("sidecar")' /\ PackTypeOK
  BY DEF Here, Writing, IInv
<1>1. RunTypeOK' /\ MemoryTypeOK'
  <2>1. RunTypeOK'
    BY <1>0, RecipeStays DEF PackTypeOK, RunTypeOK, Places, Untouched
  <2> QED BY <1>0, <2>1 DEF PackTypeOK, MemoryTypeOK
<1>2. Held'
  BY <1>0 DEF Held, PackingPlaces, OrderPlaces
<1>3. Journalled'
  <2>1. journal' # None => Backed(journal)'
    BY SameDirectory DEF Untouched
  <2>2. Complete'
    BY SameDirectory
  <2> QED BY <1>0, <2>1, <2>2 DEF Journalled, OrderPlaces
<1>4. Ordered'
  BY <1>0, SameDirectory DEF Ordered, FinalPlaces
<1>5. Manifested'
  <2>1. (manifest # None => AllPacked) /\ (sidecar # None => sidecar = manifest /\ Published(manifest))
    BY DEF IInv, Manifested
  <2>2. manifest' = manifest /\ sidecar' = sidecar /\ Complete'
    BY SameDirectory DEF Untouched
  <2> QED BY <1>0, <2>1, <2>2, SameDirectory DEF Manifested
<1> QED BY <1>1, <1>2, <1>3, <1>4, <1>5, SameDirectory DEF IInv, PackTypeOK

\* A run looks at the directory it is given.
LEMMA PrepareKeeps ==
    ASSUME IInv, Prepare, recipe' = recipe
    PROVE  IInv' /\ (temps = {} => Fine)
<1>0. /\ pc = "prepare" /\ Untouched /\ PackTypeOK /\ job.kind = "materialize"
  BY DEF Prepare, directory, indexes, publication, Untouched, IInv
<1>1. CASE Complete /\ Goto("validate") /\ UNCHANGED <<memory, pending>>
  <2>1. pc' = "validate" /\ UNCHANGED <<job, outcome, left, todo, fed, stream, shard, cursor>>
    BY <1>1 DEF Goto, memory
  <2> QED BY <1>0, <1>1, <2>1, ValidationBegins DEF Fine
<1>2. CASE ~Complete /\ Unknown /\ End("unrecoverable") /\ Forget
  <2>1. pc' = "down"
    BY <1>2 DEF End
  <2>2. temps # {}
    <3>1. journal = None => manifest = None /\ DOMAIN indexFiles = {}
      BY <1>0, <1>2 DEF IInv, Journalled, Blank
    <3> QED BY <1>2, <3>1 DEF Unknown
  <2> QED BY <1>0, <1>2, <2>1, <2>2, EndKeeps
<1>3. ASSUME ~Complete PROVE sidecar = None
  BY <1>3 DEF IInv, Manifested, Complete
<1>4. CASE ~Complete /\ ~Unknown /\ journal # None /\ Goto("open") /\ UNCHANGED <<memory, pending>>
  <2>0. /\ pc' = "open" /\ Here' = "open" /\ ~Writing("journal")' /\ ~Writing("manifest")'
        /\ ~Writing("sidecar")' /\ sidecar = None
        /\ UNCHANGED <<job, outcome, left, todo, fed, stream, shard, cursor>>
    BY <1>3, <1>4 DEF Goto, Here, Writing, memory
  <2>1. RunTypeOK' /\ MemoryTypeOK'
    <3>1. RunTypeOK'
      BY <1>0, <2>0, RecipeStays DEF PackTypeOK, RunTypeOK, Places
    <3> QED BY <1>0, <2>0, <3>1 DEF PackTypeOK, MemoryTypeOK
  <2>2. Held'
    BY <2>0 DEF Held, PackingPlaces, OrderPlaces
  <2>3. Journalled'
    <3>1. journal' # None /\ Backed(journal)'
      BY SameDirectory, <1>0, <1>4 DEF Untouched
    <3> QED BY <2>0, <3>1 DEF Journalled, OrderPlaces
  <2>4. Ordered'
    BY <1>0, <2>0, SameDirectory DEF Ordered, FinalPlaces
  <2>5. Manifested'
    <3>1. manifest' # None => AllPacked'
      BY SameDirectory, <1>0 DEF IInv, Manifested, Untouched
    <3>2. sidecar' = None
      BY <1>0, <2>0 DEF Untouched
    <3> QED BY <2>0, <3>1, <3>2 DEF Manifested
  <2> QED BY <1>0, <2>0, <2>1, <2>2, <2>3, <2>4, <2>5, SameDirectory DEF IInv, PackTypeOK, Fine
<1>5. CASE /\ ~Complete /\ ~Unknown /\ journal = None
           /\ Write("journal", [phase |-> "packing", cursors |-> <<>>], "open") /\ UNCHANGED memory
  <2> DEFINE v == [phase |-> "packing", cursors |-> <<>>]
  <2>0. /\ pc' = "replace" /\ pending' = [file |-> "journal", value |-> v, then |-> "open"]
        /\ Here' = "open" /\ ~Writing("manifest")' /\ ~Writing("sidecar")' /\ Writing("journal")'
        /\ sidecar = None /\ manifest = None
        /\ UNCHANGED <<job, outcome, left, todo, fed, stream, shard, cursor>>
    BY <1>3, <1>5 DEF Write, Here, Writing, memory, Unknown
  <2>1. RunTypeOK' /\ MemoryTypeOK'
    <3>1. RunTypeOK'
      BY <1>0, <2>0, RecipeStays DEF PackTypeOK, RunTypeOK, Places, Files
    <3> QED BY <1>0, <2>0, <3>1 DEF PackTypeOK, MemoryTypeOK
  <2>2. Held'
    BY <2>0 DEF Held, PackingPlaces, OrderPlaces
  <2>3. Journalled'
    <3>1. v \in Journals /\ v.phase = "packing" /\ v.cursors = <<>>
      BY DEF Journals, Phases
    <3>2. Backed(v)'
      BY <3>1 DEF Backed
    <3>3. Blank'
      <4>1. Blank
        BY <1>0, <1>5 DEF IInv, Journalled
      <4> QED BY <1>0, <4>1, SameDirectory
    <3>4. pending'.value = v /\ journal' = None /\ job'.kind = "materialize"
      BY <1>0, <1>5, <2>0 DEF Untouched
    <3> HIDE DEF v
    <3> QED BY <2>0, <3>1, <3>2, <3>3, <3>4 DEF Journalled, OrderPlaces
  <2>4. Ordered'
    BY <1>0, <2>0, SameDirectory DEF Ordered, FinalPlaces
  <2>5. Manifested'
    <3>2. sidecar' = None /\ manifest' = None /\ pending'.then = "open"
      BY <1>0, <2>0 DEF Untouched
    <3> QED BY <2>0, <3>2 DEF Manifested
  <2> QED BY <1>0, <2>0, <2>1, <2>2, <2>3, <2>4, <2>5, SameDirectory DEF IInv, PackTypeOK, Fine
<1> QED BY <1>1, <1>2, <1>4, <1>5 DEF Prepare

\* Every writer resumes at its own commit.
LEMMA OpenDestinationsKeeps ==
    ASSUME IInv, OpenDestinations, recipe' = recipe
    PROVE  IInv' /\ Fine
<1> DEFINE resumed == [d \in Dests |-> writer[d].cursor]
           v == [phase |-> "packing", cursors |-> resumed]
<1>0. /\ pc = "open" /\ Untouched /\ PackTypeOK /\ Durable /\ Filed /\ job.kind = "materialize"
  BY DEF OpenDestinations, directory, indexes, publication, Untouched, IInv
<1>1. \A d \in Dests : /\ CursorExact(d, writer[d].cursor) /\ writer[d].cursor \in Cursors
                       /\ writer[d].cursor.next \in Nat /\ writer[d].docs \in Streams
  <2>1. \A d \in Dests : CursorExact(d, writer[d].cursor)
    BY <1>0 DEF Durable
  <2>2. \A d \in Dests : writer[d].docs \in Streams /\ writer[d].cursor \in Cursors
    BY <1>0 DEF PackTypeOK, DirectoryTypeOK
  <2> QED BY <2>1, <2>2, IndexCounts, KeptFacts
<1>2. \A d \in Dests : CursorValid(d, resumed[d])
  BY <1>0, <1>1, CursorPasses
<1>3. Spread(resumed)
  <2>1. ASSUME NEW d \in Dests, NEW e \in Dests PROVE resumed[d].next - resumed[e].next <= 1
    <3>1. writer[d].cursor.next <= writer[e].cursor.next + 1
      BY <1>0 DEF Durable
    <3>2. writer[d].cursor.next \in Nat /\ writer[e].cursor.next \in Nat
      BY <1>1
    <3> QED BY <3>1, <3>2
  <2> HIDE DEF resumed
  <2> QED BY <2>1 DEF Spread
<1>4. /\ cursor' = resumed /\ stream' = [d \in Dests |-> writer[d].docs]
      /\ pc' = "replace" /\ pending' = [file |-> "journal", value |-> v, then |-> "loop"]
      /\ UNCHANGED <<job, outcome, left, todo, fed, shard>> /\ Here' = "loop"
  BY <1>2, <1>3 DEF OpenDestinations, Write, Here
<1>5. journal # None /\ sidecar = None
  BY <1>0 DEF IInv, Journalled, Manifested, Writing
<1>6. resumed \in [Dests -> Cursors] /\ v \in Journals
  BY <1>1 DEF Journals, Phases
<1>7. Backed(pending.value)'
  <2>1. ASSUME NEW d \in Dests
        PROVE  CursorExact(d, resumed[d]) /\ resumed[d].next <= writer'[d].cursor.next
    BY <1>0, <1>1 DEF Untouched
  <2>2. resumed # <<>>
    BY DestinationFacts
  <2>3. v.phase = "packing" /\ v.cursors = resumed
    OBVIOUS
  <2>4. pending'.value = v
    BY <1>4
  <2> HIDE DEF v, resumed
  <2> QED BY <2>1, <2>2, <2>3, <2>4 DEF Backed
<1>8. RunTypeOK' /\ MemoryTypeOK'
  <2>1. RunTypeOK'
    BY <1>0, <1>4, RecipeStays DEF PackTypeOK, RunTypeOK, Places, Files
  <2>2. stream' \in [Dests -> Streams]
    BY <1>1, <1>4
  <2>3. MemoryTypeOK'
    BY <1>0, <1>4, <1>6, <2>2 DEF PackTypeOK, MemoryTypeOK
  <2> QED BY <2>1, <2>3
<1>9. Held'
  <2>1. \A d \in Dests : Rested(d)' /\ cursor'[d] = writer'[d].cursor
    BY <1>0, <1>4 DEF Rested, Untouched
  <2>2. job'.kind = "materialize"
    BY <1>0, <1>4
  <2> QED BY <1>4, <2>1, <2>2 DEF Held, PackingPlaces, OrderPlaces
<1>10. pending'.file = "journal" /\ pending'.then = "loop" /\ pending'.value \in Journals
  BY <1>4, <1>6
<1> HIDE DEF v, resumed
<1> QED BY <1>0, <1>4, <1>5, <1>7, <1>8, <1>9, <1>10, JournalWrites DEF Fine

\* The reference is as long as there are documents of the destination.
LEMMA ReferenceFacts ==
    ASSUME NEW d \in Dests
    PROVE  /\ Len(Reference(d)) = UpTo(d, Len(Kept)) /\ Len(Reference(d)) \in Nat
           /\ Prefix(d, UpTo(d, Len(Kept))) = Reference(d)
           /\ \A n \in Nat : Len(Prefix(d, n)) = n
<1> DEFINE n == Cardinality(Documents(d))
<1>1. n \in Nat /\ UpTo(d, Len(Kept)) = n
  BY DocumentsFinite, PlaceEnds
<1>2. Reference(d) = [k \in 1..n |-> CHOOSE x \in Documents(d) : Place(d, x) = k - 1]
  BY DEF Reference, References
<1> HIDE DEF n
<1>3. Len(Reference(d)) = n /\ DOMAIN Reference(d) = 1..n
  BY <1>1, <1>2
<1>4. Prefix(d, n) = Reference(d)
  BY <1>2 DEF Prefix
<1>5. \A m \in Nat : Len(Prefix(d, m)) = m
  BY DEF Prefix
<1> QED BY <1>1, <1>3, <1>4, <1>5

\* All archives are packed.
LEMMA BeginFinishKeeps ==
    ASSUME IInv, BeginFinish, recipe' = recipe
    PROVE  IInv' /\ Fine
<1>0. /\ pc = "loop" /\ Lowest = Len(Kept) /\ Untouched /\ PackTypeOK /\ Held
  BY DEF BeginFinish, directory, indexes, publication, Untouched, IInv
<1>1. /\ Here = "loop" /\ job.kind = "materialize" /\ cursor \in [Dests -> Cursors]
      /\ \A e \in Dests : cursor[e] = writer[e].cursor /\ cursor[e].next \in 0..Len(Kept)
                          /\ cursor[e].documents = UpTo(e, cursor[e].next)
  BY <1>0, AtPacking DEF PackingPlaces
<1>2. \A d \in Dests : cursor[d].next = Len(Kept)
  BY <1>0, <1>1, LowestFacts, KeptFacts
<1>3. \A d \in Dests : cursor[d].documents = Len(Reference(d))
  BY <1>1, <1>2, ReferenceFacts
<1>4. /\ pc' = "finish" /\ Here' = "finish" /\ left' = Dests
      /\ UNCHANGED <<job, outcome, todo, fed, stream, shard, cursor>>
  BY <1>3 DEF BeginFinish, Goto, held, Here
<1>5. RunTypeOK' /\ MemoryTypeOK'
  <2>1. RunTypeOK'
    BY <1>0, <1>4, RecipeStays DEF PackTypeOK, RunTypeOK, Places
  <2> QED BY <1>0, <1>4, <2>1 DEF PackTypeOK, MemoryTypeOK
<1>6. Held'
  <2>1. \A d \in Dests : Rested(d)' /\ cursor'[d] = writer'[d].cursor /\ cursor'[d].next = Len(Kept)
    BY <1>0, <1>1, <1>2, <1>4 DEF Held, Rested, Untouched
  <2>2. job'.kind = "materialize"
    BY <1>1, <1>4
  <2> QED BY <1>4, <2>1, <2>2 DEF Held, PackingPlaces, OrderPlaces
<1> QED BY <1>0, <1>4, <1>5, <1>6, PackingMove DEF PackingPlaces, Fine

\* A writer publishes its manifest, or finds it published.
LEMMA FinishWriterKeeps ==
    ASSUME IInv, FinishWriter, recipe' = recipe
    PROVE  IInv' /\ Fine
<1> DEFINE d == NextDestination
<1>0. /\ pc = "finish" /\ left # {} /\ PackTypeOK /\ Durable /\ Held /\ Filed
      /\ UNCHANGED <<recipe, indexFiles, indexManifest, journal, orders, staging, provenance,
                     manifest, sidecar>>
      /\ writer' = [writer EXCEPT ![d] = [docs |-> stream[d], cursor |-> cursor[d],
                                          published |-> TRUE]]
  BY DEF FinishWriter, indexes, publication, IInv
<1>1. /\ Here = "finish" /\ job.kind = "materialize" /\ cursor \in [Dests -> Cursors]
      /\ \A e \in Dests : /\ cursor[e] = writer[e].cursor /\ cursor[e].next \in Nat
                          /\ cursor[e].documents = UpTo(e, cursor[e].next)
                          /\ writer[e].docs = Prefix(e, cursor[e].documents)
  BY <1>0, AtPacking DEF PackingPlaces
<1>2. \A e \in Dests : Rested(e) /\ cursor[e].next = Len(Kept) /\ (e \notin left => writer[e].published)
  BY <1>0, <1>1 DEF Held
<1>3. d \in left /\ d \in Dests
  <2>1. left \subseteq Dests
    BY <1>0 DEF PackTypeOK, RunTypeOK
  <2> QED BY <1>0, <2>1, NextFacts
<1> HIDE DEF d
<1>4. cursor[d].documents = Len(stream[d])
  <2>1. stream[d] = Prefix(d, UpTo(d, Len(Kept))) /\ cursor[d].documents = UpTo(d, Len(Kept))
    BY <1>1, <1>2, <1>3 DEF Rested
  <2> QED BY <1>3, <2>1, ReferenceFacts
<1>5. /\ left' = left \ {d} /\ pc' = "finish" /\ Here' = "finish"
      /\ UNCHANGED <<job, outcome, todo, fed, stream, shard, cursor>>
  BY <1>0, <1>4 DEF FinishWriter, Visited, run, held, Here, d
<1>6. writer \in [Dests -> [docs : Streams, cursor : Cursors, published : BOOLEAN]]
  BY <1>0 DEF PackTypeOK, DirectoryTypeOK
<1>7. /\ writer' \in [Dests -> [docs : Streams, cursor : Cursors, published : BOOLEAN]]
      /\ writer'[d].docs = stream[d] /\ writer'[d].cursor = cursor[d] /\ writer'[d].published = TRUE
      /\ \A e \in Dests : e # d => writer'[e] = writer[e]
  <2>1. stream[d] \in Streams /\ cursor[d] \in Cursors
    BY <1>0, <1>3 DEF PackTypeOK, MemoryTypeOK
  <2> DEFINE r == [docs |-> stream[d], cursor |-> cursor[d], published |-> TRUE]
  <2>2. r \in [docs : Streams, cursor : Cursors, published : BOOLEAN]
    BY <2>1
  <2>3. r.docs = stream[d] /\ r.cursor = cursor[d] /\ r.published = TRUE
    OBVIOUS
  <2>4. writer' = [writer EXCEPT ![d] = r]
    BY <1>0
  <2> HIDE DEF r
  <2> QED BY <1>3, <1>6, <2>2, <2>3, <2>4
<1>8. \A e \in Dests : /\ writer'[e].docs = writer[e].docs /\ writer'[e].cursor = writer[e].cursor
                       /\ (writer[e].published => writer'[e].published)
                       /\ (e \notin left' => writer'[e].published)
  <2> TAKE e \in Dests
  <2>1. CASE e = d
    BY <1>1, <1>2, <1>3, <1>7, <2>1 DEF Rested
  <2>2. CASE e # d
    BY <1>2, <1>5, <1>7, <2>2
  <2> QED BY <2>1, <2>2
<1>9. RunTypeOK' /\ MemoryTypeOK' /\ DirectoryTypeOK'
  <2>1. RunTypeOK'
    BY <1>0, <1>5, RecipeStays DEF PackTypeOK, RunTypeOK, Places
  <2>2. DirectoryTypeOK'
    BY <1>0, <1>7 DEF PackTypeOK, DirectoryTypeOK
  <2> QED BY <1>0, <1>5, <2>1, <2>2 DEF PackTypeOK, MemoryTypeOK
<1>10. Durable'
  <2>1. \A e \in Dests : writer'[e].cursor.next = Len(Kept)
    BY <1>1, <1>2, <1>8
  <2>2. ASSUME NEW e \in Dests
        PROVE  /\ CursorExact(e, writer'[e].cursor)
               /\ writer'[e].docs = Prefix(e, writer'[e].cursor.documents)
               /\ indexManifest'[e] # None => /\ writer'[e].published
                     /\ indexManifest'[e] = [documents |-> writer'[e].cursor.documents,
                                             shards |-> writer'[e].cursor.index]
    BY <1>0, <1>8 DEF Durable
  <2>3. Len(Kept) <= Len(Kept) + 1
    BY KeptFacts
  <2> QED BY <2>1, <2>2, <2>3 DEF Durable
<1>11. Filed'
  BY <1>0, <1>8 DEF Filed
<1>12. Held'
  <2>1. \A e \in Dests : Rested(e)' /\ cursor'[e] = writer'[e].cursor /\ cursor'[e].next = Len(Kept)
    BY <1>1, <1>2, <1>5, <1>8 DEF Rested
  <2>2. job'.kind = "materialize" /\ \A e \in Dests \ left' : writer'[e].published
    BY <1>1, <1>5, <1>8
  <2> QED BY <1>5, <2>1, <2>2 DEF Held, PackingPlaces, OrderPlaces
<1>13. \A e \in Dests : writer[e].cursor.next <= writer'[e].cursor.next
  BY <1>1, <1>8
<1>14. CASE writer[d].published
  <2>1. writer' = writer
    <3>1. writer[d] = [docs |-> writer[d].docs, cursor |-> writer[d].cursor, published |-> writer[d].published]
      BY <1>3, <1>6
    <3>2. writer[d].docs = stream[d] /\ writer[d].cursor = cursor[d] /\ writer[d].published = TRUE
      BY <1>1, <1>2, <1>3, <1>6, <1>14 DEF Rested
    <3>3. writer' = [writer EXCEPT ![d] = writer[d]]
      BY <1>0, <3>1, <3>2
    <3> QED BY <1>6, <3>3
  <2>2. Untouched
    BY <1>0, <2>1 DEF Untouched
  <2> QED BY <1>0, <1>5, <1>9, <1>12, <2>2, PackingMove DEF PackingPlaces, Fine
<1>15. CASE ~writer[d].published
  <2>1. ~AllPacked
    BY <1>3, <1>15 DEF AllPacked
  <2> QED BY <1>0, <1>5, <1>9, <1>10, <1>11, <1>12, <1>13, <2>1, PackingWrites DEF PackingPlaces, Fine
<1> QED BY <1>14, <1>15

\* Every writer has published.
LEMMA WritersFinishedKeeps ==
    ASSUME IInv, WritersFinished, recipe' = recipe
    PROVE  IInv' /\ Fine
<1>0. /\ pc = "finish" /\ pc' = "index_manifests" /\ Here' = "index_manifests" /\ Untouched
      /\ PackTypeOK /\ Held /\ left = {} /\ left' = Dests
      /\ UNCHANGED <<job, outcome, todo, fed, stream, shard, cursor>>
  BY DEF WritersFinished, Goto, held, Here, directory, indexes, publication, Untouched, IInv
<1>1. /\ Here = "finish" /\ job.kind = "materialize"
      /\ \A e \in Dests : cursor[e] = writer[e].cursor
  BY <1>0, AtPacking DEF PackingPlaces
<1>2. \A e \in Dests : cursor[e].next = Len(Kept) /\ writer[e].published
  BY <1>0, <1>1 DEF Held
<1>3. RunTypeOK' /\ MemoryTypeOK'
  <2>1. RunTypeOK'
    BY <1>0, RecipeStays DEF PackTypeOK, RunTypeOK, Places
  <2> QED BY <1>0, <2>1 DEF PackTypeOK, MemoryTypeOK
<1>4. Held'
  <2>1. \A e \in Dests : cursor'[e] = writer'[e].cursor /\ cursor'[e].next = Len(Kept) /\ writer'[e].published
    BY <1>0, <1>1, <1>2 DEF Untouched
  <2>2. job'.kind = "materialize"
    BY <1>0, <1>1
  <2> QED BY <1>0, <2>1, <2>2 DEF Held, PackingPlaces, OrderPlaces
<1> QED BY <1>0, <1>3, <1>4, PackingMove DEF PackingPlaces, Fine

\* The index manifest of a destination is published, or found to be the same.
LEMMA FinishDocumentIndexKeeps ==
    ASSUME IInv, FinishDocumentIndex, recipe' = recipe
    PROVE  IInv' /\ Fine
<1> DEFINE d == NextDestination
           m == IndexManifest(d)
<1>0. /\ pc = "index_manifests" /\ left # {} /\ PackTypeOK /\ Durable /\ Held /\ Filed
      /\ UNCHANGED <<recipe, writer, indexFiles, journal, orders, staging, provenance,
                     manifest, sidecar>>
      /\ indexManifest' = IF indexManifest[d] = None
                          THEN [indexManifest EXCEPT ![d] = m] ELSE indexManifest
  BY DEF FinishDocumentIndex, publication, IInv
<1>1. /\ Here = "index_manifests" /\ job.kind = "materialize" /\ cursor \in [Dests -> Cursors]
      /\ \A e \in Dests : /\ cursor[e] = writer[e].cursor /\ cursor[e].next \in Nat
                          /\ CursorExact(e, cursor[e])
                          /\ cursor[e].documents = UpTo(e, cursor[e].next)
                          /\ writer[e].docs = Prefix(e, cursor[e].documents)
  BY <1>0, AtPacking DEF PackingPlaces
<1>2. \A e \in Dests : /\ cursor[e].next = Len(Kept) /\ writer[e].published
                       /\ (e \notin left => indexManifest[e] # None)
  BY <1>0, <1>1 DEF Held
<1>3. d \in left /\ d \in Dests
  <2>1. left \subseteq Dests
    BY <1>0 DEF PackTypeOK, RunTypeOK
  <2> QED BY <1>0, <2>1, NextFacts
<1> HIDE DEF d
<1>4. m = [documents |-> writer[d].cursor.documents, shards |-> writer[d].cursor.index]
      /\ m.documents = cursor[d].documents /\ m.shards = cursor[d].index
  BY <1>1, <1>3 DEF IndexManifest
<1>5. m \in IndexManifests /\ m # None
  <2>1. cursor[d].documents \in Nat /\ cursor[d].index \in Indexes
    BY <1>1, <1>3, IndexCounts
  <2>2. m \in IndexManifests
    BY <2>1 DEF IndexManifest, IndexManifests
  <2> QED BY <2>2, NoneAssumption
<1>6. indexManifest[d] \in {None, m}
  BY <1>0, <1>3, <1>4 DEF Durable
<1>7. IndexValid(d, m)
  <2>1. cursor[d].documents = Len(writer[d].docs)
    <3>1. cursor[d].documents \in Nat
      BY <1>1, <1>3, IndexCounts
    <3> QED BY <1>1, <1>3, <3>1, ReferenceFacts
  <2>2. CursorExact(d, cursor[d]) /\ cursor[d].next <= writer[d].cursor.next /\ writer[d].cursor.next \in Nat
    BY <1>1, <1>3
  <2> HIDE DEF m
  <2> QED BY <1>0, <1>3, <1>4, <2>1, <2>2, CursorPasses
<1>8. /\ left' = left \ {d} /\ pc' = "index_manifests" /\ Here' = "index_manifests"
      /\ UNCHANGED <<job, outcome, todo, fed, stream, shard, cursor>>
  <2>1. IF indexManifest[d] \in {None, m} /\ IndexValid(d, m)
        THEN Visited /\ UNCHANGED <<run, todo, fed, held>>
        ELSE End("unrecoverable") /\ Forget
    BY DEF FinishDocumentIndex, d
  <2>2. Visited /\ UNCHANGED <<run, todo, fed, held>>
    BY <1>6, <1>7, <2>1
  <2> QED BY <1>0, <2>2 DEF Visited, run, held, Here, d
<1> HIDE DEF m
<1>9. /\ indexManifest' \in [Dests -> IndexManifests \cup {None}] /\ indexManifest'[d] = m
      /\ \A e \in Dests : e # d => indexManifest'[e] = indexManifest[e]
  <2>1. indexManifest \in [Dests -> IndexManifests \cup {None}]
    BY <1>0 DEF PackTypeOK, DirectoryTypeOK
  <2> QED BY <1>0, <1>3, <1>5, <1>6, <2>1
<1>10. RunTypeOK' /\ MemoryTypeOK' /\ DirectoryTypeOK'
  <2>1. RunTypeOK'
    BY <1>0, <1>8, RecipeStays DEF PackTypeOK, RunTypeOK, Places
  <2>2. DirectoryTypeOK'
    BY <1>0, <1>9 DEF PackTypeOK, DirectoryTypeOK
  <2> QED BY <1>0, <1>8, <2>1, <2>2 DEF PackTypeOK, MemoryTypeOK
<1>11. Durable'
  <2>1. ASSUME NEW e \in Dests, indexManifest'[e] # None
        PROVE  /\ writer'[e].published
               /\ indexManifest'[e] = [documents |-> writer'[e].cursor.documents,
                                       shards |-> writer'[e].cursor.index]
    <3>1. CASE e = d
      BY <1>0, <1>2, <1>3, <1>4, <1>9, <3>1
    <3>2. CASE e # d
      BY <1>0, <1>9, <2>1, <3>2 DEF Durable
    <3> QED BY <3>1, <3>2
  <2> QED BY <1>0, <2>1 DEF Durable
<1>12. Filed'
  BY <1>0 DEF Filed
<1>13. Held'
  <2>1. ASSUME NEW e \in Dests
        PROVE  /\ cursor'[e] = writer'[e].cursor /\ cursor'[e].next = Len(Kept) /\ writer'[e].published
               /\ (e \notin left' => indexManifest'[e] # None)
    <3>1. CASE e = d
      BY <1>0, <1>1, <1>2, <1>5, <1>8, <1>9, <3>1
    <3>2. CASE e # d
      BY <1>0, <1>1, <1>2, <1>8, <1>9, <3>2
    <3> QED BY <3>1, <3>2
  <2>2. job'.kind = "materialize"
    BY <1>1, <1>8
  <2> QED BY <1>8, <2>1, <2>2 DEF Held, PackingPlaces, OrderPlaces
<1>14. \A e \in Dests : writer[e].cursor.next <= writer'[e].cursor.next
  BY <1>0, <1>1
<1>15. CASE indexManifest[d] = None
  <2>1. ~AllPacked
    BY <1>3, <1>15 DEF AllPacked
  <2> QED BY <1>0, <1>8, <1>10, <1>11, <1>12, <1>13, <1>14, <2>1, PackingWrites DEF PackingPlaces, Fine
<1>16. CASE indexManifest[d] # None
  <2>1. Untouched
    BY <1>0, <1>16 DEF Untouched
  <2> QED BY <1>0, <1>8, <1>10, <1>13, <2>1, PackingMove DEF PackingPlaces, Fine
<1> QED BY <1>15, <1>16

\* The journal of phase "packed".
LEMMA PackedKeeps ==
    ASSUME IInv, Packed, recipe' = recipe
    PROVE  IInv' /\ Fine
<1> DEFINE v == JournalPayload("packed")
<1>0. /\ pc = "index_manifests" /\ left = {} /\ pc' = "replace"
      /\ pending' = [file |-> "journal", value |-> v, then |-> "packed"] /\ Here' = "packed"
      /\ Untouched /\ PackTypeOK /\ Held
      /\ UNCHANGED <<job, outcome, left, todo, fed, stream, shard, cursor>>
  BY DEF Packed, WriteJournal, Write, Here, memory, directory, indexes, publication,
         Untouched, IInv
<1>1. /\ Here = "index_manifests" /\ job.kind = "materialize" /\ cursor \in [Dests -> Cursors]
      /\ \A e \in Dests : cursor[e] = writer[e].cursor /\ CursorExact(e, cursor[e])
                          /\ cursor[e].next \in Nat
  BY <1>0, AtPacking DEF PackingPlaces
<1>2. AllPacked
  BY <1>0, <1>1 DEF Held, AllPacked
<1>3. journal # None /\ sidecar = None
  BY <1>0 DEF IInv, Journalled, Manifested, Writing
<1>4. v \in Journals
  BY <1>1 DEF JournalPayload, Journals, Phases
<1>5. Backed(pending.value)'
  <2>1. pending'.value = v
    BY <1>0
  <2>2. v.phase = "packed" /\ v.cursors = cursor
    BY DEF JournalPayload
  <2>3. ASSUME NEW d \in Dests
        PROVE  /\ CursorExact(d, v.cursors[d]) /\ v.cursors[d].next <= writer'[d].cursor.next
               /\ v.cursors[d] = writer'[d].cursor
    BY <1>0, <1>1, <2>2 DEF Untouched
  <2>4. v.cursors # <<>>
    BY <1>1, <2>2, DestinationFacts
  <2>5. AllPacked'
    BY <1>0, <1>2, SameDirectory
  <2> HIDE DEF v
  <2> QED BY <2>1, <2>2, <2>3, <2>4, <2>5 DEF Backed
<1>6. RunTypeOK' /\ MemoryTypeOK'
  <2>1. RunTypeOK'
    BY <1>0, RecipeStays DEF PackTypeOK, RunTypeOK, Places, Files
  <2> QED BY <1>0, <2>1 DEF PackTypeOK, MemoryTypeOK
<1>7. Held'
  <2>1. \A d \in Dests : cursor'[d] = writer'[d].cursor
    BY <1>0, <1>1 DEF Untouched
  <2>2. job'.kind = "materialize" /\ AllPacked'
    BY <1>0, <1>1, <1>2, SameDirectory
  <2> QED BY <1>0, <2>1, <2>2 DEF Held, PackingPlaces, OrderPlaces
<1>8. pending'.file = "journal" /\ pending'.then = "packed" /\ pending'.value \in Journals
  BY <1>0, <1>4
<1> HIDE DEF v
<1> QED BY <1>0, <1>1, <1>3, <1>5, <1>6, <1>7, <1>8, JournalWrites DEF Fine

-----------------------------------------------------------------------------
(* Steps of the publication.                                               *)

\* What a sequence holds is its head and what its tail holds.
LEMMA HeadTail ==
    ASSUME NEW S, NEW s \in Seq(S)
    PROVE  /\ SeqSet(s) \subseteq S
           /\ s = <<>> => SeqSet(s) = {}
           /\ s # <<>> => /\ Head(s) \in S /\ Tail(s) \in Seq(S)
                          /\ SeqSet(s) = {Head(s)} \cup SeqSet(Tail(s))
<1>1. \A i \in 1..Len(s) : s[i] \in S
  BY ElementOfSeq
<1>2. Len(s) \in Nat /\ DOMAIN s = 1..Len(s)
  OBVIOUS
<1>3. ASSUME s # <<>>
      PROVE  Head(s) \in S /\ Tail(s) \in Seq(S) /\ SeqSet(s) = {Head(s)} \cup SeqSet(Tail(s))
  <2>1. /\ Len(s) # 0 /\ Head(s) = s[1] /\ Tail(s) \in Seq(S) /\ Len(Tail(s)) = Len(s) - 1
        /\ \A i \in 1..Len(Tail(s)) : Tail(s)[i] = s[i + 1]
    BY <1>3, HeadTailProperties
  <2>2. DOMAIN Tail(s) = 1..Len(s) - 1
    BY <1>2, <2>1
  <2>3. SeqSet(Tail(s)) = {s[i + 1] : i \in 1..Len(s) - 1}
    BY <2>1, <2>2 DEF SeqSet
  <2>4. SeqSet(s) = {s[i] : i \in 1..Len(s)}
    BY <1>2 DEF SeqSet
  <2>5. ASSUME NEW x \in SeqSet(s) PROVE x \in {Head(s)} \cup SeqSet(Tail(s))
    <3>1. PICK i \in 1..Len(s) : x = s[i]
      BY <2>4
    <3>2. CASE i = 1
      BY <2>1, <3>1, <3>2
    <3>3. CASE i # 1
      <4>1. i - 1 \in 1..Len(s) - 1 /\ s[(i - 1) + 1] = x
        BY <1>2, <3>1, <3>3
      <4> QED BY <2>3, <4>1
    <3> QED BY <3>2, <3>3
  <2>6. ASSUME NEW x \in {Head(s)} \cup SeqSet(Tail(s)) PROVE x \in SeqSet(s)
    <3>1. CASE x = Head(s)
      <4>1. 1 \in 1..Len(s) /\ x = s[1]
        BY <1>2, <2>1, <3>1
      <4> QED BY <2>4, <4>1
    <3>2. CASE x \in SeqSet(Tail(s))
      <4>1. PICK i \in 1..Len(s) - 1 : x = s[i + 1]
        BY <2>3, <3>2
      <4>2. i + 1 \in 1..Len(s)
        BY <1>2
      <4> QED BY <2>4, <4>1, <4>2
    <3> QED BY <3>1, <3>2
  <2>7. Head(s) \in S
    BY <1>1, <1>2, <2>1
  <2> QED BY <2>1, <2>5, <2>6, <2>7
<1>4. SeqSet(s) \subseteq S
  BY <1>1, <1>2 DEF SeqSet
<1>5. s = <<>> => SeqSet(s) = {}
  BY DEF SeqSet
<1> QED BY <1>3, <1>4, <1>5

\* A sequence over a set is one over a larger set.
LEMMA SeqWider ==
    ASSUME NEW S, NEW T, S \subseteq T, NEW s \in Seq(S)
    PROVE  s \in Seq(T)
<1>1. Len(s) \in Nat /\ s = [i \in 1..Len(s) |-> s[i]]
  OBVIOUS
<1>2. \A i \in 1..Len(s) : s[i] \in T
  BY ElementOfSeq
<1> QED BY <1>1, <1>2

\* The splits, and the order in which the finalizer visits them.
LEMMA SplitFacts ==
    /\ Train \in SeqSet(Splits) /\ Splits \in Seq(SeqSet(Splits))
    /\ Tail(Splits) \in Seq(SeqSet(Splits)) /\ Append(Tail(Splits), Train) \in Seq(SeqSet(Splits))
    /\ SeqSet(Splits) \subseteq SeqSet(Append(Tail(Splits), Train))
    /\ \A s : s \in Seq(SeqSet(Splits)) => s \in Seq(SeqSet(Splits) \cup {"handoff", "source"})
<1> DEFINE S == SeqSet(Splits)
           more == Append(Tail(Splits), Train)
<1>1. Splits \in Seq(S) /\ Splits # <<>>
  BY DestinationsAssumption
<1>2. /\ Head(Splits) \in S /\ Tail(Splits) \in Seq(S) /\ S = {Head(Splits)} \cup SeqSet(Tail(Splits))
  <2>1. SeqSet(Splits) = {Head(Splits)} \cup SeqSet(Tail(Splits))
    BY <1>1, HeadTail
  <2>2. Head(Splits) \in S /\ Tail(Splits) \in Seq(S)
    <3> HIDE DEF S
    <3> QED BY <1>1, HeadTail
  <2> QED BY <2>1, <2>2
<1>3. Train = Head(Splits)
  BY DEF Train
<1> HIDE DEF S
<1>4. /\ more \in Seq(S) /\ Len(more) = Len(Tail(Splits)) + 1 /\ more[Len(Tail(Splits)) + 1] = Train
      /\ \A i \in 1..Len(Tail(Splits)) : more[i] = Tail(Splits)[i]
  BY <1>2, <1>3, AppendProperties
<1>5. ASSUME NEW x \in S PROVE x \in SeqSet(more)
  <2>1. Len(Tail(Splits)) \in Nat /\ DOMAIN Tail(Splits) = 1..Len(Tail(Splits)) /\ DOMAIN more = 1..Len(more)
    BY <1>2, <1>4
  <2> HIDE DEF more
  <2>2. CASE x = Train
    <3>1. Len(Tail(Splits)) + 1 \in DOMAIN more
      BY <1>4, <2>1
    <3> QED BY <1>4, <2>2, <3>1 DEF SeqSet
  <2>3. CASE x \in SeqSet(Tail(Splits))
    <3>1. PICK i \in 1..Len(Tail(Splits)) : x = Tail(Splits)[i]
      BY <2>1, <2>3 DEF SeqSet
    <3>2. i \in DOMAIN more /\ more[i] = x
      BY <1>4, <2>1, <3>1
    <3> QED BY <3>2 DEF SeqSet
  <2> QED BY <1>2, <1>3, <2>2, <2>3
<1>6. \A s : s \in Seq(S) => s \in Seq(S \cup {"handoff", "source"})
  BY SeqWider
<1> QED BY <1>1, <1>2, <1>3, <1>4, <1>5, <1>6 DEF S

\* What is true of the directory once everything is packed.
LEMMA AtPublication ==
    ASSUME IInv, pc \in OrderPlaces \cup {"packed"}
    PROVE  /\ Here = pc /\ AllPacked /\ journal # None /\ Backed(journal) /\ journal \in Journals
           /\ job.kind = "portable" /\ pc # "packed" => journal.phase = "packed"
           /\ pc # "unlink" => sidecar = None
           /\ (job.kind = "materialize" /\ pc \notin {"unlink", "checksum"}) =>
                \A d \in Dests : cursor[d] = writer[d].cursor
           /\ job.kind \in {"materialize", "portable"}
           /\ pc = "packed" => job.kind = "materialize"
<1>1. Here = pc /\ pc \notin {"down", "prepare", "validate", "replace"}
  BY DEF Here, OrderPlaces
<1>2. AllPacked /\ (pc = "packed" => job.kind = "materialize")
  BY <1>1 DEF IInv, Held, PackingPlaces
<1>3. journal # None /\ Backed(journal) /\ journal \in Journals
  BY <1>1 DEF IInv, Journalled, PackTypeOK, DirectoryTypeOK, Writing
<1>4. job.kind = "portable" /\ pc # "packed" => journal.phase = "packed"
  BY <1>1 DEF IInv, Journalled
<1>5. pc # "unlink" => sidecar = None
  BY <1>1 DEF IInv, Manifested
<1>6. (job.kind = "materialize" /\ pc \notin {"unlink", "checksum"}) =>
         \A d \in Dests : cursor[d] = writer[d].cursor
  BY <1>1 DEF IInv, Held, PackingPlaces
<1>7. job.kind \in {"materialize", "portable"}
  BY <1>1, JobFacts DEF IInv
<1> QED BY <1>1, <1>2, <1>3, <1>4, <1>5, <1>6, <1>7

\* What does not depend on the orders and the provenance.
LEMMA PublicationStays ==
    ASSUME IInv, UNCHANGED <<recipe, writer, indexFiles, indexManifest, journal, manifest, sidecar>>
    PROVE  /\ Durable' /\ Filed' /\ (AllPacked' <=> AllPacked)
           /\ journal # None => Backed(journal)'
           /\ \A p : Certified(p) => Certified(p)'
<1>1. AllPacked' <=> AllPacked
  BY DEF AllPacked
<1>2. Durable' /\ Filed'
  BY DEF IInv, Durable, Filed
<1>3. journal # None => Backed(journal)'
  <2>1. journal # None => Backed(journal)
    BY DEF IInv, Journalled
  <2>2. Backed(journal) => Backed(journal)'
    BY <1>1 DEF Backed
  <2> QED BY <2>1, <2>2
<1>4. \A p : Certified(p) => Certified(p)'
  BY <1>1 DEF Certified
<1> QED BY <1>1, <1>2, <1>3, <1>4

\* A step to the orders, the provenance or the manifest.
LEMMA PublicationStep ==
    ASSUME IInv, AllPacked, journal # None, sidecar = None, job' = job,
           job.kind = "portable" => journal.phase = "packed",
           UNCHANGED <<recipe, writer, indexFiles, indexManifest, journal, manifest, sidecar>>,
           pc' \in {"orders", "publish_order", "provenance", "manifest"},
           RunTypeOK', MemoryTypeOK', DirectoryTypeOK', Held', Ordered', Staging'
    PROVE  IInv'
<1>0. /\ Here' = pc' /\ pc' # "replace" /\ ~Writing("journal")' /\ ~Writing("manifest")'
      /\ ~Writing("sidecar")'
  BY DEF Here, Writing
<1>1. Journalled'
  <2>1. journal' # None /\ Backed(journal)'
    BY PublicationStays
  <2>2. job'.kind = "portable" => journal'.phase = "packed"
    OBVIOUS
  <2> QED BY <1>0, <2>1, <2>2 DEF Journalled
<1>2. Manifested'
  <2>1. AllPacked' /\ sidecar' = None
    BY PublicationStays
  <2> QED BY <1>0, <2>1 DEF Manifested
<1> QED BY <1>1, <1>2, PublicationStays DEF IInv, PackTypeOK

\* A step that begins to write the journal of phase "orders" or "finalizing".
LEMMA PublicationJournals ==
    ASSUME IInv, AllPacked, journal # None, sidecar = None, job' = job, job.kind = "materialize",
           UNCHANGED <<recipe, writer, indexFiles, indexManifest, journal, manifest, sidecar>>,
           pc' = "replace", pending'.file = "journal", pending'.then \in {"orders", "manifest"},
           pending'.value \in Journals, Backed(pending.value)',
           RunTypeOK', MemoryTypeOK', DirectoryTypeOK', Held', Ordered', Staging'
    PROVE  IInv'
<1>0. /\ Here' = pending'.then /\ ~Writing("manifest")' /\ ~Writing("sidecar")'
  BY DEF Here, Writing
<1>1. Journalled'
  <2>1. journal' # None /\ Backed(journal)'
    BY PublicationStays
  <2>2. job'.kind = "materialize"
    OBVIOUS
  <2> QED BY <1>0, <2>1, <2>2 DEF Journalled
<1>2. Manifested'
  <2>1. AllPacked' /\ sidecar' = None
    BY PublicationStays
  <2> QED BY <1>0, <2>1 DEF Manifested
<1> QED BY <1>1, <1>2, PublicationStays DEF IInv, PackTypeOK

\* Packing alone ends here, a run for the whole corpus goes on to its orders.
LEMMA StopAfterPackingKeeps ==
    ASSUME IInv, StopAfterPacking, recipe' = recipe
    PROVE  IInv' /\ Fine
<1>0. pc = "packed" /\ Untouched /\ PackTypeOK
  BY DEF StopAfterPacking, directory, indexes, publication, Untouched, IInv
<1>1. /\ AllPacked /\ journal # None /\ sidecar = None /\ job.kind = "materialize"
      /\ \A d \in Dests : cursor[d] = writer[d].cursor
  BY <1>0, AtPublication
<1>2. CASE job.stop
  <2>1. pc' = "down" /\ Forget /\ outcome' = "packed"
    BY <1>2 DEF StopAfterPacking, End
  <2> QED BY <1>0, <2>1, EndKeeps DEF Fine
<1>3. CASE ~job.stop
  <2>1. /\ pc' = "orders" /\ Here' = "orders" /\ todo' = Splits
        /\ UNCHANGED <<job, outcome, left, fed, stream, shard, cursor>>
    BY <1>3 DEF StopAfterPacking, Goto, held, Here
  <2>2. RunTypeOK' /\ MemoryTypeOK'
    <3>1. todo' \in Seq(SeqSet(Splits) \cup {"handoff", "source"})
      BY <2>1, SplitFacts
    <3>2. RunTypeOK'
      BY <1>0, <2>1, <3>1, RecipeStays DEF PackTypeOK, RunTypeOK, Places
    <3> QED BY <1>0, <2>1, <3>2 DEF PackTypeOK, MemoryTypeOK
  <2>3. Held'
    <3>1. AllPacked' /\ job'.kind = "materialize" /\ \A d \in Dests : cursor'[d] = writer'[d].cursor
      BY <1>0, <1>1, <2>1, SameDirectory DEF Untouched
    <3> QED BY <2>1, <3>1 DEF Held, PackingPlaces, OrderPlaces
  <2>4. Ordered'
    <3>1. job' = job /\ todo' = Splits
      BY <2>1
    <3> QED BY <1>0, <1>3, <2>1, <3>1, SameDirectory DEF Ordered, FinalPlaces
  <2> QED BY <1>0, <1>1, <2>1, <2>2, <2>3, <2>4, SameDirectory, PublicationStep DEF Untouched, Fine
<1> QED BY <1>2, <1>3

\* An order that is there already is the one this run would build, or the run is
\* refused.
LEMMA ReuseOrderKeeps ==
    ASSUME IInv, ReuseOrder, recipe' = recipe
    PROVE  IInv' /\ (recipe # "mixed" => Fine)
<1>0. /\ pc = "orders" /\ todo # <<>> /\ orders[Head(todo)] # None /\ Untouched /\ PackTypeOK
      /\ Ordered /\ Staging
  BY DEF ReuseOrder, directory, indexes, publication, Untouched, IInv
<1>1. /\ Here = "orders" /\ AllPacked /\ journal # None /\ sidecar = None
      /\ job.kind \in {"materialize", "portable"}
      /\ job.kind = "portable" => journal.phase = "packed"
      /\ job.kind = "materialize" => \A d \in Dests : cursor[d] = writer[d].cursor
  BY <1>0, AtPublication DEF OrderPlaces
<1>2. CASE Staged(Head(todo)) \in staging
  <2>1. pc' = "down" /\ Forget
    BY <1>0, <1>2 DEF ReuseOrder, End
  <2>2. recipe = "mixed"
    <3>1. Staged(Head(todo))[2] = Head(todo)
      BY DEF Staged
    <3> QED BY <1>0, <1>2, <3>1 DEF Staging
  <2> QED BY <1>0, <2>1, <2>2, EndKeeps
<1>3. CASE Staged(Head(todo)) \notin staging /\ ~OrderValid(Head(todo))
  <2>1. pc' = "down" /\ Forget /\ outcome' = "refused"
    BY <1>0, <1>3 DEF ReuseOrder, End
  <2> QED BY <1>0, <2>1, EndKeeps DEF Fine
<1>4. CASE Staged(Head(todo)) \notin staging /\ OrderValid(Head(todo))
  <2>1. /\ pc' = "orders" /\ Here' = "orders" /\ todo' = Tail(todo)
        /\ UNCHANGED <<job, outcome, left, fed, stream, shard, cursor>>
    BY <1>0, <1>4 DEF ReuseOrder, run, held, Here
  <2> DEFINE S == SeqSet(Splits) \cup {"handoff", "source"}
  <2>2. todo' \in Seq(S) /\ SeqSet(todo) = {Head(todo)} \cup SeqSet(todo')
    <3>1. todo \in Seq(S)
      BY <1>0 DEF PackTypeOK, RunTypeOK
    <3> HIDE DEF S
    <3> QED BY <1>0, <2>1, <3>1, HeadTail
  <2>3. RunTypeOK' /\ MemoryTypeOK'
    <3>1. RunTypeOK'
      BY <1>0, <2>1, <2>2, RecipeStays DEF PackTypeOK, RunTypeOK, Places
    <3> QED BY <1>0, <2>1, <3>1 DEF PackTypeOK, MemoryTypeOK
  <2>4. Held'
    <3>1. AllPacked' /\ (job.kind = "materialize" => \A d \in Dests : cursor'[d] = writer'[d].cursor)
      BY <1>0, <1>1, <2>1, SameDirectory DEF Untouched
    <3> QED BY <2>1, <3>1 DEF Held, PackingPlaces, OrderPlaces
  <2>5. Ordered'
    <3>1. \A s : OrderDone(s) => OrderDone(s)'
      BY <1>0, <2>1 DEF OrderDone, OrderValid, Untouched
    <3>2. OrderDone(Head(todo))
      BY <1>0, <1>4 DEF OrderDone
    <3>3. /\ SeqSet(todo) \subseteq SeqSet(Splits) /\ (job.kind = "materialize" => ~job.stop)
          /\ ~job.stop => \A s \in SeqSet(Splits) \ SeqSet(todo) : OrderDone(s)
      BY <1>0, <1>1 DEF Ordered
    <3>4. SeqSet(todo') \subseteq SeqSet(Splits)
      BY <2>2, <3>3
    <3>5. ~job.stop => \A s \in SeqSet(Splits) \ SeqSet(todo') : OrderDone(s)'
      BY <2>2, <3>1, <3>2, <3>3
    <3>6. Certified(provenance["handoff"])'
      BY <1>0, SameDirectory
    <3>7. job' = job
      BY <2>1
    <3> QED BY <2>1, <3>3, <3>4, <3>5, <3>6, <3>7 DEF Ordered, FinalPlaces
  <2> QED BY <1>0, <1>1, <2>1, <2>3, <2>4, <2>5, SameDirectory, PublicationStep DEF Untouched, Fine
<1> QED BY <1>2, <1>3, <1>4

\* In a documented recipe the orders have one maker.
LEMMA MakesOrders ==
    ASSUME IInv, pc \in {"orders", "publish_order"}, recipe # "mixed"
    PROVE  job.kind = Maker
<1>1. Here = pc /\ pc # "down"
  BY DEF Here
<1>2. job.kind = "materialize" => ~job.stop
  BY <1>1 DEF IInv, Ordered
<1> QED BY <1>1, <1>2, JobFacts DEF IInv

\* An order is staged.
LEMMA StageOrderKeeps ==
    ASSUME IInv, StageOrder, recipe' = recipe
    PROVE  IInv' /\ Fine
<1>0. /\ pc = "orders" /\ pc' = "publish_order" /\ Here' = "publish_order"
      /\ todo # <<>> /\ orders[Head(todo)] = None /\ PackTypeOK
      /\ Ordered /\ Staging /\ staging' = staging \cup {<<job.kind, Head(todo)>>}
      /\ UNCHANGED <<recipe, writer, indexFiles, indexManifest, journal, manifest, sidecar>>
      /\ UNCHANGED <<job, outcome, left, todo, fed, stream, shard, cursor, orders, provenance>>
  BY DEF StageOrder, Goto, Here, memory, indexes, Staged, IInv
<1>1. /\ Here = "orders" /\ AllPacked /\ journal # None /\ sidecar = None
      /\ job.kind \in {"materialize", "portable"}
      /\ job.kind = "portable" => journal.phase = "packed"
      /\ job.kind = "materialize" => \A d \in Dests : cursor[d] = writer[d].cursor
  BY <1>0, AtPublication DEF OrderPlaces
<1>2. /\ SeqSet(todo) \subseteq SeqSet(Splits) /\ (job.kind = "materialize" => ~job.stop)
      /\ ~job.stop => \A s \in SeqSet(Splits) \ SeqSet(todo) : OrderDone(s)
  BY <1>0, <1>1 DEF Ordered
<1>3. Head(todo) \in SeqSet(Splits)
  <2> DEFINE S == SeqSet(Splits) \cup {"handoff", "source"}
  <2>1. todo \in Seq(S)
    BY <1>0 DEF PackTypeOK, RunTypeOK
  <2> HIDE DEF S
  <2>2. Head(todo) \in SeqSet(todo)
    BY <1>0, <2>1, HeadTail
  <2> QED BY <1>2, <2>2
<1>4. RunTypeOK' /\ MemoryTypeOK' /\ DirectoryTypeOK'
  <2>1. RunTypeOK'
    BY <1>0, RecipeStays DEF PackTypeOK, RunTypeOK, Places
  <2>2. staging' \subseteq {"materialize", "portable"} \X SeqSet(Splits)
    BY <1>0, <1>1, <1>3 DEF PackTypeOK, DirectoryTypeOK
  <2>3. DirectoryTypeOK'
    BY <1>0, <2>2 DEF PackTypeOK, DirectoryTypeOK
  <2> QED BY <1>0, <2>1, <2>3 DEF PackTypeOK, MemoryTypeOK
<1>5. Held'
  <2>1. AllPacked' /\ (job.kind = "materialize" => \A d \in Dests : cursor'[d] = writer'[d].cursor)
    BY <1>0, <1>1, PublicationStays
  <2> QED BY <1>0, <2>1 DEF Held, PackingPlaces, OrderPlaces
<1>6. Ordered'
  <2>1. \A s : OrderDone(s) => OrderDone(s)'
    BY <1>0 DEF OrderDone, OrderValid
  <2>2. Certified(provenance["handoff"])'
    BY <1>0, PublicationStays DEF Ordered, Certified
  <2>3. ~job.stop => \A s \in SeqSet(Splits) \ SeqSet(todo) : OrderDone(s)'
    BY <1>2, <2>1
  <2> QED BY <1>0, <1>2, <2>2, <2>3 DEF Ordered, FinalPlaces
<1>7. Staging'
  <2>1. ASSUME recipe # "mixed", NEW q \in staging' PROVE q[1] = Maker /\ orders[q[2]] = None
    <3>1. CASE q \in staging
      BY <1>0, <2>1, <3>1 DEF Staging
    <3>2. CASE q = <<job.kind, Head(todo)>>
      <4>1. job.kind = Maker
        BY <1>0, <2>1, MakesOrders
      <4> QED BY <1>0, <3>2, <4>1
    <3> QED BY <1>0, <2>1, <3>1, <3>2
  <2>2. Maker' = Maker /\ recipe' = recipe /\ orders' = orders
    BY <1>0, RecipeStays
  <2> QED BY <2>1, <2>2 DEF Staging
<1> QED BY <1>0, <1>1, <1>4, <1>5, <1>6, <1>7, PublicationStep DEF Fine

\* The head of a list of splits is one, and the tail holds the rest.
LEMMA TodoFacts ==
    ASSUME RunTypeOK, todo # <<>>
    PROVE  /\ Head(todo) \in SeqSet(todo) /\ SeqSet(todo) = {Head(todo)} \cup SeqSet(Tail(todo))
           /\ Tail(todo) \in Seq(SeqSet(Splits) \cup {"handoff", "source"})
<1> DEFINE S == SeqSet(Splits) \cup {"handoff", "source"}
<1>1. todo \in Seq(S)
  BY DEF RunTypeOK
<1> HIDE DEF S
<1>2. Head(todo) \in SeqSet(todo) /\ SeqSet(todo) = {Head(todo)} \cup SeqSet(Tail(todo)) /\ Tail(todo) \in Seq(S)
  BY <1>1, HeadTail
<1> QED BY <1>2 DEF S

\* A staged order takes its place.
LEMMA PublishOrderKeeps ==
    ASSUME IInv, PublishOrder, recipe' = recipe
    PROVE  IInv' /\ Fine
<1> DEFINE h == Head(todo)
           o == Order(h)
<1>0. /\ pc = "publish_order" /\ PackTypeOK /\ Ordered /\ Staging
      /\ orders' = [orders EXCEPT ![h] = o] /\ staging' = staging \ {<<job.kind, h>>}
      /\ todo' = Tail(todo)
      /\ UNCHANGED <<recipe, writer, indexFiles, indexManifest, journal, manifest, sidecar>>
      /\ UNCHANGED <<job, outcome, left, fed, stream, shard, cursor, provenance>>
      /\ Here' = "orders"
  BY DEF PublishOrder, Goto, WriteJournal, Write, Here, indexes, Staged, IInv
<1>1. /\ Here = "publish_order" /\ AllPacked /\ journal # None /\ sidecar = None
      /\ job.kind \in {"materialize", "portable"}
      /\ job.kind = "portable" => journal.phase = "packed"
      /\ job.kind = "materialize" => \A d \in Dests : cursor[d] = writer[d].cursor
  BY <1>0, AtPublication DEF OrderPlaces
<1>2. /\ SeqSet(todo) \subseteq SeqSet(Splits) /\ (job.kind = "materialize" => ~job.stop)
      /\ ~job.stop => \A s \in SeqSet(Splits) \ SeqSet(todo) : OrderDone(s)
      /\ todo # <<>> /\ orders[h] = None
  BY <1>0, <1>1 DEF Ordered
<1>3. /\ h \in SeqSet(Splits) /\ SeqSet(todo) = {h} \cup SeqSet(todo')
      /\ todo' \in Seq(SeqSet(Splits) \cup {"handoff", "source"})
  BY <1>0, <1>2, TodoFacts DEF PackTypeOK
<1>4. o \in Orders /\ o # None
  <2>1. job.geometry \in Geometries \cup {None}
    BY <1>0, JobFacts DEF PackTypeOK
  <2>2. Target[job.kind][h] \in UNION {{Target[k][s] : s \in SeqSet(Splits)} : k \in DOMAIN Target}
    BY <1>1, <1>3, TargetAssumption
  <2>3. \A d \in Dests : writer[d].docs \in Streams
    BY <1>0 DEF PackTypeOK, DirectoryTypeOK
  <2>4. o.packed \in SUBSET (Dests \X Streams)
    BY <2>3 DEF Order
  <2> DEFINE T == UNION {{Target[k][s] : s \in SeqSet(Splits)} : k \in DOMAIN Target}
             P == SUBSET (Dests \X Streams)
  <2>5. Orders = [target : T, geometry : Geometries \cup {None}, packed : P]
    BY DEF Orders
  <2>6. o = [target |-> Target[job.kind][h], geometry |-> IF h = Train THEN job.geometry ELSE None,
             packed |-> o.packed]
    BY DEF Order
  <2>7. o.packed \in P
    BY <2>4
  <2> DEFINE q == o.packed
             t == Target[job.kind][h]
  <2>8. o = [target |-> t, geometry |-> IF h = Train THEN job.geometry ELSE None, packed |-> q]
        /\ q \in P /\ t \in T
    BY <2>2, <2>6, <2>7
  <2> HIDE DEF T, P, o, q, t
  <2>9. o \in Orders
    BY <2>1, <2>5, <2>8
  <2> QED BY <2>9, NoneAssumption
<1>5. o.target = Target[job.kind][h] /\ o.geometry = IF h = Train THEN job.geometry ELSE None
  BY DEF Order
<1>6. orders \in [SeqSet(Splits) -> Orders \cup {None}]
  BY <1>0 DEF PackTypeOK, DirectoryTypeOK
<1> HIDE DEF h, o
<1>7. /\ orders' \in [SeqSet(Splits) -> Orders \cup {None}] /\ orders'[h] = o
      /\ \A s \in SeqSet(Splits) : s # h => orders'[s] = orders[s]
  BY <1>0, <1>3, <1>4, <1>6
<1>8. MemoryTypeOK' /\ DirectoryTypeOK'
  <2>1. DirectoryTypeOK'
    BY <1>0, <1>7 DEF PackTypeOK, DirectoryTypeOK
  <2> QED BY <1>0, <2>1 DEF PackTypeOK, MemoryTypeOK
<1>9. Held'
  <2>1. AllPacked' /\ (job.kind = "materialize" => \A d \in Dests : cursor'[d] = writer'[d].cursor)
    BY <1>0, <1>1, PublicationStays
  <2> QED BY <1>0, <2>1 DEF Held, PackingPlaces, OrderPlaces
<1>10. Ordered'
  <2>1. ~job.stop => \A s \in SeqSet(Splits) \ SeqSet(todo') : OrderDone(s)'
    <3> SUFFICES ASSUME ~job.stop, NEW s \in SeqSet(Splits) \ SeqSet(todo') PROVE OrderDone(s)'
      OBVIOUS
    <3>1. CASE s = h
      BY <1>0, <1>4, <1>5, <1>7, <3>1 DEF OrderDone, OrderValid
    <3>2. CASE s # h
      <4>1. s \in SeqSet(Splits) \ SeqSet(todo)
        BY <1>3, <3>2
      <4>2. OrderDone(s)
        BY <1>2, <4>1
      <4>3. orders'[s] = orders[s]
        BY <1>7, <3>2
      <4> QED BY <1>0, <4>2, <4>3 DEF OrderDone, OrderValid
    <3> QED BY <3>1, <3>2
  <2>2. Certified(provenance["handoff"])'
    BY <1>0, PublicationStays DEF Ordered, Certified
  <2>3. SeqSet(todo') \subseteq SeqSet(Splits)
    BY <1>2, <1>3
  <2>4. job' = job
    BY <1>0
  <2> QED BY <1>0, <1>2, <2>1, <2>2, <2>3, <2>4 DEF Ordered, FinalPlaces
<1>11. Staging'
  <2>1. ASSUME recipe # "mixed", NEW q \in staging' PROVE q[1] = Maker /\ orders'[q[2]] = None
    <3>1. q \in staging /\ q # <<job.kind, h>> /\ q \in {"materialize", "portable"} \X SeqSet(Splits)
      BY <1>0 DEF PackTypeOK, DirectoryTypeOK
    <3>2. q[1] = Maker /\ orders[q[2]] = None
      BY <1>0, <2>1, <3>1 DEF Staging
    <3>3. job.kind = Maker
      BY <1>0, <2>1, MakesOrders
    <3>4. q[2] # h /\ q[2] \in SeqSet(Splits)
      BY <3>1, <3>2, <3>3
    <3> QED BY <1>7, <3>2, <3>4
  <2>2. Maker' = Maker /\ recipe' = recipe
    BY <1>0, RecipeStays
  <2> QED BY <2>1, <2>2 DEF Staging
<1>12. CASE job.kind = "materialize"
  <2>1. pc' = "replace" /\ pending' = [file |-> "journal", value |-> JournalPayload("orders"), then |-> "orders"]
    BY <1>12 DEF PublishOrder, WriteJournal, Write
  <2>2. RunTypeOK'
    BY <1>0, <1>3, <2>1, RecipeStays DEF PackTypeOK, RunTypeOK, Places, Files
  <2>3. pending'.file = "journal" /\ pending'.then = "orders" /\ pending'.value = JournalPayload("orders")
    BY <2>1
  <2>4. /\ JournalPayload("orders") \in Journals /\ JournalPayload("orders").phase = "orders"
        /\ JournalPayload("orders").cursors = cursor
    BY <1>0 DEF PackTypeOK, MemoryTypeOK, JournalPayload, Journals, Phases
  <2>5. Backed(pending.value)'
    <3>1. ASSUME NEW d \in Dests
          PROVE  /\ CursorExact(d, cursor[d]) /\ cursor[d].next <= writer'[d].cursor.next
                 /\ cursor[d] = writer'[d].cursor
      <4>1. CursorExact(d, writer[d].cursor) /\ cursor[d] = writer[d].cursor
        BY <1>1, <1>12 DEF IInv, Durable
      <4>2. cursor[d].next \in Nat
        BY <4>1, IndexCounts, KeptFacts
      <4> QED BY <1>0, <4>1, <4>2
    <3>2. cursor # <<>>
      BY <1>0, DestinationFacts DEF PackTypeOK, MemoryTypeOK
    <3>3. AllPacked'
      BY <1>0, <1>1, PublicationStays
    <3> QED BY <2>3, <2>4, <3>1, <3>2, <3>3 DEF Backed
  <2>6. pending'.value \in Journals /\ job' = job
    BY <1>0, <2>3, <2>4
  <2> QED BY <1>0, <1>1, <1>8, <1>9, <1>10, <1>11, <1>12, <2>1, <2>2, <2>3, <2>5, <2>6, PublicationJournals
          DEF Fine
<1>13. CASE job.kind # "materialize"
  <2>1. pc' = "orders"
    BY <1>13 DEF PublishOrder, Goto
  <2>2. RunTypeOK'
    BY <1>0, <1>3, <2>1, RecipeStays DEF PackTypeOK, RunTypeOK, Places
  <2> QED BY <1>0, <1>1, <1>8, <1>9, <1>10, <1>11, <2>1, <2>2, PublicationStep DEF Fine
<1> QED BY <1>12, <1>13

\* The orders are complete when nothing is left to do.
LEMMA AllOrdersDone ==
    ASSUME IInv, pc = "orders", todo = <<>>, ~job.stop
    PROVE  \A s \in SeqSet(Splits) : OrderDone(s)
<1>1. Here = "orders" /\ SeqSet(todo) = {}
  BY DEF Here, SeqSet
<1> QED BY <1>1 DEF IInv, Ordered

\* The files of the provenance.
LEMMA FilesFacts ==
    ASSUME NEW kind \in {"materialize", "portable"}
    PROVE  /\ ProvenanceFiles(kind) \in Seq(SeqSet(Splits) \cup {"handoff", "source"})
           /\ SeqSet(ProvenanceFiles(kind)) = IF kind = "portable" THEN {"handoff", "source"} ELSE {"source"}
<1>1. CASE kind = "portable"
  BY <1>1 DEF ProvenanceFiles, SeqSet
<1>2. CASE kind # "portable"
  BY <1>2 DEF ProvenanceFiles, SeqSet
<1> QED BY <1>1, <1>2

\* The provenance begins once the orders are complete.
LEMMA ProvenanceBegins ==
    ASSUME IInv, Untouched, pc = "orders", todo = <<>>, ~job.stop,
           pc' = "provenance", todo' = ProvenanceFiles(job.kind),
           UNCHANGED <<job, outcome, left, fed, stream, shard, cursor>>
    PROVE  IInv' /\ Fine
<1>0. Here' = "provenance" /\ PackTypeOK
  BY DEF Here, IInv
<1>1. /\ AllPacked /\ journal # None /\ sidecar = None /\ job.kind \in {"materialize", "portable"}
      /\ job.kind = "portable" => journal.phase = "packed"
      /\ job.kind = "materialize" => \A d \in Dests : cursor[d] = writer[d].cursor
  BY AtPublication DEF OrderPlaces
<1>2. RunTypeOK' /\ MemoryTypeOK'
  <2>1. RunTypeOK'
    BY <1>0, <1>1, FilesFacts, RecipeStays DEF PackTypeOK, RunTypeOK, Places, Untouched
  <2> QED BY <1>0, <2>1 DEF PackTypeOK, MemoryTypeOK
<1>3. Held'
  <2>1. AllPacked' /\ (job.kind = "materialize" => \A d \in Dests : cursor'[d] = writer'[d].cursor)
    BY <1>1, SameDirectory DEF Untouched
  <2> QED BY <1>0, <2>1 DEF Held, PackingPlaces, OrderPlaces
<1>4. Ordered'
  <2>1. \A s \in SeqSet(Splits) : OrderDone(s)'
    BY AllOrdersDone DEF OrderDone, OrderValid, Untouched
  <2>2. Certified(provenance["handoff"])' /\ job' = job /\ todo' = ProvenanceFiles(job'.kind)
    BY SameDirectory
  <2> QED BY <1>0, <2>1, <2>2 DEF Ordered, FinalPlaces
<1> QED BY <1>1, <1>2, <1>3, <1>4, SameDirectory, PublicationStep DEF Untouched, Fine

\* The materializer goes on to the provenance.
LEMMA OrdersDoneKeeps ==
    ASSUME IInv, OrdersDone, recipe' = recipe
    PROVE  IInv' /\ Fine
<1>1. /\ pc = "orders" /\ todo = <<>> /\ pc' = "provenance" /\ todo' = ProvenanceFiles(job.kind)
      /\ Untouched /\ UNCHANGED <<job, outcome, left, fed, stream, shard, cursor>>
  BY DEF OrdersDone, Goto, held, directory, indexes, publication, Untouched
<1>2. ~job.stop
  BY <1>1 DEF OrdersDone, IInv, Ordered, Here
<1> QED BY <1>1, <1>2, ProvenanceBegins

\* The finalizer ends after the held-out orders or goes on to the provenance.
LEMMA OrdersBuiltKeeps ==
    ASSUME IInv, OrdersBuilt, recipe' = recipe
    PROVE  IInv' /\ Fine
<1>1. pc = "orders" /\ todo = <<>> /\ Untouched
  BY DEF OrdersBuilt, directory, indexes, publication, Untouched
<1>2. CASE job.stop
  <2>1. pc' = "down" /\ Forget /\ outcome' = "held_out"
    BY <1>2 DEF OrdersBuilt, End
  <2> QED BY <1>1, <2>1, EndKeeps DEF Fine
<1>3. CASE ~job.stop
  <2>1. /\ pc' = "provenance" /\ todo' = ProvenanceFiles(job.kind)
        /\ UNCHANGED <<job, outcome, left, fed, stream, shard, cursor>>
    BY <1>3 DEF OrdersBuilt, Goto, held
  <2> QED BY <1>1, <1>3, <2>1, ProvenanceBegins
<1> QED BY <1>2, <1>3

\* What holds at the end of the orders.
LEMMA AtFinal ==
    ASSUME IInv, pc \in FinalPlaces
    PROVE  /\ ~job.stop /\ \A s \in SeqSet(Splits) : OrderDone(s)
           /\ (pc # "provenance" \/ todo = <<>>) =>
                 \A f \in SeqSet(ProvenanceFiles(job.kind)) : provenance[f] # None
           /\ pc = "provenance" =>
                 /\ SeqSet(todo) \subseteq SeqSet(ProvenanceFiles(job.kind))
                 /\ \A f \in SeqSet(ProvenanceFiles(job.kind)) \ SeqSet(todo) : provenance[f] # None
<1>1. Here = pc
  BY DEF Here, FinalPlaces
<1>2. SeqSet(<<>>) = {}
  BY DEF SeqSet
<1> QED BY <1>1, <1>2 DEF IInv, Ordered

\* A file of the provenance is written.
LEMMA ProvenanceWritten ==
    ASSUME IInv, pc = "provenance", todo # <<>>, pc' = "provenance", todo' = Tail(todo),
           provenance' = [provenance EXCEPT ![Head(todo)] = Payload(Head(todo))],
           UNCHANGED <<job, outcome, left, fed, stream, shard, cursor>>,
           UNCHANGED <<recipe, writer, indexFiles, indexManifest, journal, orders, staging,
                       manifest, sidecar>>
    PROVE  IInv' /\ Fine
<1> DEFINE h == Head(todo)
<1>0. Here' = "provenance" /\ PackTypeOK /\ Ordered /\ Staging
  BY DEF Here, IInv
<1>1. /\ AllPacked /\ journal # None /\ sidecar = None /\ job.kind \in {"materialize", "portable"}
      /\ job.kind = "portable" => journal.phase = "packed"
      /\ job.kind = "materialize" => \A d \in Dests : cursor[d] = writer[d].cursor
      /\ Backed(journal) /\ journal \in Journals
  BY AtPublication DEF OrderPlaces
<1>2. /\ ~job.stop /\ \A s \in SeqSet(Splits) : OrderDone(s)
      /\ SeqSet(todo) \subseteq SeqSet(ProvenanceFiles(job.kind))
      /\ \A f \in SeqSet(ProvenanceFiles(job.kind)) \ SeqSet(todo) : provenance[f] # None
  BY AtFinal DEF FinalPlaces
<1>3. /\ h \in SeqSet(todo) /\ SeqSet(todo) = {h} \cup SeqSet(todo')
      /\ todo' \in Seq(SeqSet(Splits) \cup {"handoff", "source"})
  BY <1>0, TodoFacts DEF PackTypeOK
<1>4. h \in {"handoff", "source"} /\ (h = "handoff" => job.kind = "portable")
  BY <1>1, <1>2, <1>3, FilesFacts
<1>5. DOMAIN provenance = {"handoff", "source"}
      /\ provenance["handoff"] \in Journals \cup {None} /\ provenance["source"] \in {"source", None}
  <2>1. provenance = [n \in {"handoff", "source"} |-> provenance[n]]
    BY <1>0 DEF PackTypeOK, DirectoryTypeOK
  <2>2. provenance["handoff"] \in Journals \cup {None} /\ provenance["source"] \in {"source", None}
    BY <1>0 DEF PackTypeOK, DirectoryTypeOK
  <2> QED BY <2>1, <2>2
<1>6. Payload("handoff") = journal /\ Payload("source") = "source" /\ None # "source"
  BY NoneAssumption DEF Payload, Payloads
<1> HIDE DEF h
<1>7. /\ provenance' = [n \in {"handoff", "source"} |-> provenance'[n]]
      /\ provenance'[h] = Payload(h) /\ \A n \in {"handoff", "source"} : n # h => provenance'[n] = provenance[n]
  <2>1. provenance' = [provenance EXCEPT ![h] = Payload(h)]
    BY DEF h
  <2>2. provenance = [n \in {"handoff", "source"} |-> provenance[n]]
    BY <1>0 DEF PackTypeOK, DirectoryTypeOK
  <2> QED BY <1>4, <1>5, <2>1, <2>2
<1>8. RunTypeOK' /\ MemoryTypeOK' /\ DirectoryTypeOK'
  <2>1. RunTypeOK'
    BY <1>0, <1>3, RecipeStays DEF PackTypeOK, RunTypeOK, Places
  <2>2. provenance'["handoff"] \in Journals \cup {None} /\ provenance'["source"] \in {"source", None}
    BY <1>1, <1>4, <1>5, <1>6, <1>7
  <2>3. DirectoryTypeOK'
    BY <1>0, <1>7, <2>2 DEF PackTypeOK, DirectoryTypeOK
  <2> QED BY <1>0, <2>1, <2>3 DEF PackTypeOK, MemoryTypeOK
<1>9. Held'
  <2>1. AllPacked' /\ (job.kind = "materialize" => \A d \in Dests : cursor'[d] = writer'[d].cursor)
    BY <1>1, PublicationStays
  <2> QED BY <1>0, <2>1 DEF Held, PackingPlaces, OrderPlaces
<1>10. Certified(provenance["handoff"])'
  <2>1. CASE h = "handoff"
    <3>1. provenance'["handoff"] = journal /\ journal.phase = "packed"
      BY <1>1, <1>4, <1>6, <1>7, <2>1
    <3>2. AllPacked' /\ \A d \in Dests : journal.cursors[d] = writer'[d].cursor
      BY <1>1, <3>1, PublicationStays DEF Backed
    <3> QED BY <1>1, <3>1, <3>2 DEF Certified
  <2>2. CASE h # "handoff"
    <3>1. provenance'["handoff"] = provenance["handoff"]
      BY <1>7, <2>2
    <3>2. Certified(provenance["handoff"])
      BY <1>0 DEF Ordered
    <3>3. AllPacked' <=> AllPacked
      BY PublicationStays
    <3> QED BY <3>1, <3>2, <3>3 DEF Certified
  <2> QED BY <2>1, <2>2
<1>11. Ordered'
  <2>1. \A s \in SeqSet(Splits) : OrderDone(s)'
    BY <1>2 DEF OrderDone, OrderValid
  <2>2. \A f \in SeqSet(ProvenanceFiles(job.kind)) \ SeqSet(todo') : provenance'[f] # None
    <3> TAKE f \in SeqSet(ProvenanceFiles(job.kind)) \ SeqSet(todo')
    <3>1. f \in {"handoff", "source"}
      BY <1>1, FilesFacts
    <3>2. CASE f = h
      BY <1>1, <1>4, <1>6, <1>7, <3>2
    <3>3. CASE f # h
      BY <1>2, <1>3, <1>7, <3>1, <3>3
    <3> QED BY <3>2, <3>3
  <2>3. SeqSet(todo') \subseteq SeqSet(ProvenanceFiles(job.kind))
    BY <1>2, <1>3
  <2>4. job' = job
    OBVIOUS
  <2> QED BY <1>0, <1>2, <1>10, <2>1, <2>2, <2>3, <2>4 DEF Ordered, FinalPlaces
<1>12. Staging'
  <2>1. Maker' = Maker
    BY RecipeStays
  <2> QED BY <1>0, <2>1 DEF Staging
<1> QED BY <1>1, <1>8, <1>9, <1>11, <1>12, PublicationStep DEF Fine

\* The manifest is next once every file of the provenance is there.
LEMMA ProvenanceEnds ==
    ASSUME IInv, Untouched, pc = "provenance", todo = <<>>, Here' = "manifest", pc' # "down",
           UNCHANGED <<job, left, todo, fed, stream, shard, cursor>>
    PROVE  Held' /\ Ordered' /\ MemoryTypeOK' /\ job \in RecipeJobs'
<1>1. /\ AllPacked /\ job.kind \in {"materialize", "portable"}
      /\ job.kind = "materialize" => \A d \in Dests : cursor[d] = writer[d].cursor
  BY AtPublication DEF OrderPlaces
<1>2. /\ ~job.stop /\ \A s \in SeqSet(Splits) : OrderDone(s)
      /\ \A f \in SeqSet(ProvenanceFiles(job.kind)) : provenance[f] # None
  BY AtFinal DEF FinalPlaces
<1>3. Held'
  <2>1. AllPacked' /\ (job.kind = "materialize" => \A d \in Dests : cursor'[d] = writer'[d].cursor)
    BY <1>1, SameDirectory DEF Untouched
  <2> QED BY <2>1 DEF Held, PackingPlaces, OrderPlaces
<1>4. Ordered'
  <2>1. \A s \in SeqSet(Splits) : OrderDone(s)'
    BY <1>2 DEF OrderDone, OrderValid, Untouched
  <2>2. Certified(provenance["handoff"])' /\ job' = job /\ provenance' = provenance
    BY SameDirectory DEF Untouched
  <2> QED BY <1>2, <2>1, <2>2 DEF Ordered, FinalPlaces
<1>5. MemoryTypeOK'
  BY DEF IInv, PackTypeOK, MemoryTypeOK
<1>6. job \in RecipeJobs'
  BY RecipeStays DEF IInv, PackTypeOK, RunTypeOK, Untouched
<1> QED BY <1>3, <1>4, <1>5, <1>6

\* The materializer's provenance, and its journal of phase "finalizing".
LEMMA WriteProvenanceKeeps ==
    ASSUME IInv, WriteProvenance, recipe' = recipe
    PROVE  IInv' /\ Fine
<1>0. /\ pc = "provenance" /\ job.kind = "materialize" /\ PackTypeOK
      /\ UNCHANGED <<recipe, writer, indexFiles, indexManifest, journal, orders, staging,
                     manifest, sidecar>>
      /\ UNCHANGED <<left, fed, stream, cursor, shard>>
  BY DEF WriteProvenance, indexes, IInv
<1>1. CASE todo # <<>>
  <2>1. /\ provenance' = [provenance EXCEPT ![Head(todo)] = Payload(Head(todo))]
        /\ todo' = Tail(todo) /\ pc' = "provenance" /\ job' = job /\ outcome' = outcome
    BY <1>0, <1>1 DEF WriteProvenance, run
  <2> QED BY <1>0, <1>1, <2>1, ProvenanceWritten
<1>2. CASE todo = <<>>
  <2>1. /\ pc' = "replace" /\ Here' = "manifest" /\ Untouched
        /\ pending' = [file |-> "journal", value |-> JournalPayload("finalizing"), then |-> "manifest"]
        /\ UNCHANGED <<job, outcome, left, todo, fed, stream, shard, cursor>>
    BY <1>0, <1>2 DEF WriteProvenance, WriteJournal, Write, Here, Untouched
  <2>2. Held' /\ Ordered' /\ MemoryTypeOK' /\ job \in RecipeJobs'
    BY <1>0, <1>2, <2>1, ProvenanceEnds
  <2>3. RunTypeOK'
    BY <1>0, <2>1, <2>2 DEF PackTypeOK, RunTypeOK, Places, Files
  <2>4. /\ AllPacked /\ journal # None /\ sidecar = None
        /\ \A d \in Dests : cursor[d] = writer[d].cursor
    BY <1>0, AtPublication DEF OrderPlaces
  <2>5. pending'.file = "journal" /\ pending'.then = "manifest" /\ pending'.value = JournalPayload("finalizing")
    BY <2>1
  <2>6. /\ JournalPayload("finalizing") \in Journals /\ JournalPayload("finalizing").phase = "finalizing"
        /\ JournalPayload("finalizing").cursors = cursor
    BY <1>0 DEF PackTypeOK, MemoryTypeOK, JournalPayload, Journals, Phases
  <2>7. Backed(pending.value)'
    <3>1. ASSUME NEW d \in Dests
          PROVE  /\ CursorExact(d, cursor[d]) /\ cursor[d].next <= writer'[d].cursor.next
                 /\ cursor[d] = writer'[d].cursor
      <4>1. CursorExact(d, writer[d].cursor) /\ cursor[d] = writer[d].cursor
        BY <2>4 DEF IInv, Durable
      <4>2. cursor[d].next \in Nat
        BY <4>1, IndexCounts, KeptFacts
      <4> QED BY <1>0, <4>1, <4>2
    <3>2. cursor # <<>>
      BY <1>0, DestinationFacts DEF PackTypeOK, MemoryTypeOK
    <3>3. AllPacked'
      BY <2>1, <2>4, SameDirectory
    <3> QED BY <2>5, <2>6, <3>1, <3>2, <3>3 DEF Backed
  <2>8. pending'.value \in Journals /\ job' = job
    BY <2>1, <2>5, <2>6
  <2> QED BY <1>0, <2>1, <2>2, <2>3, <2>4, <2>5, <2>7, <2>8, SameDirectory, PublicationJournals
          DEF Fine
<1> QED BY <1>1, <1>2

\* The finalizer's provenance: the journal it was handed, and the source.
LEMMA KeepOrWriteProvenanceKeeps ==
    ASSUME IInv, KeepOrWriteProvenance, recipe' = recipe
    PROVE  IInv' /\ Fine
<1>0. /\ pc = "provenance" /\ job.kind = "portable" /\ PackTypeOK
      /\ UNCHANGED <<recipe, writer, indexFiles, indexManifest, journal, orders, staging,
                     manifest, sidecar>>
  BY DEF KeepOrWriteProvenance, indexes, IInv
<1>1. CASE todo = <<>>
  <2>1. /\ pc' = "manifest" /\ Here' = "manifest" /\ Untouched
        /\ UNCHANGED <<job, outcome, left, todo, fed, stream, shard, cursor>>
    BY <1>0, <1>1 DEF KeepOrWriteProvenance, Goto, Here, Untouched, memory
  <2>2. Held' /\ Ordered' /\ MemoryTypeOK' /\ job \in RecipeJobs'
    BY <1>0, <1>1, <2>1, ProvenanceEnds
  <2>3. RunTypeOK'
    BY <1>0, <2>1, <2>2 DEF PackTypeOK, RunTypeOK, Places
  <2>4. AllPacked /\ journal # None /\ sidecar = None /\ journal.phase = "packed"
    BY <1>0, AtPublication DEF OrderPlaces
  <2> QED BY <1>0, <2>1, <2>2, <2>3, <2>4, SameDirectory, PublicationStep DEF Fine
<1>2. CASE todo # <<>> /\ provenance[Head(todo)] \in {None, Payload(Head(todo))}
  <2>1. /\ provenance' = [provenance EXCEPT ![Head(todo)] = Payload(Head(todo))]
        /\ todo' = Tail(todo) /\ pc' = "provenance"
        /\ UNCHANGED <<job, outcome, left, fed, stream, shard, cursor>>
    BY <1>0, <1>2 DEF KeepOrWriteProvenance, run, held
  <2> QED BY <1>0, <1>2, <2>1, ProvenanceWritten
<1>3. CASE todo # <<>> /\ provenance[Head(todo)] \notin {None, Payload(Head(todo))}
  <2>1. pc' = "down" /\ Forget /\ outcome' = "refused" /\ Untouched
    BY <1>0, <1>3 DEF KeepOrWriteProvenance, End, Untouched
  <2> QED BY <2>1, EndKeeps DEF Fine
<1> QED BY <1>1, <1>2, <1>3

\* The finalizer starts from a packing that was handed over.
LEMMA StartKeeps ==
    ASSUME IInv, Start, recipe' = recipe
    PROVE  IInv' /\ Fine
<1>0. pc = "prepare" /\ job.kind = "portable" /\ Untouched /\ PackTypeOK
  BY DEF Start, directory, indexes, publication, Untouched, IInv
<1>1. CASE Complete /\ Goto("validate") /\ UNCHANGED <<memory, pending>>
  <2>1. pc' = "validate" /\ UNCHANGED <<job, outcome, left, todo, fed, stream, shard, cursor>>
    BY <1>1 DEF Goto, memory
  <2> QED BY <1>0, <1>1, <2>1, ValidationBegins DEF Fine
<1>2. CASE /\ ~Complete /\ (manifest # None \/ sidecar = None) /\ Authenticated
           /\ Goto("orders")
           /\ todo' = IF job.stop THEN Tail(Splits) ELSE Append(Tail(Splits), Train)
           /\ UNCHANGED <<left, fed, held>>
  <2>1. /\ pc' = "orders" /\ Here' = "orders"
        /\ todo' = IF job.stop THEN Tail(Splits) ELSE Append(Tail(Splits), Train)
        /\ UNCHANGED <<job, outcome, left, fed, stream, shard, cursor>>
    BY <1>2 DEF Goto, Here, held
  <2>2. AllPacked /\ journal # None /\ journal.phase = "packed"
    BY <1>2 DEF Authenticated, HandedOver, AllPacked
  <2>3. sidecar = None
    BY <1>2 DEF IInv, Manifested, Complete
  <2>4. todo' \in Seq(SeqSet(Splits)) /\ SeqSet(todo') \subseteq SeqSet(Splits)
    <3> DEFINE S == SeqSet(Splits)
    <3>1. todo' \in Seq(S)
      BY <2>1, SplitFacts
    <3> HIDE DEF S
    <3>2. SeqSet(todo') \subseteq S
      BY <3>1, HeadTail
    <3> QED BY <3>1, <3>2 DEF S
  <2>5. ~job.stop => SeqSet(Splits) \subseteq SeqSet(todo')
    BY <2>1, SplitFacts
  <2>6. RunTypeOK' /\ MemoryTypeOK'
    <3>1. todo' \in Seq(SeqSet(Splits) \cup {"handoff", "source"})
      BY <2>4, SplitFacts
    <3>2. RunTypeOK'
      BY <1>0, <2>1, <3>1, RecipeStays DEF PackTypeOK, RunTypeOK, Places, Untouched
    <3> QED BY <1>0, <2>1, <3>2 DEF PackTypeOK, MemoryTypeOK
  <2>7. Held'
    <3>1. AllPacked' /\ job'.kind = "portable"
      BY <1>0, <2>1, <2>2, SameDirectory
    <3> QED BY <2>1, <3>1 DEF Held, PackingPlaces, OrderPlaces
  <2>8. Ordered'
    <3>1. Certified(provenance["handoff"])' /\ job' = job
      BY <1>0, <2>1, SameDirectory
    <3>2. ~job.stop => \A s \in SeqSet(Splits) \ SeqSet(todo') : OrderDone(s)'
      BY <2>5
    <3> QED BY <1>0, <2>1, <2>4, <3>1, <3>2 DEF Ordered, FinalPlaces
  <2> QED BY <1>0, <2>1, <2>2, <2>3, <2>6, <2>7, <2>8, SameDirectory, PublicationStep DEF Untouched, Fine
<1>3. CASE /\ ~Complete /\ ~((manifest # None \/ sidecar = None) /\ Authenticated)
           /\ End("refused") /\ Forget
  <2>1. pc' = "down" /\ outcome' = "refused"
    BY <1>3 DEF End
  <2> QED BY <1>0, <1>3, <2>1, EndKeeps DEF Fine
<1> QED BY <1>1, <1>2, <1>3 DEF Start

\* The final manifest is one.
LEMMA FinalManifestType ==
    ASSUME IInv, pc # "down"
    PROVE  FinalManifest \in Manifests /\ FinalManifest # None
<1>1. job.kind \in {"materialize", "portable"} /\ job.geometry \in Geometries \cup {None}
  BY JobFacts DEF IInv
<1>2. /\ \A d \in Dests : writer[d].docs \in Streams
      /\ indexManifest \in [Dests -> IndexManifests \cup {None}]
      /\ orders \in [SeqSet(Splits) -> Orders \cup {None}]
      /\ provenance = [n \in {"handoff", "source"} |-> provenance[n]]
      /\ provenance["handoff"] \in Journals \cup {None} /\ provenance["source"] \in {"source", None}
  BY DEF IInv, PackTypeOK, DirectoryTypeOK
<1> DEFINE files == SeqSet(ProvenanceFiles(job.kind))
           T == {Target[k] : k \in DOMAIN Target}
           G == Geometries \cup {None}
           A == [Dests -> Streams]
           B == [Dests -> IndexManifests \cup {None}]
           C == [SeqSet(Splits) -> Orders \cup {None}]
           D == [{"handoff", "source"} -> Payloads \cup {None}]
           a == [d \in Dests |-> writer[d].docs]
           e == [n \in DOMAIN provenance |-> IF n \in files THEN provenance[n] ELSE None]
<1>3. Manifests = [configuration : [target : T, geometry : G],
                   contents : [packed : A, index : B, orders : C, provenance : D]]
  BY DEF Manifests
<1>4. FinalManifest = [configuration |-> [target |-> Target[job.kind], geometry |-> job.geometry],
                       contents |-> [packed |-> a, index |-> indexManifest, orders |-> orders,
                                     provenance |-> e]]
  BY DEF FinalManifest, OrderConfiguration, Contents
<1>5. Target[job.kind] \in T /\ job.geometry \in G
  BY <1>1, TargetAssumption
<1>6. a \in A /\ indexManifest \in B /\ orders \in C
  BY <1>2
<1>7. e \in D
  <2>1. DOMAIN provenance = {"handoff", "source"}
    BY <1>2
  <2>2. \A n \in {"handoff", "source"} : provenance[n] \in Payloads \cup {None}
    BY <1>2 DEF Payloads
  <2> HIDE DEF files
  <2> QED BY <2>1, <2>2
<1> HIDE DEF T, G, A, B, C, D, a, e
<1>8. FinalManifest \in Manifests
  BY <1>3, <1>4, <1>5, <1>6, <1>7
<1> QED BY <1>8, NoneAssumption

\* A manifest of this run describes the directory.
LEMMA FinalPublished ==
    ASSUME IInv, pc \in {"sidecar", "checksum"}
    PROVE  manifest # None /\ Published(manifest)
<1>1. manifest = FinalManifest /\ AllPacked /\ job.kind \in {"materialize", "portable"}
  BY AtPublication DEF IInv, Manifested, OrderPlaces
<1>2. manifest # None
  BY <1>1, FinalManifestType
<1>3. /\ ~job.stop /\ \A s \in SeqSet(Splits) : OrderDone(s)
      /\ \A f \in SeqSet(ProvenanceFiles(job.kind)) : provenance[f] # None
  BY AtFinal DEF FinalPlaces
<1> DEFINE files == SeqSet(ProvenanceFiles(job.kind))
<1>4. /\ manifest.contents = Contents(files)
      /\ manifest.configuration.target = Target[job.kind]
      /\ manifest.configuration.geometry = job.geometry
  BY <1>1 DEF FinalManifest, OrderConfiguration
<1>5. Listed(manifest.contents) = files
  <2>1. DOMAIN provenance = {"handoff", "source"}
    BY DEF IInv, PackTypeOK, DirectoryTypeOK
  <2>2. files \subseteq DOMAIN provenance
    BY <1>1, <2>1, FilesFacts
  <2>3. \A n \in DOMAIN provenance : Contents(files).provenance[n] = IF n \in files THEN provenance[n] ELSE None
    BY DEF Contents
  <2>4. \A f \in files : provenance[f] # None
    BY <1>3
  <2> HIDE DEF files
  <2> QED BY <1>4, <2>2, <2>3, <2>4 DEF Listed
<1> HIDE DEF files
<1>6. \A s \in SeqSet(Splits) : orders[s].target = manifest.configuration.target[s]
  BY <1>3, <1>4 DEF OrderDone, OrderValid
<1>7. orders[Train].geometry = manifest.configuration.geometry
  BY <1>3, <1>4, SplitFacts DEF OrderDone, OrderValid
<1> QED BY <1>1, <1>2, <1>4, <1>5, <1>6, <1>7 DEF Published

\* A step of the publication that leaves the directory alone.
LEMMA ManifestMove ==
    ASSUME IInv, Untouched, pc \in {"manifest", "sidecar", "checksum"},
           Here' \in {"sidecar", "checksum", "unlink"}, pc' # "down", job' = job,
           Here' \in {"sidecar", "unlink"} => job.kind = "materialize",
           Here' = "checksum" => job.kind = "portable",
           Here' = "sidecar" => pc # "checksum",
           UNCHANGED <<left, todo, fed, stream, shard, cursor>>
    PROVE  Held' /\ Ordered' /\ MemoryTypeOK' /\ job \in RecipeJobs'
<1>1. /\ AllPacked /\ job.kind \in {"materialize", "portable"}
      /\ (job.kind = "materialize" /\ pc # "checksum") => \A d \in Dests : cursor[d] = writer[d].cursor
  BY AtPublication DEF OrderPlaces
<1>2. /\ ~job.stop /\ \A s \in SeqSet(Splits) : OrderDone(s)
      /\ \A f \in SeqSet(ProvenanceFiles(job.kind)) : provenance[f] # None
  BY AtFinal DEF FinalPlaces
<1>3. Held'
  <2>1. AllPacked' /\ ((job.kind = "materialize" /\ pc # "checksum") => \A d \in Dests : cursor'[d] = writer'[d].cursor)
    BY <1>1, SameDirectory DEF Untouched
  <2> QED BY <2>1 DEF Held, PackingPlaces, OrderPlaces
<1>4. Ordered'
  <2>1. \A s \in SeqSet(Splits) : OrderDone(s)'
    BY <1>2 DEF OrderDone, OrderValid, Untouched
  <2>2. Certified(provenance["handoff"])' /\ provenance' = provenance
    BY SameDirectory DEF Untouched
  <2> QED BY <1>2, <2>1, <2>2 DEF Ordered, FinalPlaces
<1>5. MemoryTypeOK'
  BY DEF IInv, PackTypeOK, MemoryTypeOK
<1>6. job \in RecipeJobs'
  BY RecipeStays DEF IInv, PackTypeOK, RunTypeOK, Untouched
<1> QED BY <1>3, <1>4, <1>5, <1>6

\* A run begins to write the manifest.
LEMMA ManifestBegins ==
    ASSUME IInv, Untouched, pc = "manifest", pc' = "replace", pending'.file = "manifest",
           pending'.value = FinalManifest,
           pending'.then = IF job.kind = "materialize" THEN "sidecar" ELSE "checksum",
           UNCHANGED <<job, left, todo, fed, stream, shard, cursor>>
    PROVE  IInv'
<1>0. /\ Here' = pending'.then /\ ~Writing("journal")' /\ ~Writing("sidecar")'
      /\ PackTypeOK
  BY DEF Here, Writing, IInv
<1>1. AllPacked /\ journal # None /\ sidecar = None /\ job.kind \in {"materialize", "portable"}
      /\ (job.kind = "portable" => journal.phase = "packed")
  BY AtPublication DEF OrderPlaces
<1>2. Held' /\ Ordered' /\ MemoryTypeOK' /\ job \in RecipeJobs'
  BY <1>0, <1>1, ManifestMove
<1>3. RunTypeOK'
  BY <1>0, <1>1, <1>2 DEF PackTypeOK, RunTypeOK, Places, Files, Untouched
<1>4. Journalled'
  <2>1. journal' # None /\ Backed(journal)' /\ (job'.kind = "portable" => journal'.phase = "packed")
    BY <1>1, SameDirectory DEF Untouched
  <2> QED BY <1>0, <2>1 DEF Journalled
<1>5. Manifested'
  <2>1. AllPacked' /\ sidecar' = None
    BY <1>1, SameDirectory DEF Untouched
  <2>2. FinalManifest' = FinalManifest
    BY DEF FinalManifest, OrderConfiguration, Contents, Untouched
  <2>3. pending'.then \in {"sidecar", "checksum"}
    OBVIOUS
  <2> QED BY <1>0, <2>1, <2>2, <2>3 DEF Manifested
<1> QED BY <1>2, <1>3, <1>4, <1>5, SameDirectory DEF IInv, PackTypeOK

\* The materializer writes its manifest.
LEMMA WriteManifestKeeps ==
    ASSUME IInv, WriteManifest, recipe' = recipe
    PROVE  IInv' /\ Fine
<1>1. /\ pc = "manifest" /\ job.kind = "materialize" /\ Untouched /\ pc' = "replace"
      /\ pending' = [file |-> "manifest", value |-> FinalManifest, then |-> "sidecar"]
      /\ UNCHANGED <<job, outcome, left, todo, fed, stream, shard, cursor>>
  BY DEF WriteManifest, Write, memory, directory, indexes, publication, Untouched
<1>2. pending'.file = "manifest" /\ pending'.value = FinalManifest /\ pending'.then = "sidecar"
  BY <1>1
<1> QED BY <1>1, <1>2, ManifestBegins DEF Fine

\* The finalizer writes its manifest, or finds the same one, or is refused.
LEMMA KeepOrWriteManifestKeeps ==
    ASSUME IInv, KeepOrWriteManifest, recipe' = recipe
    PROVE  IInv' /\ Fine
<1>0. pc = "manifest" /\ job.kind = "portable" /\ Untouched /\ PackTypeOK
  BY DEF KeepOrWriteManifest, directory, indexes, publication, Untouched, IInv
<1>1. CASE manifest = None /\ Write("manifest", FinalManifest, "checksum") /\ UNCHANGED memory
  <2>1. /\ pc' = "replace"
        /\ pending' = [file |-> "manifest", value |-> FinalManifest, then |-> "checksum"]
        /\ UNCHANGED <<job, outcome, left, todo, fed, stream, shard, cursor>>
    BY <1>1 DEF Write, memory
  <2>2. pending'.file = "manifest" /\ pending'.value = FinalManifest /\ pending'.then = "checksum"
    BY <2>1
  <2> QED BY <1>0, <2>1, <2>2, ManifestBegins DEF Fine
<1>2. CASE manifest # None /\ manifest = FinalManifest /\ Goto("checksum") /\ UNCHANGED <<memory, pending>>
  <2>0. /\ pc' = "checksum" /\ Here' = "checksum" /\ ~Writing("journal")' /\ ~Writing("manifest")'
        /\ ~Writing("sidecar")'
        /\ UNCHANGED <<job, outcome, left, todo, fed, stream, shard, cursor>>
    BY <1>2 DEF Goto, Here, Writing, memory
  <2>1. AllPacked /\ journal # None /\ sidecar = None /\ journal.phase = "packed"
    BY <1>0, AtPublication DEF OrderPlaces
  <2>2. Held' /\ Ordered' /\ MemoryTypeOK' /\ job \in RecipeJobs'
    BY <1>0, <2>0, ManifestMove
  <2>3. RunTypeOK'
    BY <1>0, <2>0, <2>2 DEF PackTypeOK, RunTypeOK, Places, Untouched
  <2>4. Journalled'
    <3>1. journal' # None /\ Backed(journal)' /\ journal'.phase = "packed"
      BY <1>0, <2>1, SameDirectory DEF Untouched
    <3> QED BY <2>0, <3>1 DEF Journalled
  <2>5. Manifested'
    <3>1. AllPacked' /\ sidecar' = None /\ manifest' = manifest
      BY <1>0, <2>1, SameDirectory DEF Untouched
    <3>2. FinalManifest' = FinalManifest
      BY <1>0, <2>0 DEF FinalManifest, OrderConfiguration, Contents, Untouched
    <3>3. manifest' = FinalManifest'
      BY <1>2, <3>1, <3>2
    <3> QED BY <2>0, <3>1, <3>3 DEF Manifested
  <2> QED BY <1>0, <2>0, <2>2, <2>3, <2>4, <2>5, SameDirectory DEF IInv, PackTypeOK, Fine
<1>3. CASE manifest # None /\ manifest # FinalManifest /\ End("refused") /\ Forget
  <2>1. pc' = "down" /\ outcome' = "refused"
    BY <1>3 DEF End
  <2> QED BY <1>0, <1>3, <2>1, EndKeeps DEF Fine
<1> QED BY <1>1, <1>2, <1>3 DEF KeepOrWriteManifest

\* The checksum of the manifest.
LEMMA SidecarBegins ==
    ASSUME IInv, Untouched, pc \in {"sidecar", "checksum"}, pc' = "replace", pending'.file = "sidecar",
           pending'.value = manifest,
           pending'.then = IF pc = "sidecar" THEN "unlink" ELSE "validate",
           UNCHANGED <<job, left, todo, fed, stream, shard, cursor>>
    PROVE  IInv'
<1>0. /\ Here' = pending'.then /\ ~Writing("journal")' /\ ~Writing("manifest")'
      /\ PackTypeOK /\ Here = pc
  BY DEF Here, Writing, IInv
<1>1. AllPacked /\ journal # None /\ sidecar = None /\ job.kind \in {"materialize", "portable"}
      /\ (pc = "sidecar" => job.kind = "materialize") /\ (pc = "checksum" => job.kind = "portable")
  <2>1. (pc = "sidecar" => job.kind = "materialize") /\ (pc = "checksum" => job.kind = "portable")
    BY <1>0 DEF IInv, Ordered
  <2> QED BY <2>1, AtPublication DEF OrderPlaces
<1>2. Held' /\ Ordered' /\ MemoryTypeOK' /\ job \in RecipeJobs'
  <2>1. CASE pc = "sidecar"
    BY <1>0, <1>1, <2>1, ManifestMove
  <2>2. CASE pc = "checksum"
    <3>1. Here' = "validate"
      BY <1>0, <2>2
    <3>2. Held'
      BY <3>1 DEF Held, PackingPlaces, OrderPlaces
    <3>3. Ordered'
      BY <3>1, SameDirectory DEF Ordered, FinalPlaces
    <3>4. MemoryTypeOK' /\ job \in RecipeJobs'
      BY <2>2, RecipeStays DEF IInv, PackTypeOK, MemoryTypeOK, RunTypeOK, Untouched
    <3> QED BY <3>2, <3>3, <3>4
  <2> QED BY <2>1, <2>2
<1>3. RunTypeOK'
  BY <1>0, <1>1, <1>2 DEF PackTypeOK, RunTypeOK, Places, Files, Untouched
<1>4. Journalled'
  <2>1. journal' # None /\ Backed(journal)'
    BY <1>1, SameDirectory DEF Untouched
  <2>2. Here' \in OrderPlaces => job'.kind = "materialize"
    BY <1>0, <1>1 DEF OrderPlaces
  <2> QED BY <1>0, <2>1, <2>2 DEF Journalled
<1>5. Manifested'
  <2>1. AllPacked' /\ sidecar' = None /\ manifest' = manifest
    BY <1>1, SameDirectory DEF Untouched
  <2>2. manifest # None /\ Published(manifest)'
    BY FinalPublished, SameDirectory
  <2>3. pending'.then \in {"unlink", "validate"}
    OBVIOUS
  <2> QED BY <1>0, <2>1, <2>2, <2>3 DEF Manifested
<1> QED BY <1>2, <1>3, <1>4, <1>5, SameDirectory DEF IInv, PackTypeOK

\* Either program writes the checksum of the manifest that is there.
LEMMA WriteSidecarKeeps ==
    ASSUME IInv, WriteSidecar \/ WriteChecksum, recipe' = recipe
    PROVE  IInv' /\ Fine
<1>1. CASE WriteSidecar
  <2>1. /\ pc = "sidecar" /\ Untouched /\ pc' = "replace"
        /\ pending' = [file |-> "sidecar", value |-> manifest, then |-> "unlink"]
        /\ UNCHANGED <<job, outcome, left, todo, fed, stream, shard, cursor>>
    BY <1>1 DEF WriteSidecar, Write, memory, directory, indexes, publication, Untouched
  <2>2. pending'.file = "sidecar" /\ pending'.value = manifest /\ pending'.then = "unlink"
    BY <2>1
  <2> QED BY <2>1, <2>2, SidecarBegins DEF Fine
<1>2. CASE WriteChecksum
  <2>1. /\ pc = "checksum" /\ Untouched /\ pc' = "replace"
        /\ pending' = [file |-> "sidecar", value |-> manifest, then |-> "validate"]
        /\ UNCHANGED <<job, outcome, left, todo, fed, stream, shard, cursor>>
    BY <1>2 DEF WriteChecksum, Write, memory, directory, indexes, publication, Untouched
  <2>2. pending'.file = "sidecar" /\ pending'.value = manifest /\ pending'.then = "validate"
    BY <2>1
  <2> QED BY <2>1, <2>2, SidecarBegins DEF Fine
<1> QED BY <1>1, <1>2

\* What is packed holds the reference and passes every check.
LEMMA PackedPasses ==
    ASSUME IInv, AllPacked
    PROVE  \A d \in Dests : /\ writer[d].docs = Reference(d) /\ writer[d].cursor.next = Len(Kept)
                            /\ writer[d].cursor.documents = Len(writer[d].docs)
                            /\ CursorValid(d, writer[d].cursor) /\ IndexValid(d, indexManifest[d])
<1> SUFFICES ASSUME NEW d \in Dests
             PROVE  /\ writer[d].docs = Reference(d) /\ writer[d].cursor.next = Len(Kept)
                    /\ writer[d].cursor.documents = Len(writer[d].docs)
                    /\ CursorValid(d, writer[d].cursor) /\ IndexValid(d, indexManifest[d])
  OBVIOUS
<1>a. writer[d].published /\ indexManifest[d] # None
  BY DEF AllPacked
<1>b. Durable /\ Filed
  BY DEF IInv
<1>c. /\ CursorExact(d, writer[d].cursor) /\ writer[d].cursor.next = Len(Kept)
      /\ writer[d].docs = Prefix(d, writer[d].cursor.documents)
      /\ indexManifest[d] = [documents |-> writer[d].cursor.documents,
                             shards |-> writer[d].cursor.index]
  BY <1>a, <1>b DEF Durable
<1>d. /\ indexManifest[d].documents = writer[d].cursor.documents
      /\ indexManifest[d].shards = writer[d].cursor.index
  BY <1>c
<1>1. /\ CursorExact(d, writer[d].cursor) /\ writer[d].cursor.next = Len(Kept)
      /\ writer[d].docs = Prefix(d, writer[d].cursor.documents)
      /\ indexManifest[d].documents = writer[d].cursor.documents
      /\ indexManifest[d].shards = writer[d].cursor.index /\ Filed
  BY <1>b, <1>c, <1>d
<1>2. writer[d].cursor.documents = UpTo(d, Len(Kept))
  BY <1>1 DEF CursorExact
<1>3. writer[d].docs = Reference(d) /\ writer[d].cursor.documents = Len(writer[d].docs)
  BY <1>1, <1>2, ReferenceFacts
<1>4. writer[d].cursor.next \in Nat /\ writer[d].cursor.next <= writer[d].cursor.next
  BY <1>1, KeptFacts
<1>5. CursorValid(d, writer[d].cursor)
  BY <1>1, <1>4, CursorPasses
<1>6. IndexValid(d, indexManifest[d])
  BY <1>1, <1>3, <1>4, CursorPasses
<1> QED BY <1>1, <1>3, <1>5, <1>6

\* The journal goes once the corpus is finished.
LEMMA UnlinkJournalKeeps ==
    ASSUME IInv, UnlinkJournal, recipe' = recipe
    PROVE  IInv' /\ Fine
<1>1. /\ pc = "unlink" /\ journal' = None /\ pc' = "down" /\ outcome' = "complete" /\ Forget
      /\ UNCHANGED <<recipe, writer, indexFiles, indexManifest, orders, staging, provenance,
                     manifest, sidecar>>
  BY DEF UnlinkJournal, End, indexes, publication
<1>2. Complete
  BY <1>1 DEF IInv, Manifested
<1> QED BY <1>1, <1>2, EndFinishes DEF Fine

\* A finished corpus passes the validation of either program.
LEMMA ValidationKeeps ==
    ASSUME IInv, ValidateCompleted \/ ValidatePublished, recipe' = recipe
    PROVE  IInv' /\ Fine
<1>1. /\ pc = "validate" /\ pc' = "down" /\ Forget
      /\ UNCHANGED <<recipe, writer, indexFiles, indexManifest, orders, staging, provenance,
                     manifest, sidecar>>
  BY DEF ValidateCompleted, ValidatePublished, End, indexes, publication
<1>2. Complete /\ sidecar = manifest /\ Described /\ AllPacked
  BY <1>1 DEF IInv, Manifested, Complete, Published, Described
<1>3. \A d \in Dests : IndexValid(d, indexManifest[d])
  BY <1>2, PackedPasses
<1>4. \/ journal' = journal /\ outcome' = "refused"
      \/ journal' = None /\ outcome' = "complete"
  BY <1>2, <1>3 DEF ValidateCompleted, ValidatePublished, End
<1>5. CASE journal' = journal /\ outcome' = "refused"
  BY <1>1, <1>5, EndKeeps DEF Untouched, Fine
<1>6. CASE journal' = None /\ outcome' = "complete"
  BY <1>1, <1>2, <1>6, EndFinishes DEF Fine
<1> QED BY <1>4, <1>5, <1>6

\* A replaced file of the output root: what a write in progress knows holds
\* of the file once it is there.
LEMMA ReplaceFacts ==
    ASSUME IInv, Replace, recipe' = recipe
    PROVE  /\ pc = "replace" /\ pending.file \in Files /\ pending.then \in Places
           /\ pc' = pending.then /\ Here' = Here /\ pc' # "replace" /\ job \in RecipeJobs
           /\ RecipeJobs' = RecipeJobs
           /\ journal' = (IF pending.file = "journal" THEN pending.value ELSE journal)
           /\ manifest' = (IF pending.file = "manifest" THEN pending.value ELSE manifest)
           /\ sidecar' = (IF pending.file = "sidecar" THEN pending.value ELSE sidecar)
           /\ UNCHANGED <<recipe, job, outcome, left, todo, fed, stream, shard, cursor, writer,
                          indexFiles, indexManifest, orders, staging, provenance>>
<1>1. /\ pc = "replace" /\ pc' = pending.then
      /\ journal' = (IF pending.file = "journal" THEN pending.value ELSE journal)
      /\ manifest' = (IF pending.file = "manifest" THEN pending.value ELSE manifest)
      /\ sidecar' = (IF pending.file = "sidecar" THEN pending.value ELSE sidecar)
      /\ UNCHANGED <<recipe, job, outcome, left, todo, fed, stream, shard, cursor, writer,
                     indexFiles, indexManifest, orders, staging, provenance>>
  BY DEF Replace, Goto, memory, indexes
<1>2. pending.file \in Files /\ pending.then \in Places /\ job \in RecipeJobs
  BY <1>1 DEF IInv, PackTypeOK, RunTypeOK
<1>3. pc' # "replace"
  BY <1>1, <1>2 DEF Places
<1>4. Here' = Here
  BY <1>1, <1>3 DEF Here
<1> QED BY <1>1, <1>2, <1>3, <1>4, RecipeStays

\* What a run knows of its memory and of the orders stays so.
LEMMA ReplaceSame ==
    ASSUME IInv, Replace, recipe' = recipe
    PROVE  /\ RunTypeOK' /\ MemoryTypeOK' /\ Durable' /\ Filed' /\ Held' /\ Ordered' /\ Staging'
           /\ (AllPacked' <=> AllPacked)
           /\ (journal' = journal /\ journal # None) => Backed(journal)'
           /\ (Published(manifest) /\ manifest' = manifest) => Published(manifest)'
           /\ provenance["handoff"]' = provenance["handoff"]
<1>1. /\ pc = "replace" /\ pending.file \in Files /\ pending.then \in Places
      /\ pc' = pending.then /\ Here' = Here /\ pc' # "replace" /\ job \in RecipeJobs
      /\ RecipeJobs' = RecipeJobs
      /\ UNCHANGED <<recipe, job, outcome, left, todo, fed, stream, shard, cursor, writer,
                     indexFiles, indexManifest, orders, staging, provenance>>
  BY ReplaceFacts
<1>2. RunTypeOK' /\ MemoryTypeOK'
  BY <1>1 DEF IInv, PackTypeOK, RunTypeOK, MemoryTypeOK
<1>3. Durable' /\ Filed' /\ Staging'
  BY <1>1 DEF IInv, Durable, Filed, Staging, Maker
<1>4. AllPacked' <=> AllPacked
  BY <1>1 DEF AllPacked
<1>5. Held'
  <2>1. Held
    BY DEF IInv
  <2>2. Here' = Here /\ UNCHANGED <<job, left, fed, stream, shard, cursor, writer, indexFiles,
                                    indexManifest>>
    BY <1>1
  <2>3. Lowest' = Lowest /\ Archive' = Archive /\ Eligible' = Eligible
    BY <2>2 DEF Lowest, Archive, Eligible
  <2>4. \A d \in Dests : (Rested(d)' <=> Rested(d)) /\ (Ready(d)' <=> Ready(d))
    BY <2>2 DEF Rested, Ready
  <2>5. left \subseteq Dests
    BY DEF IInv, PackTypeOK, RunTypeOK
  <2> QED BY <1>4, <2>1, <2>2, <2>3, <2>4, <2>5 DEF Held
<1>6. Ordered'
  <2>1. Ordered
    BY DEF IInv
  <2>2. Certified(provenance["handoff"])'
    BY <1>1, <1>4, <2>1 DEF Ordered, Certified
  <2> QED BY <1>1, <2>1, <2>2 DEF Ordered, OrderDone, OrderValid
<1>7. (journal' = journal /\ journal # None) => Backed(journal)'
  BY <1>1, <1>4 DEF IInv, Journalled, Backed
<1>8. (Published(manifest) /\ manifest' = manifest) => Published(manifest)'
  BY <1>1, <1>4 DEF Published, Contents, Listed
<1> QED BY <1>1, <1>2, <1>3, <1>4, <1>5, <1>6, <1>7, <1>8

\* Each kind of file replaced.
LEMMA ReplaceKeeps ==
    ASSUME IInv, Replace, recipe' = recipe
    PROVE  IInv' /\ Fine
<1>1. /\ pc = "replace" /\ pending.file \in Files /\ pc' = pending.then /\ Here' = Here
      /\ pc' # "replace" /\ Here' = pc' /\ Here = pc'
      /\ UNCHANGED <<recipe, job, outcome, left, todo, fed, stream, shard, cursor, writer,
                     indexFiles, indexManifest, orders, staging, provenance>>
      /\ journal' = (IF pending.file = "journal" THEN pending.value ELSE journal)
      /\ manifest' = (IF pending.file = "manifest" THEN pending.value ELSE manifest)
      /\ sidecar' = (IF pending.file = "sidecar" THEN pending.value ELSE sidecar)
  BY ReplaceFacts DEF Here
<1>2. /\ RunTypeOK' /\ MemoryTypeOK' /\ Durable' /\ Filed' /\ Held' /\ Ordered' /\ Staging'
      /\ (AllPacked' <=> AllPacked)
  BY ReplaceSame
<1>3. ~Writing("journal")' /\ ~Writing("manifest")' /\ ~Writing("sidecar")'
  BY <1>1 DEF Writing
<1>4. DirectoryTypeOK /\ Journalled /\ Manifested /\ Ordered
  BY DEF IInv, PackTypeOK
<1>5. sidecar = None
  BY <1>1, <1>4 DEF Manifested
<1>6. CASE pending.file = "journal"
  <2>1. Writing("journal") /\ pending.value \in Journals /\ Backed(pending.value)
        /\ pc' \in {"open", "loop", "packed", "orders", "manifest"} /\ job.kind = "materialize"
    BY <1>1, <1>4, <1>6 DEF Writing, Journalled, Manifested
  <2>2. journal' = pending.value /\ manifest' = manifest /\ sidecar' = sidecar
    BY <1>1, <1>6
  <2>3. journal' \in Journals /\ journal' # None
    BY <2>1, <2>2, NoneAssumption
  <2>4. DirectoryTypeOK'
    BY <1>1, <1>4, <2>3 DEF DirectoryTypeOK
  <2>5. Backed(journal)'
    BY <1>1, <1>2, <2>1, <2>2 DEF Backed
  <2>6. Journalled'
    BY <1>1, <1>3, <2>1, <2>3, <2>5 DEF Journalled
  <2>7. Manifested'
    <3>1. manifest' # None => AllPacked'
      BY <1>2, <1>4, <2>2 DEF Manifested
    <3> QED BY <1>3, <1>5, <2>1, <2>2, <3>1 DEF Manifested
  <2> QED BY <1>1, <1>2, <2>4, <2>6, <2>7 DEF IInv, PackTypeOK, Fine
<1>7. CASE pending.file = "manifest"
  <2>1. Writing("manifest") /\ pending.value = FinalManifest /\ pc' \in {"sidecar", "checksum"}
    BY <1>1, <1>4, <1>7 DEF Writing, Manifested
  <2>2. journal' = journal /\ manifest' = FinalManifest /\ sidecar' = sidecar
    BY <1>1, <1>7, <2>1
  <2>3. FinalManifest' = FinalManifest
    BY <1>1 DEF FinalManifest, OrderConfiguration, Contents
  <2>4. DirectoryTypeOK'
    BY <1>1, <1>4, <2>2 DEF DirectoryTypeOK
  <2>5. AllPacked
    <3>1. Held /\ Here \in OrderPlaces
      BY <1>1, <2>1 DEF IInv, OrderPlaces
    <3> QED BY <3>1 DEF Held
  <2>6. journal # None
    <3> SUFFICES ASSUME journal = None PROVE FALSE
      OBVIOUS
    <3> QED BY <1>1, <1>4, <2>1 DEF Journalled
  <2>7. Journalled'
    <3>1. Backed(journal)'
      BY <2>2, <2>6, ReplaceSame
    <3>2. (pc' \in OrderPlaces /\ job.kind = "portable") => journal.phase = "packed"
      BY <1>1, <1>4 DEF Journalled
    <3> QED BY <1>1, <1>3, <2>1, <2>2, <2>6, <3>1, <3>2 DEF Journalled
  <2>8. Manifested'
    BY <1>2, <1>3, <1>5, <2>1, <2>2, <2>3, <2>5 DEF Manifested
  <2> QED BY <1>1, <1>2, <2>4, <2>7, <2>8 DEF IInv, PackTypeOK, Fine
<1>8. CASE pending.file = "sidecar"
  <2>1. /\ Writing("sidecar") /\ manifest # None /\ pending.value = manifest /\ Published(manifest)
        /\ pc' \in {"unlink", "validate"}
    BY <1>1, <1>4, <1>8 DEF Writing, Manifested
  <2>2. journal' = journal /\ manifest' = manifest /\ sidecar' = manifest
    BY <1>1, <1>8, <2>1
  <2>3. DirectoryTypeOK'
    BY <1>1, <1>4, <2>2 DEF DirectoryTypeOK
  <2>4. journal # None
    <3> SUFFICES ASSUME journal = None PROVE FALSE
      OBVIOUS
    <3> QED BY <1>1, <1>4, <2>1 DEF Journalled
  <2>5. Journalled'
    <3>1. Backed(journal)'
      BY <2>2, <2>4, ReplaceSame
    <3>2. (pc' \in OrderPlaces /\ job.kind = "portable") => journal.phase = "packed"
      BY <1>1, <1>4 DEF Journalled
    <3> QED BY <1>1, <1>3, <2>1, <2>2, <2>4, <3>1, <3>2 DEF Journalled
  <2>6. Manifested'
    <3>1. Published(manifest)'
      BY <2>1, <2>2, ReplaceSame
    <3>2. Complete' /\ manifest' # None /\ AllPacked'
      BY <1>2, <1>4, <2>1, <2>2 DEF Complete, Manifested
    <3> QED BY <1>3, <2>1, <2>2, <3>1, <3>2 DEF Manifested
  <2> QED BY <1>1, <1>2, <2>3, <2>5, <2>6 DEF IInv, PackTypeOK, Fine
<1> QED BY <1>1, <1>6, <1>7, <1>8 DEF Files

-----------------------------------------------------------------------------
(* The behaviours.                                                         *)

\* An empty directory and no run.
LEMMA PackingStarts ==
    ASSUME CorpusInit
    PROVE  IInv /\ Recovers /\ Resumes
<1>1. Init /\ recipe \in {"alone", "handoff", "mixed"}
  BY DEF CorpusInit, PackingInit
<1>2. /\ pc = "down" /\ outcome = None /\ left = {} /\ todo = <<>> /\ fed = 0
      /\ stream = Nothing /\ shard = Nothing /\ cursor = NoCursors
      /\ writer = [d \in Dests |-> [docs |-> <<>>, cursor |-> InitialCursor, published |-> FALSE]]
      /\ indexFiles = <<>> /\ indexManifest = [d \in Dests |-> None] /\ journal = None
      /\ orders = [s \in SeqSet(Splits) |-> None] /\ staging = {}
      /\ provenance = [n \in SeqSet(ProvenanceFiles("portable")) |-> None]
      /\ manifest = None /\ sidecar = None /\ temps = {}
  BY <1>1 DEF Init
<1>3. Here = "down" /\ \A file : ~Writing(file)
  BY <1>2 DEF Here, Writing
<1>4. \A d \in Dests : CursorExact(d, InitialCursor) /\ InitialCursor \in Cursors
                       /\ InitialCursor.next = 0 /\ InitialCursor.documents = 0
  BY CursorStarts DEF CursorExact, InitialCursor
<1>5. \A d \in Dests : Prefix(d, 0) = <<>>
  BY DEF Prefix
<1>6. RunTypeOK
  BY <1>1, <1>2 DEF RunTypeOK, Places
<1>7. MemoryTypeOK
  BY <1>2, <1>4 DEF MemoryTypeOK, Nothing, NoCursors, Streams, Shards
<1>8. DirectoryTypeOK
  <2>1. SeqSet(ProvenanceFiles("portable")) = {"handoff", "source"}
    BY FilesFacts
  <2>2. <<>> \in Streams
    BY DEF Streams
  <2>3. writer \in [Dests -> [docs : Streams, cursor : Cursors, published : BOOLEAN]]
    BY <1>2, <1>4, <2>2
  <2>4. provenance = [n \in {"handoff", "source"} |-> provenance[n]]
        /\ provenance["handoff"] = None /\ provenance["source"] = None
    BY <1>2, <2>1
  <2>5. indexManifest \in [Dests -> IndexManifests \cup {None}] /\ journal \in Journals \cup {None}
        /\ orders \in [SeqSet(Splits) -> Orders \cup {None}]
        /\ staging \subseteq {"materialize", "portable"} \X SeqSet(Splits)
    BY <1>2
  <2> QED BY <2>3, <2>4, <2>5 DEF DirectoryTypeOK
<1>9. Durable
  <2>1. \A d \in Dests : /\ writer[d].cursor = InitialCursor /\ writer[d].docs = <<>>
                         /\ ~writer[d].published /\ indexManifest[d] = None
    BY <1>2
  <2> QED BY <1>4, <1>5, <2>1 DEF Durable
<1>10. Filed /\ DOMAIN indexFiles = {}
  <2>1. DOMAIN indexFiles = {}
    BY <1>2
  <2>2. \A d \in Dests : 1..writer[d].cursor.next = {}
    BY <1>2, <1>4
  <2> QED BY <2>1, <2>2 DEF Filed
<1>11. Held
  BY <1>3 DEF Held, PackingPlaces, OrderPlaces
<1>12. Journalled
  BY <1>2, <1>3, <1>10 DEF Journalled, Blank, OrderPlaces
<1>13. Ordered
  <2>1. provenance["handoff"] = None
    BY <1>2, FilesFacts
  <2> QED BY <1>3, <2>1 DEF Ordered, FinalPlaces, Certified
<1>14. Manifested /\ Staging
  BY <1>2, <1>3 DEF Manifested, Staging
<1>15. Recovers /\ Resumes
  BY <1>2, NoneAssumption DEF Recovers, Resumes, Outcomes
<1> QED BY <1>6, <1>7, <1>8, <1>9, <1>10, <1>11, <1>12, <1>13, <1>14, <1>15 DEF IInv, PackTypeOK

\* A step of a run, whatever the run does.
LEMMA ProgressKeeps ==
    ASSUME IInv, Recovers, Progress \/ PortableProgress, recipe' = recipe
    PROVE  /\ IInv' /\ temps' = temps
           /\ (recipe # "mixed" /\ ~TempSurvives) => Fine
<1>1. CASE Setup
  <2>1. CASE Prepare
    <3>1. temps' = temps
      BY <2>1 DEF Prepare, failures
    <3> QED BY <2>1, <3>1, PrepareKeeps DEF Recovers
  <2>2. CASE OpenDestinations
    <3>1. temps' = temps
      BY <2>2 DEF OpenDestinations, failures
    <3> QED BY <2>2, <3>1, OpenDestinationsKeeps
  <2> QED BY <1>1, <2>1, <2>2 DEF Setup
<1>2. CASE ProcessArchive
  <2>1. temps' = temps
    BY <1>2 DEF ProcessArchive, BeginArchive, FeedDocument, ArchiveRead, PublishIndexShard,
                IndexPublished, CommitWriter, ArchiveCommitted, failures
  <2>2. IInv' /\ Fine
    BY <1>2, BeginArchiveKeeps, FeedDocumentKeeps, ArchiveReadKeeps, PublishIndexShardKeeps,
       IndexPublishedKeeps, CommitWriterKeeps, ArchiveCommittedKeeps DEF ProcessArchive
  <2> QED BY <2>1, <2>2
<1>3. CASE FinishPacking
  <2>1. temps' = temps
    BY <1>3 DEF FinishPacking, BeginFinish, FinishWriter, WritersFinished, FinishDocumentIndex,
                Packed, StopAfterPacking, failures
  <2>2. IInv' /\ Fine
    BY <1>3, BeginFinishKeeps, FinishWriterKeeps, WritersFinishedKeeps, FinishDocumentIndexKeeps,
       PackedKeeps, StopAfterPackingKeeps DEF FinishPacking
  <2> QED BY <2>1, <2>2
<1>4. CASE Finalize
  <2>1. temps' = temps
    BY <1>4 DEF Finalize, ReuseOrder, StageOrder, PublishOrder, OrdersDone, WriteProvenance,
                WriteManifest, WriteSidecar, UnlinkJournal, ValidateCompleted, failures
  <2>2. IInv' /\ (recipe # "mixed" => Fine)
    BY <1>4, ReuseOrderKeeps, StageOrderKeeps, PublishOrderKeeps, OrdersDoneKeeps,
       WriteProvenanceKeeps, WriteManifestKeeps, WriteSidecarKeeps, UnlinkJournalKeeps,
       ValidationKeeps DEF Finalize
  <2> QED BY <2>1, <2>2
<1>5. CASE Replace
  <2>1. temps' = temps
    BY <1>5 DEF Replace, failures
  <2> QED BY <1>5, <2>1, ReplaceKeeps
<1>6. CASE PortableProgress
  <2>1. temps' = temps
    BY <1>6 DEF PortableProgress, Start, OrdersBuilt, KeepOrWriteProvenance, KeepOrWriteManifest,
                WriteChecksum, ValidatePublished, failures
  <2>2. IInv' /\ Fine
    BY <1>6, StartKeeps, OrdersBuiltKeeps, KeepOrWriteProvenanceKeeps, KeepOrWriteManifestKeeps,
       WriteSidecarKeeps, ValidationKeeps DEF PortableProgress
  <2> QED BY <2>1, <2>2
<1> QED BY <1>1, <1>2, <1>3, <1>4, <1>5, <1>6 DEF Progress

\* The invariant does not look at anything else.
LEMMA StutterKeeps ==
    ASSUME IInv, UNCHANGED <<vars, recipe>>
    PROVE  IInv' /\ temps' = temps /\ outcome' = outcome /\ recipe' = recipe
<1>1. UNCHANGED <<pc, job, outcome, left, todo, fed, stream, cursor, shard, pending, writer,
                  indexFiles, indexManifest, journal, orders, staging, provenance, manifest,
                  sidecar, temps, recipe>>
  BY DEF vars, run, memory, directory, indexes, publication, failures
<1>2. Here' = Here /\ \A file : Writing(file)' <=> Writing(file)
  BY <1>1 DEF Here, Writing
<1>3. RecipeJobs' = RecipeJobs /\ Maker' = Maker
  BY <1>1, RecipeStays
<1>4. Untouched
  BY <1>1 DEF Untouched
<1>5. /\ Durable' /\ Filed' /\ Staging' /\ DirectoryTypeOK'
      /\ (AllPacked' <=> AllPacked) /\ (Complete' <=> Complete) /\ (Blank' <=> Blank)
      /\ (journal # None => Backed(journal)')
      /\ (Published(manifest)' <=> Published(manifest))
      /\ Certified(provenance["handoff"])'
  BY <1>4, SameDirectory
<1>6. RunTypeOK' /\ MemoryTypeOK'
  BY <1>1, <1>3 DEF IInv, PackTypeOK, RunTypeOK, MemoryTypeOK
<1>7. Held'
  <2>1. Held
    BY DEF IInv
  <2>2. Lowest' = Lowest /\ Archive' = Archive /\ Eligible' = Eligible
    BY <1>1 DEF Lowest, Archive, Eligible
  <2>3. \A d \in Dests : (Rested(d)' <=> Rested(d)) /\ (Ready(d)' <=> Ready(d))
    BY <1>1 DEF Rested, Ready
  <2>4. left \subseteq Dests
    BY DEF IInv, PackTypeOK, RunTypeOK
  <2> QED BY <1>1, <1>2, <1>5, <2>1, <2>2, <2>3, <2>4 DEF Held
<1>8. Journalled'
  <2>1. Journalled
    BY DEF IInv
  <2>2. Writing("journal") => Backed(pending.value)'
    BY <1>1, <1>5, <2>1 DEF Journalled, Backed
  <2> QED BY <1>1, <1>2, <1>5, <2>1, <2>2 DEF Journalled
<1>9. Ordered'
  <2>1. Ordered
    BY DEF IInv
  <2> QED BY <1>1, <1>2, <1>5, <2>1 DEF Ordered, OrderDone, OrderValid
<1>10. Manifested'
  <2>1. Manifested
    BY DEF IInv
  <2>2. FinalManifest' = FinalManifest
    BY <1>1 DEF FinalManifest, OrderConfiguration, Contents
  <2> QED BY <1>1, <1>2, <1>5, <2>1, <2>2 DEF Manifested
<1> QED BY <1>1, <1>5, <1>6, <1>7, <1>8, <1>9, <1>10 DEF IInv, PackTypeOK

\* Every step of the composition.
LEMMA PackingSteps ==
    ASSUME IInv, Recovers, Resumes, [CorpusNext]_corpusVars
    PROVE  IInv' /\ Recovers' /\ Resumes'
<1>1. CASE UNCHANGED <<vars, recipe>>
  BY <1>1, StutterKeeps DEF Recovers, Resumes
<1>2. CASE PackingNext
  <2>1. recipe' = recipe
    BY <1>2 DEF PackingNext
  <2>2. CASE \E j \in RecipeJobs : Launch(j)
    <3>1. PICK j \in RecipeJobs : Launch(j)
      BY <2>2
    <3>2. temps' = temps
      BY <3>1 DEF Launch, failures
    <3> QED BY <2>1, <3>1, <3>2, LaunchKeeps DEF Recovers, Resumes, Fine
  <2>3. CASE Progress \/ PortableProgress
    BY <2>1, <2>3, ProgressKeeps DEF Recovers, Resumes, Fine
  <2>4. CASE ControlledStop \/ Crash
    <3>1. Recovers => Recovers'
      BY <2>4 DEF ControlledStop, Crash, Recovers
    <3> QED BY <2>1, <2>4, <3>1, StopKeeps DEF Resumes, Fine
  <2> QED BY <1>2, <2>2, <2>3, <2>4 DEF PackingNext
<1> QED BY <1>1, <1>2 DEF CorpusNext, corpusVars

\* The invariant holds in every reachable state of the composition of the
\* materializer, the finalizer and the cache, for any archives, destinations,
\* geometries and interruptions.
THEOREM PackingInvariant == CorpusSpec => [](IInv /\ Recovers /\ Resumes)
<1>1. CorpusInit => IInv /\ Recovers /\ Resumes
  BY PackingStarts
<1>2. IInv /\ Recovers /\ Resumes /\ [CorpusNext]_corpusVars => (IInv /\ Recovers /\ Resumes)'
  BY PackingSteps
<1> QED BY <1>1, <1>2, PTL DEF CorpusSpec

-----------------------------------------------------------------------------
(* What follows from the invariant.                                        *)

\* The documents a writer has committed.
LEMMA Committed ==
    ASSUME IInv, NEW d \in Dests
    PROVE  /\ writer[d].cursor.next \in 0..Len(Kept)
           /\ Len(writer[d].docs) = UpTo(d, writer[d].cursor.next) /\ Len(writer[d].docs) \in Nat
           /\ Len(writer[d].docs) <= Len(Reference(d))
           /\ writer[d].published => writer[d].docs = Reference(d)
<1>1. /\ CursorExact(d, writer[d].cursor)
      /\ writer[d].docs = Prefix(d, writer[d].cursor.documents)
      /\ writer[d].published => writer[d].cursor.next = Len(Kept)
  BY DEF IInv, Durable
<1>2. /\ writer[d].cursor.next \in 0..Len(Kept)
      /\ writer[d].cursor.documents = UpTo(d, writer[d].cursor.next)
  BY <1>1, IndexCounts
<1>3. UpTo(d, writer[d].cursor.next) \in Nat
      /\ UpTo(d, writer[d].cursor.next) <= UpTo(d, Len(Kept))
  BY PlaceEnds
<1>4. Len(Reference(d)) = UpTo(d, Len(Kept)) /\ Prefix(d, UpTo(d, Len(Kept))) = Reference(d)
      /\ \A n \in Nat : Len(Prefix(d, n)) = n
  BY ReferenceFacts
<1> QED BY <1>1, <1>2, <1>3, <1>4

\* A published writer holds the kept documents, an index their places.
LEMMA PublishedReference == IInv => PublishedIsReference
<1> SUFFICES ASSUME IInv, NEW d \in Dests
             PROVE  /\ writer[d].published => writer[d].docs = Reference(d)
                    /\ indexManifest[d] # None =>
                          /\ indexManifest[d].documents = Len(Reference(d))
                          /\ \A i \in 1..Len(indexManifest[d].shards) :
                               LET m == indexManifest[d].shards
                               IN  \A k \in 1..Len(m[i].rows) :
                                     m[i].rows[k] = <<Reference(d)[RowsBefore(m, i) + k],
                                                      RowsBefore(m, i) + k - 1>>
  BY DEF PublishedIsReference
<1>1. writer[d].published => writer[d].docs = Reference(d)
  BY Committed
<1>2. ASSUME indexManifest[d] # None
      PROVE  /\ indexManifest[d].documents = Len(Reference(d))
             /\ \A i \in 1..Len(indexManifest[d].shards) :
                  LET m == indexManifest[d].shards
                  IN  \A k \in 1..Len(m[i].rows) :
                        m[i].rows[k] = <<Reference(d)[RowsBefore(m, i) + k],
                                         RowsBefore(m, i) + k - 1>>
  <2> DEFINE c == writer[d].cursor
  <2>1. Durable
    BY DEF IInv
  <2>2. /\ CursorExact(d, c) /\ c.next = Len(Kept)
        /\ indexManifest[d] = [documents |-> c.documents, shards |-> c.index]
    BY <1>2, <2>1 DEF Durable
  <2>3. indexManifest[d].documents = c.documents /\ indexManifest[d].shards = c.index
    BY <2>2
  <2>4. c.documents = UpTo(d, Len(Kept))
    BY <2>2 DEF CursorExact
  <2>5. ASSUME NEW i \in 1..Len(c.index), NEW k \in 1..Len(c.index[i].rows)
        PROVE  c.index[i].rows[k] = <<Reference(d)[RowsBefore(c.index, i) + k],
                                      RowsBefore(c.index, i) + k - 1>>
    <3> DEFINE a == c.index[i].archive
    <3>1. c.index[i].rows = ShardRows(d, a) /\ RowsBefore(c.index, i) = UpTo(d, a - 1)
      BY <2>2 DEF CursorExact, IndexExact
    <3>2. a \in Archives
      BY <2>2, IndexCounts
    <3>3. DOMAIN ShardRows(d, a) = 1..(UpTo(d, a) - UpTo(d, a - 1))
          /\ Len(ShardRows(d, a)) = UpTo(d, a) - UpTo(d, a - 1)
      BY <3>2, ShardFacts
    <3>4. k \in 1..(UpTo(d, a) - UpTo(d, a - 1))
      BY <3>1, <3>3
    <3>5. ShardRows(d, a)[k] = <<Reference(d)[UpTo(d, a - 1) + k], UpTo(d, a - 1) + k - 1>>
      BY <3>4 DEF ShardRows, RowsFrom
    <3> QED BY <3>1, <3>5
  <2> HIDE DEF c
  <2> QED BY <2>3, <2>4, <2>5, ReferenceFacts
<1> QED BY <1>1, <1>2

\* A finished corpus and the journal that vouches for it.
LEMMA PublicationExactly == IInv => PublicationExact
<1> SUFFICES ASSUME IInv PROVE PublicationExact
  OBVIOUS
<1>1. PublicationConsistent
  <2> SUFFICES ASSUME Complete
               PROVE  /\ sidecar = manifest /\ Described
                      /\ orders[Train].geometry = manifest.configuration.geometry
                      /\ \A s \in SeqSet(Splits) : orders[s].target = manifest.configuration.target[s]
    BY DEF PublicationConsistent
  <2>1. sidecar = manifest /\ Published(manifest)
    BY DEF IInv, Manifested, Complete
  <2> QED BY <2>1 DEF Published, Described
<1>2. JournalBacked
  <2> SUFFICES ASSUME journal # None
               PROVE  /\ \A d \in DOMAIN journal.cursors :
                            journal.cursors[d].next <= writer[d].cursor.next
                      /\ journal.phase \in {"packed", "orders", "finalizing"} =>
                            \A d \in Dests : writer[d].published /\ indexManifest[d] # None
                                             /\ journal.cursors[d] = writer[d].cursor
    BY DEF JournalBacked
  <2>1. Backed(journal) /\ journal \in Journals
    BY DEF IInv, PackTypeOK, DirectoryTypeOK, Journalled
  <2>2. journal.cursors \in [Dests -> Cursors] \cup {<<>>}
    BY <2>1 DEF Journals
  <2>3. CASE journal.cursors = <<>>
    BY <2>1, <2>3 DEF Backed
  <2>4. CASE journal.cursors # <<>>
    <3>1. DOMAIN journal.cursors = Dests
      BY <2>2, <2>4
    <3> QED BY <2>1, <2>4, <3>1 DEF Backed, AllPacked
  <2> QED BY <2>3, <2>4
<1>3. ASSUME Complete, manifest.contents.provenance["handoff"] # None
      PROVE  /\ provenance["handoff"].phase = "packed"
             /\ \A d \in Dests : writer[d].published
                                 /\ provenance["handoff"].cursors[d] = writer[d].cursor
  <2>1. manifest.contents = Contents(Listed(manifest.contents))
    BY <1>3 DEF IInv, Manifested, Complete, Published
  <2>2. "handoff" \in DOMAIN provenance
    BY DEF IInv, PackTypeOK, DirectoryTypeOK
  <2>3. manifest.contents.provenance =
          [n \in DOMAIN provenance |-> IF n \in Listed(manifest.contents) THEN provenance[n] ELSE None]
    <3> HIDE DEF Listed
    <3> DEFINE L == Listed(manifest.contents)
    <3>1. Contents(L).provenance =
            [n \in DOMAIN provenance |-> IF n \in L THEN provenance[n] ELSE None]
      BY DEF Contents
    <3> QED BY <2>1, <3>1
  <2>4. provenance["handoff"] # None
    BY <1>3, <2>2, <2>3
  <2>5. Certified(provenance["handoff"])
    BY DEF IInv, Ordered
  <2> QED BY <2>4, <2>5 DEF Certified, AllPacked
<1>4. HandoffExact
  BY <1>2, <1>3 DEF HandoffExact
<1> QED BY <1>1, <1>4 DEF PublicationExact

\* Cursors that are all at the end count as the end.
LEMMA CountedAtEnd ==
    ASSUME NEW cursors, cursors # <<>>, \A d \in Dests : cursors[d].next = Len(Kept)
    PROVE  Counted(cursors) = Len(Kept)
<1>1. {cursors[d].next : d \in Dests} = {Len(Kept)}
  BY DestinationFacts
<1>2. \A n \in {Len(Kept)} : n = Len(Kept) /\ \A d \in Dests : n <= cursors[d].next
  BY KeptFacts
<1> QED BY <1>1, <1>2 DEF Counted

\* The orchestrator calls complete what is, and refuses no packing that a run
\* could advance.
LEMMA InspectionExact == IInv => OrchestratorExact
<1> SUFFICES ASSUME IInv PROVE OrchestratorExact
  OBVIOUS
<1>1. ASSUME InspectMaterialization = "complete", NEW d \in Dests
      PROVE  writer[d].published /\ writer[d].docs = Reference(d)
  <2>1. CASE ~UnknownOutputs /\ (manifest # None \/ sidecar # None)
    <3>1. InspectMaterialization = FinalizedInspection
      BY <2>1 DEF InspectMaterialization
    <3>2. Complete
      BY <1>1, <3>1 DEF FinalizedInspection
    <3>3. AllPacked
      BY <3>2 DEF IInv, Manifested, Complete
    <3> QED BY <3>3, PackedPasses DEF AllPacked
  <2>2. CASE ~UnknownOutputs /\ manifest = None /\ sidecar = None
    <3>1. CASE OrderState
      BY <1>1, <2>2, <3>1 DEF InspectMaterialization
    <3>2. CASE ~OrderState /\ journal = None
      BY <1>1, <2>2, <3>2 DEF InspectMaterialization, WaitingOr
    <3>3. CASE ~OrderState /\ journal # None
      <4>1. CASE journal.phase = "packed" /\ Counted(journal.cursors) = Len(Kept)
        <5>1. InspectMaterialization = PackedInspection
          BY <2>2, <3>3, <4>1 DEF InspectMaterialization
        <5>2. writer[d].published
          BY <1>1, <5>1 DEF PackedInspection
        <5> QED BY <5>2, Committed
      <4>2. CASE ~(journal.phase = "packed" /\ Counted(journal.cursors) = Len(Kept))
        <5>1. InspectMaterialization \in {PackingInspection, "refused"}
          BY <2>2, <3>3, <4>2 DEF InspectMaterialization
        <5>2. PackingInspection # "complete"
          BY DEF PackingInspection, WaitingOr
        <5> QED BY <1>1, <5>1, <5>2
      <4> QED BY <4>1, <4>2
    <3> QED BY <3>1, <3>2, <3>3
  <2>3. CASE UnknownOutputs
    BY <1>1, <2>3 DEF InspectMaterialization
  <2> QED BY <2>1, <2>2, <2>3
<1>2. ASSUME ~LockHeld, temps = {}, manifest = None, ~OrderState,
             journal = None \/ journal.phase \in {"packing", "packed"}
      PROVE  InspectMaterialization \in {"ready", "resumable", "complete"}
  <2>1. ~UnknownOutputs
    BY <1>2 DEF UnknownOutputs, LockHeld
  <2>2. sidecar = None
    BY <1>2 DEF IInv, Manifested
  <2>3. \A status : WaitingOr(status) = status
    BY <1>2 DEF WaitingOr
  <2>4. CASE journal = None
    BY <1>2, <2>1, <2>2, <2>3, <2>4 DEF InspectMaterialization
  <2>5. CASE journal # None
    <3>1. Backed(journal)
      BY <2>5 DEF IInv, Journalled
    <3>2. CASE journal.phase = "packed"
      <4>1. AllPacked /\ journal.cursors # <<>>
            /\ \A d \in Dests : journal.cursors[d] = writer[d].cursor
        BY <3>1, <3>2 DEF Backed
      <4>2. \A d \in Dests : /\ writer[d].cursor.next = Len(Kept)
                             /\ writer[d].cursor.documents = Len(writer[d].docs)
                             /\ CursorValid(d, writer[d].cursor)
                             /\ IndexValid(d, indexManifest[d])
        BY <4>1, PackedPasses
      <4>3. Counted(journal.cursors) = Len(Kept)
        <5>1. \A d \in Dests : journal.cursors[d].next = Len(Kept)
          BY <4>1, <4>2
        <5> QED BY <4>1, <5>1, CountedAtEnd
      <4>4. InspectMaterialization = PackedInspection
        BY <1>2, <2>1, <2>2, <2>5, <3>2, <4>3 DEF InspectMaterialization
      <4>5. PackedInspection = "complete"
        BY <2>3, <4>1, <4>2 DEF PackedInspection, TerminalCursor, AllPacked
      <4> QED BY <4>4, <4>5
    <3>3. CASE journal.phase = "packing"
      <4>1. InspectMaterialization = PackingInspection
        BY <1>2, <2>1, <2>2, <2>5, <3>3 DEF InspectMaterialization
      <4>2. journal.cursors = <<>> \/ \A d \in Dests : CursorValid(d, journal.cursors[d])
        <5> SUFFICES ASSUME journal.cursors # <<>>, NEW d \in Dests
                     PROVE  CursorValid(d, journal.cursors[d])
          OBVIOUS
        <5>1. /\ CursorExact(d, journal.cursors[d])
              /\ journal.cursors[d].next <= writer[d].cursor.next
          BY <3>1 DEF Backed
        <5>2. writer[d].cursor.next \in Nat /\ Filed
          BY Committed DEF IInv
        <5> QED BY <5>1, <5>2, CursorPasses
      <4> QED BY <2>3, <4>1, <4>2 DEF PackingInspection
    <3> QED BY <1>2, <2>5, <3>2, <3>3
  <2> QED BY <2>4, <2>5
<1> QED BY <1>1, <1>2 DEF OrchestratorExact

\* Only two steps touch the writers.
LEMMA OthersLeaveWriters ==
    ASSUME [CorpusNext]_corpusVars, writer' # writer
    PROVE  CommitWriter \/ FinishWriter
<1>1. PackingNext
  BY DEF CorpusNext, corpusVars, vars, directory
<1>2. (\E j \in RecipeJobs : Launch(j)) => writer' = writer
  BY DEF Launch, directory
<1>3. Setup \/ Replace \/ ControlledStop \/ Crash \/ PortableProgress => writer' = writer
  BY DEF Setup, Prepare, OpenDestinations, Replace, ControlledStop, Crash, PortableProgress, Start,
         OrdersBuilt, KeepOrWriteProvenance, KeepOrWriteManifest, WriteChecksum, ValidatePublished,
         directory
<1>4. Finalize => writer' = writer
  BY DEF Finalize, ReuseOrder, StageOrder, PublishOrder, OrdersDone, WriteProvenance,
         WriteManifest, WriteSidecar, UnlinkJournal, ValidateCompleted, directory
<1>5. ProcessArchive => CommitWriter \/ writer' = writer
  BY DEF ProcessArchive, BeginArchive, FeedDocument, ArchiveRead, PublishIndexShard,
         IndexPublished, ArchiveCommitted, directory
<1>6. FinishPacking => FinishWriter \/ writer' = writer
  BY DEF FinishPacking, BeginFinish, WritersFinished, FinishDocumentIndex, Packed,
         StopAfterPacking, directory
<1> QED BY <1>1, <1>2, <1>3, <1>4, <1>5, <1>6 DEF PackingNext, Progress

\* A writer commits longer prefixes, and what it has published stays.
LEMMA WriterMoves ==
    ASSUME IInv, [CorpusNext]_corpusVars, NEW d \in Dests
    PROVE  /\ writer[d].cursor.next <= writer'[d].cursor.next
           /\ writer[d].published => /\ writer'[d].published
                                     /\ writer'[d].docs = writer[d].docs
<1>0. writer[d].cursor.next \in Nat /\ writer[d].cursor.next \in 0..Len(Kept)
  BY Committed
<1>1. CASE writer' = writer
  BY <1>0, <1>1
<1>2. CASE writer' # writer
  <2>0. writer \in [Dests -> [docs : Streams, cursor : Cursors, published : BOOLEAN]]
    BY DEF IInv, PackTypeOK, DirectoryTypeOK
  <2>1. CASE CommitWriter
    <3> DEFINE e == NextDestination
    <3>1. /\ pc = "commit" /\ left # {}
          /\ writer' = [writer EXCEPT ![e].docs = stream[e], ![e].cursor = Advanced(e)]
      BY <2>1 DEF CommitWriter
    <3>2. e \in left
      BY <3>1, NextFacts DEF IInv, PackTypeOK, RunTypeOK
    <3> HIDE DEF e
    <3>3. CASE d = e
      <4>1. Here = "commit" /\ Held
        BY <3>1 DEF Here, IInv
      <4>2. Ready(d)
        BY <3>2, <3>3, <4>1 DEF Held
      <4>3. cursor[d].next < Len(Kept) /\ cursor[d] = writer[d].cursor
        BY <3>1, <4>2, AtPacking DEF Ready, PackingPlaces
      <4>4. ~writer[d].published
        <5>1. writer[d].published => writer[d].cursor.next = Len(Kept)
          BY DEF IInv, Durable
        <5> QED BY <4>3, <5>1, <1>0, KeptFacts
      <4>5. Archive = cursor[d].next + 1
        <5>1. Ready(d) /\ cursor \in [Dests -> Cursors]
          BY <4>2 DEF IInv, PackTypeOK, MemoryTypeOK
        <5>2. \A f \in Dests : cursor[d].next <= cursor[f].next
          BY <4>2 DEF Ready
        <5> QED BY <5>1, <5>2, LowestIs DEF Archive
      <4>6. writer'[d].cursor = Advanced(d)
        BY <2>0, <3>1, <3>3
      <4>7. Advanced(d).next = Archive
        BY DEF Advanced
      <4> QED BY <1>0, <4>3, <4>4, <4>5, <4>6, <4>7
    <3>4. CASE d # e
      <4>1. writer'[d] = writer[d]
        BY <2>0, <3>1, <3>4
      <4> QED BY <1>0, <4>1
    <3> QED BY <3>3, <3>4
  <2>2. CASE FinishWriter
    <3> DEFINE e == NextDestination
    <3>1. /\ pc = "finish" /\ left # {}
          /\ writer' = [writer EXCEPT ![e] = [docs |-> stream[e], cursor |-> cursor[e],
                                              published |-> TRUE]]
      BY <2>2 DEF FinishWriter
    <3> HIDE DEF e
    <3>2. CASE d = e
      <4>1. Here = "finish" /\ Held
        BY <3>1 DEF Here, IInv
      <4>2. stream[d] = writer[d].docs
        BY <4>1 DEF Held, Rested
      <4>3. cursor[d] = writer[d].cursor
        BY <3>1, AtPacking DEF PackingPlaces
      <4>4. writer'[d] = [docs |-> stream[d], cursor |-> cursor[d], published |-> TRUE]
        BY <2>0, <3>1, <3>2
      <4>5. /\ writer'[d].docs = stream[d] /\ writer'[d].cursor = cursor[d]
            /\ writer'[d].published
        BY <4>4
      <4> QED BY <1>0, <4>2, <4>3, <4>5
    <3>3. CASE d # e
      <4>1. writer'[d] = writer[d]
        BY <2>0, <3>1, <3>3
      <4> QED BY <1>0, <4>1
    <3> QED BY <3>2, <3>3
  <2> QED BY <1>2, <2>1, <2>2, OthersLeaveWriters
<1> QED BY <1>1, <1>2

\* Each step of a writer is one that PackedStream allows.
LEMMA WriterImplements ==
    ASSUME IInv, IInv', [CorpusNext]_corpusVars, NEW d \in Dests
    PROVE  Writer(d)!Next \/ UNCHANGED Writer(d)!avars
<1>1. /\ writer[d].cursor.next <= writer'[d].cursor.next
      /\ writer[d].published => writer'[d].published /\ writer'[d].docs = writer[d].docs
  BY WriterMoves
<1>2. /\ writer[d].cursor.next \in 0..Len(Kept)
      /\ Len(writer[d].docs) = UpTo(d, writer[d].cursor.next) /\ Len(writer[d].docs) \in Nat
      /\ Len(writer[d].docs) <= Len(Reference(d))
  BY Committed
<1>3. /\ writer'[d].cursor.next \in 0..Len(Kept)
      /\ Len(writer'[d].docs) = UpTo(d, writer'[d].cursor.next) /\ Len(writer'[d].docs) \in Nat
      /\ Len(writer'[d].docs) <= Len(Reference(d))
      /\ writer'[d].published => writer'[d].docs = Reference(d)
  <2>1. /\ CursorExact(d, writer'[d].cursor)
        /\ writer'[d].docs = Prefix(d, writer'[d].cursor.documents)
        /\ writer'[d].published => writer'[d].cursor.next = Len(Kept)
    BY DEF IInv, Durable
  <2>2. /\ writer'[d].cursor.next \in 0..Len(Kept)
        /\ writer'[d].cursor.documents = UpTo(d, writer'[d].cursor.next)
    BY <2>1, IndexCounts
  <2>3. UpTo(d, writer'[d].cursor.next) \in Nat
        /\ UpTo(d, writer'[d].cursor.next) <= UpTo(d, Len(Kept))
    BY <2>2, KeptFacts, PlaceEnds
  <2>4. Len(Reference(d)) = UpTo(d, Len(Kept)) /\ Prefix(d, UpTo(d, Len(Kept))) = Reference(d)
        /\ \A n \in Nat : Len(Prefix(d, n)) = n
    BY ReferenceFacts
  <2> QED BY <2>1, <2>2, <2>3, <2>4
<1>4. Len(writer[d].docs) <= Len(writer'[d].docs)
  <2>1. writer'[d].cursor.next \in (writer[d].cursor.next)..Len(Kept)
    BY <1>1, <1>2, <1>3, KeptFacts
  <2> QED BY <1>2, <1>3, <2>1, PlaceEnds
<1>5. Len(Reference(d)) \in Nat
  BY ReferenceFacts
<1>6. CASE writer[d].published
  <2>1. writer'[d].published /\ Len(writer'[d].docs) = Len(writer[d].docs)
    BY <1>1, <1>6
  <2>2. Writer(d)!avars = <<Len(writer[d].docs), Stream(d)!Packing(Len(writer[d].docs))>>
    BY <1>6 DEF Writer!avars
  <2>3. Writer(d)!avars' = <<Len(writer'[d].docs), Stream(d)!Packing(Len(writer'[d].docs))>>
    BY <2>1 DEF Writer!avars
  <2> QED BY <2>1, <2>2, <2>3
<1>7. CASE ~writer[d].published /\ ~writer'[d].published
  <2>1. Len(writer'[d].docs) \in Len(writer[d].docs)..Len(Reference(d))
    BY <1>2, <1>3, <1>4, <1>5
  <2> QED BY <1>7, <2>1 DEF Writer!Next, Writer!Commit
<1>8. CASE ~writer[d].published /\ writer'[d].published
  <2>1. Len(writer'[d].docs) = Len(Reference(d))
    BY <1>3, <1>8
  <2>2. Writer(d)!Packing(Len(Reference(d))) = Stream(d)!Packing(Len(Reference(d)))
    BY DEF Writer!Packing, Writer!RowsIn, Writer!ShardsFor, Writer!RowRange, Writer!Row, Writer!Span,
           Stream!Packing, Stream!RowsIn, Stream!ShardsFor, Stream!RowRange, Stream!Row, Stream!Span
  <2> QED BY <1>8, <2>1, <2>2 DEF Writer!Next, Writer!Publish
<1> QED BY <1>6, <1>7, <1>8

\* A writer begins as PackedStream does.
LEMMA WriterBegins ==
    ASSUME CorpusInit, NEW d \in Dests
    PROVE  Writer(d)!Init
<1>1. writer[d] = [docs |-> <<>>, cursor |-> InitialCursor, published |-> FALSE]
  BY DEF CorpusInit, PackingInit, Init
<1>2. writer[d].docs = <<>> /\ ~writer[d].published
  BY <1>1
<1>3. Len(writer[d].docs) = 0
  BY <1>2
<1> QED BY <1>2, <1>3 DEF Writer!Init

\* Only the publication of an order touches the orders.
LEMMA OrdersStay ==
    ASSUME IInv, [CorpusNext]_corpusVars, NEW s \in SeqSet(Splits), orders[s] # None
    PROVE  orders'[s] = orders[s]
<1>1. CASE orders' = orders
  BY <1>1
<1>2. CASE orders' # orders
  <2>1. PackingNext
    BY <1>2 DEF CorpusNext, corpusVars, vars, directory, publication
  <2>2. (\E j \in RecipeJobs : Launch(j)) => orders' = orders
    BY DEF Launch, directory, publication
  <2>3. Setup \/ Replace \/ ControlledStop \/ Crash \/ PortableProgress => orders' = orders
    BY DEF Setup, Prepare, OpenDestinations, Replace, ControlledStop, Crash, PortableProgress,
           Start, OrdersBuilt, KeepOrWriteProvenance, KeepOrWriteManifest, WriteChecksum,
           ValidatePublished, directory, publication
  <2>4. Finalize => PublishOrder \/ orders' = orders
    BY DEF Finalize, ReuseOrder, StageOrder, OrdersDone, WriteProvenance, WriteManifest,
           WriteSidecar, UnlinkJournal, ValidateCompleted, directory, publication
  <2>5. ProcessArchive \/ FinishPacking => orders' = orders
    BY DEF ProcessArchive, BeginArchive, FeedDocument, ArchiveRead, PublishIndexShard,
           IndexPublished, CommitWriter, ArchiveCommitted, FinishPacking, BeginFinish,
           FinishWriter, WritersFinished, FinishDocumentIndex, Packed, StopAfterPacking,
           directory, publication
  <2>6. PublishOrder
    BY <1>2, <2>1, <2>2, <2>3, <2>4, <2>5 DEF PackingNext, Progress
  <2>7. pc = "publish_order" /\ orders' = [orders EXCEPT ![Head(todo)] = Order(Head(todo))]
    BY <2>6 DEF PublishOrder
  <2>8. orders[Head(todo)] = None
    BY <2>7 DEF IInv, Ordered, Here
  <2>9. orders \in [SeqSet(Splits) -> Orders \cup {None}]
    BY DEF IInv, PackTypeOK, DirectoryTypeOK
  <2> QED BY <2>7, <2>8, <2>9
<1> QED BY <1>1, <1>2

-----------------------------------------------------------------------------
(* Theorems.                                                               *)

\* Every published packing holds the kept documents of its destination once,
\* in order, and its index names their places (_process_archive,
\* _DocumentIndexShardWriter.finish).
THEOREM PublishedAlwaysReference == CorpusSpec => []PublishedIsReference
<1>1. IInv /\ Recovers /\ Resumes => PublishedIsReference
  BY PublishedReference
<1> QED BY <1>1, PackingInvariant, PTL

\* A finished corpus is consistent in itself and certifies the packing it was
\* made from, whichever runs of either program with whichever geometries came
\* before (_final_manifest, _provenance_payloads, _validate_completed).
THEOREM PublicationStaysExact == CorpusSpec => []PublicationExact
<1>1. IInv /\ Recovers /\ Resumes => PublicationExact
  BY PublicationExactly
<1> QED BY <1>1, PackingInvariant, PTL

\* What the orchestrator calls complete is complete, and it refuses no packing
\* that a run could advance (_inspect_materialization).
THEOREM InspectionStaysExact == CorpusSpec => []OrchestratorExact
<1>1. IInv /\ Recovers /\ Resumes => OrchestratorExact
  BY InspectionExact
<1> QED BY <1>1, PackingInvariant, PTL

\* Unless a hard kill leaves a temporary in the output root, neither recipe
\* ever meets a state that its own checks or the orchestrator call damaged
\* (_prepare_output, _validate_cursor, _inspect_materialization).
THEOREM AlwaysResumes ==
    ASSUME ~TempSurvives
    PROVE  CorpusSpec => []AlwaysResumable
<1>1. IInv /\ Recovers /\ Resumes => AlwaysResumable
  BY InspectionExact DEF Resumes, AlwaysResumable, RecipeNeverRefuses, ResumeNeverRefuses
<1> QED BY <1>1, PackingInvariant, PTL

\* Every writer implements PackedStream, and an order that is there is never
\* replaced (PackedShardWriter.checkpoint and finish, _build_orders).
THEOREM PublishedStaysFinal == CorpusSpec => PublishedIsFinal
<1>1. CorpusInit => \A d \in Dests : Writer(d)!Init
  BY WriterBegins
<1>2. (IInv /\ Recovers /\ Resumes) /\ (IInv /\ Recovers /\ Resumes)' /\ [CorpusNext]_corpusVars
        => [\A d \in Dests : Writer(d)!Next \/ UNCHANGED Writer(d)!avars]_vars
  BY WriterImplements
<1>3. (IInv /\ Recovers /\ Resumes) /\ [CorpusNext]_corpusVars
        => [\A s \in SeqSet(Splits) : orders[s] # None => orders'[s] = orders[s]]_vars
  BY OrdersStay
<1> QED BY <1>1, <1>2, <1>3, PackingInvariant, PTL
        DEF CorpusSpec, PublishedIsFinal, WritersPromised

-----------------------------------------------------------------------------
(* The raw token cache: how many tokens some documents have, and where.    *)
Spots(a, from, to) == UNION {{i} \X (1 .. Counts[a][i]) : i \in from + 1 .. to}
Documented(a) == Len(Counts[a])

\* The archives of the cache and the counts of their documents.
LEMMA RawFacts ==
    /\ Len(RawArchives) \in Nat /\ DOMAIN RawArchives = 1..Len(RawArchives)
    /\ \A i \in 1..Len(RawArchives) : RawArchives[i] \in Raw!All
    /\ \A a \in Raw!All : \E i \in 1..Len(RawArchives) : RawArchives[i] = a
    /\ \A a \in Raw!All : /\ Documented(a) \in Nat /\ DOMAIN Counts[a] = 1..Documented(a)
                          /\ \A i \in 1..Documented(a) : Counts[a][i] \in Nat
<1>1. Raw!All = {RawArchives[i] : i \in DOMAIN RawArchives}
  BY DEF Raw!All, Raw!ToSet
<1>2. /\ RawArchives \in Seq(Raw!All) /\ \A a \in Raw!All : Counts[a] \in Seq(Nat)
  BY RawAssumption
<1>3. Len(RawArchives) \in Nat /\ DOMAIN RawArchives = 1..Len(RawArchives)
  BY <1>2
<1>4. ASSUME NEW a \in Raw!All
      PROVE  /\ Documented(a) \in Nat /\ DOMAIN Counts[a] = 1..Documented(a)
             /\ \A i \in 1..Documented(a) : Counts[a][i] \in Nat
  <2>1. Counts[a] \in Seq(Nat)
    BY <1>2
  <2> QED BY <2>1 DEF Documented
<1> QED BY <1>1, <1>3, <1>4

\* The instance counts as the library does.
LEMMA RawCounts == \A S : Raw!Cardinality(S) = Cardinality(S)
BY DEF Cardinality, Raw!Cardinality

\* Sizes are numbers, nothing has none, and they add up.
LEMMA RawSizes ==
    ASSUME NEW a \in Raw!All
    PROVE  /\ \A f, t \in 0..Documented(a) : Raw!Size(a, f, t) \in Nat
           /\ \A f \in 0..Documented(a) : Raw!Size(a, f, f) = 0
           /\ \A f, k, t \in 0..Documented(a) : f <= k /\ k <= t =>
                Raw!Size(a, f, t) = Raw!Size(a, f, k) + Raw!Size(a, k, t)
           /\ \A i \in 1..Documented(a) : Raw!Size(a, i - 1, i) = Counts[a][i]
<1> DEFINE n == Documented(a)
           block == [i \in 1..n |-> {i} \X (1 .. Counts[a][i])]
<1>1. n \in Nat /\ \A i \in 1..n : Counts[a][i] \in Nat
  BY RawFacts
<1>2. \A f, t : Raw!Size(a, f, t) = Cardinality(Spots(a, f, t))
  BY RawCounts DEF Raw!Size, Spots
<1>3. ASSUME NEW i \in 1..n PROVE IsFiniteSet(block[i]) /\ Cardinality(block[i]) = Counts[a][i]
  <2>1. IsFiniteSet({i}) /\ Cardinality({i}) = 1
    BY FS_Singleton
  <2>2. IsFiniteSet(1..Counts[a][i]) /\ Cardinality(1..Counts[a][i]) = Counts[a][i]
    <3> DEFINE c == Counts[a][i]
    <3>1. c \in Nat /\ c \in Int /\ 1 \in Int
      BY <1>1
    <3> HIDE DEF c
    <3>2. IsFiniteSet(1..c) /\ Cardinality(1..c) = IF 1 > c THEN 0 ELSE c - 1 + 1
      BY <3>1, FS_Interval
    <3>3. Cardinality(1..c) = c
      BY <3>1, <3>2
    <3> QED BY <3>2, <3>3 DEF c
  <2>3. /\ IsFiniteSet({i} \X (1..Counts[a][i]))
        /\ Cardinality({i} \X (1..Counts[a][i])) = Cardinality({i}) * Cardinality(1..Counts[a][i])
    BY <2>1, <2>2, FS_Product
  <2>4. Cardinality({i} \X (1..Counts[a][i])) = Counts[a][i]
    BY <1>1, <2>1, <2>2, <2>3
  <2> QED BY <2>3, <2>4
<1>4. ASSUME NEW f \in 0..n, NEW t \in 0..n
      PROVE  IsFiniteSet(Spots(a, f, t)) /\ \A x : x \in Spots(a, f, t) <=> \E i \in f + 1 .. t : x \in block[i]
  <2>1. f + 1 .. t \subseteq 1..n
    BY <1>1
  <2>2. IsFiniteSet(f + 1 .. t)
    <3>1. f + 1 \in Int /\ t \in Int
      BY <1>1
    <3> QED BY <3>1, FS_Interval
  <2>3. Spots(a, f, t) = UNION {block[i] : i \in f + 1 .. t}
    BY <2>1 DEF Spots
  <2>4. IsFiniteSet(UNION {block[i] : i \in f + 1 .. t})
    <3> HIDE DEF block
    <3> QED BY <1>3, <2>1, <2>2, FiniteUnion
  <2>5. \A x : x \in UNION {block[i] : i \in f + 1 .. t} <=> \E i \in f + 1 .. t : x \in block[i]
    OBVIOUS
  <2> QED BY <2>3, <2>4, <2>5
<1>5. ASSUME NEW f \in 0..n, NEW t \in 0..n PROVE Raw!Size(a, f, t) \in Nat
  BY <1>2, <1>4, FS_CardinalityType
<1>6. ASSUME NEW f \in 0..n PROVE Raw!Size(a, f, f) = 0
  <2>1. f + 1 .. f = {}
    BY <1>1
  <2>2. Spots(a, f, f) = {}
    BY <1>4, <2>1
  <2> QED BY <1>2, <2>2, FS_EmptySet
<1>7. ASSUME NEW i \in 1..n PROVE Raw!Size(a, i - 1, i) = Counts[a][i]
  <2>1. i - 1 \in 0..n /\ i \in 0..n /\ (i - 1) + 1 .. i = {i}
    BY <1>1
  <2>2. Spots(a, i - 1, i) = block[i]
    <3> HIDE DEF block, n
    <3> QED BY <1>4, <2>1
  <2> QED BY <1>2, <1>3, <2>2
<1>8. ASSUME NEW f \in 0..n, NEW k \in 0..n, NEW t \in 0..n, f <= k, k <= t
      PROVE  Raw!Size(a, f, t) = Raw!Size(a, f, k) + Raw!Size(a, k, t)
  <2>1. \A i : i \in f + 1 .. t <=> i \in f + 1 .. k \/ i \in k + 1 .. t
    BY <1>1, <1>8
  <2>2. Spots(a, f, t) = Spots(a, f, k) \cup Spots(a, k, t)
    <3> HIDE DEF block, n
    <3> QED BY <1>4, <2>1
  <2>3. ASSUME NEW x \in Spots(a, f, k), x \in Spots(a, k, t) PROVE FALSE
    <3>1. PICK i \in f + 1 .. k : x \in block[i]
      BY <1>4
    <3>2. PICK j \in k + 1 .. t : x \in block[j]
      BY <1>4, <2>3
    <3>3. i \in 1..n /\ j \in 1..n /\ i # j
      BY <1>1
    <3>4. x[1] = i /\ x[1] = j
      BY <3>1, <3>2, <3>3
    <3> QED BY <3>3, <3>4
  <2>4. Spots(a, f, k) \cap Spots(a, k, t) = {}
    BY <2>3
  <2>5. Cardinality(Spots(a, f, k) \cup Spots(a, k, t))
          = Cardinality(Spots(a, f, k)) + Cardinality(Spots(a, k, t)) - Cardinality({})
    BY <1>4, <2>4, FS_Union
  <2>6. Cardinality({}) = 0
    BY FS_EmptySet
  <2>7. Raw!Size(a, f, t) = Raw!Size(a, f, k) + Raw!Size(a, k, t) - 0
    BY <1>2, <2>2, <2>5, <2>6
  <2>8. Raw!Size(a, f, k) \in Nat /\ Raw!Size(a, k, t) \in Nat
    BY <1>5
  <2> QED BY <2>7, <2>8
<1> HIDE DEF block
<1> QED BY <1>5, <1>6, <1>7, <1>8

\* Sizes grow with the documents.
LEMMA RawGrows ==
    ASSUME NEW a \in Raw!All, NEW f \in 0..Documented(a), NEW k \in f..Documented(a), NEW t \in k..Documented(a)
    PROVE  /\ Raw!Size(a, f, k) \in Nat /\ Raw!Size(a, f, t) \in Nat /\ Raw!Size(a, k, t) \in Nat
           /\ Raw!Size(a, f, t) = Raw!Size(a, f, k) + Raw!Size(a, k, t)
           /\ Raw!Size(a, f, k) <= Raw!Size(a, f, t)
<1>1. Documented(a) \in Nat
  BY RawFacts
<1>2. f \in 0..Documented(a) /\ k \in 0..Documented(a) /\ t \in 0..Documented(a) /\ f <= k /\ k <= t
  BY <1>1
<1>3. /\ Raw!Size(a, f, k) \in Nat /\ Raw!Size(a, f, t) \in Nat /\ Raw!Size(a, k, t) \in Nat
      /\ Raw!Size(a, f, t) = Raw!Size(a, f, k) + Raw!Size(a, k, t)
  BY <1>2, RawSizes
<1> QED BY <1>3

\* Every position belongs to one document, and to one place in it.
LEMMA RawPlaces ==
    ASSUME NEW a \in Raw!All, NEW f \in 0..Documented(a), NEW t \in f..Documented(a),
           NEW p \in 1..Raw!Size(a, f, t)
    PROVE  \E i \in f + 1 .. t : \E j \in 1..Counts[a][i] : p = Raw!Size(a, f, i - 1) + j
<1> DEFINE S == {i \in f..t : p <= Raw!Size(a, f, i)}
           size(i) == Raw!Size(a, f, i)
<1>1. /\ Documented(a) \in Nat /\ f \in Nat /\ t \in Nat /\ f <= t /\ t <= Documented(a)
      /\ size(f) = 0 /\ size(t) \in Nat
  BY RawFacts, RawSizes
<1>2. t \in S /\ S \subseteq Nat
  BY <1>1
<1>3. PICK i \in S : \A m \in S : i <= m
  BY <1>2, LeastNatural
<1>4. i \in f..t /\ p <= size(i) /\ p \in Nat /\ p > 0
  BY <1>1
<1>5. i # f /\ i \in f + 1 .. t /\ i - 1 \in f..t /\ i - 1 \notin S
  <2>1. i # f
    BY <1>1, <1>4
  <2>2. i \in f + 1 .. t /\ i - 1 \in f..t /\ ~(i <= i - 1)
    BY <1>1, <1>4, <2>1
  <2> QED BY <1>3, <2>1, <2>2
<1>6. size(i - 1) \in Nat /\ size(i) = size(i - 1) + Counts[a][i] /\ Counts[a][i] \in Nat /\ p > size(i - 1)
  <2>1. f \in 0..Documented(a) /\ i - 1 \in 0..Documented(a) /\ i \in 0..Documented(a) /\ i \in 1..Documented(a)
        /\ f <= i - 1 /\ i - 1 <= i
    BY <1>1, <1>5
  <2>2. size(i) = size(i - 1) + Raw!Size(a, i - 1, i) /\ size(i - 1) \in Nat
        /\ Raw!Size(a, i - 1, i) = Counts[a][i]
    BY <2>1, RawSizes
  <2>3. Counts[a][i] \in Nat
    BY <2>1, RawFacts
  <2>4. ~(p <= size(i - 1))
    BY <1>5
  <2> HIDE DEF size, S
  <2> QED BY <1>4, <2>2, <2>3, <2>4
<1> DEFINE j == p - size(i - 1)
<1>7. j \in 1..Counts[a][i] /\ p = size(i - 1) + j
  <2> HIDE DEF size
  <2> QED BY <1>4, <1>6
<1> QED BY <1>5, <1>7

\* And the token there is that place's.
LEMMA RawTokens ==
    ASSUME NEW a \in Raw!All, NEW x, NEW f \in 0..Documented(a), NEW t \in f..Documented(a),
           NEW i \in f + 1 .. t, NEW j \in 1..Counts[a][i]
    PROVE  LET p == Raw!Size(a, f, i - 1) + j
           IN  p \in 1..Raw!Size(a, f, t) /\ Raw!Encode(a, x, f, t)[p] = <<x, i, j>>
<1> DEFINE size(k) == Raw!Size(a, f, k)
           p == size(i - 1) + j
           In(k) == p \in size(k - 1) + 1 .. size(k)
<1>1. /\ Documented(a) \in Nat /\ f \in Nat /\ t \in Nat /\ f <= t /\ t <= Documented(a)
      /\ i \in Nat /\ f < i /\ i <= t
  BY RawFacts
<1>2. \A k \in f..t : \A m \in k..t : size(k) \in Nat /\ size(m) \in Nat /\ size(k) <= size(m)
  <2>1. ASSUME NEW k \in f..t, NEW m \in k..t PROVE size(k) \in Nat /\ size(m) \in Nat /\ size(k) <= size(m)
    <3>1. k \in f..Documented(a) /\ m \in k..Documented(a)
      BY <1>1
    <3> QED BY <3>1, RawGrows
  <2> QED BY <2>1
<1>3. i - 1 \in f..t /\ i \in (i - 1)..t /\ t \in i..t /\ i \in f..t
  BY <1>1
<1>4. size(i) = size(i - 1) + Counts[a][i] /\ Counts[a][i] \in Nat /\ j \in Nat /\ 1 <= j /\ j <= Counts[a][i]
  <2>1. f \in 0..Documented(a) /\ i - 1 \in 0..Documented(a) /\ i \in 0..Documented(a) /\ i \in 1..Documented(a)
        /\ f <= i - 1 /\ i - 1 <= i
    BY <1>1
  <2>2. size(i) = size(i - 1) + Raw!Size(a, i - 1, i) /\ Raw!Size(a, i - 1, i) = Counts[a][i]
    BY <2>1, RawSizes
  <2>3. Counts[a][i] \in Nat
    BY <2>1, RawFacts
  <2>4. j \in Nat /\ 1 <= j /\ j <= Counts[a][i]
    BY <2>3
  <2> HIDE DEF size
  <2> QED BY <2>2, <2>3, <2>4
<1>5. size(i - 1) \in Nat /\ size(i) \in Nat /\ size(i) <= size(t) /\ size(t) \in Nat
  BY <1>2, <1>3
<1>6. p \in 1..size(t) /\ In(i)
  <2> HIDE DEF size
  <2> QED BY <1>4, <1>5
<1>7. ASSUME NEW k \in f + 1 .. t, In(k) PROVE k = i
  <2>1. k - 1 \in f..t /\ k \in f..t /\ k \in Nat
    BY <1>1
  <2>2. k < i => k \in f..t /\ i - 1 \in k..t
    BY <1>1, <2>1
  <2>3. i < k => i \in f..t /\ k - 1 \in i..t
    BY <1>1, <2>1
  <2>4. k < i => size(k) \in Nat /\ size(k) <= size(i - 1)
    BY <1>2, <2>2
  <2>5. i < k => size(k - 1) \in Nat /\ size(i) <= size(k - 1)
    BY <1>2, <2>3
  <2>6. size(k - 1) \in Nat /\ size(k) \in Nat
    <3>1. t \in (k - 1)..t /\ t \in k..t
      BY <1>1, <2>1
    <3> QED BY <1>2, <2>1, <3>1
  <2> HIDE DEF size
  <2> QED BY <1>1, <1>4, <1>5, <1>6, <1>7, <2>1, <2>4, <2>5, <2>6
<1> DEFINE c == Raw!DocumentAt(a, f, t, p)
<1>8. c = i
  <2>1. \E k \in f + 1 .. t : In(k)
    BY <1>6
  <2> DEFINE ch == CHOOSE k \in f + 1 .. t : In(k)
  <2>2. ch \in f + 1 .. t /\ In(ch)
    <3> HIDE DEF In
    <3> QED BY <2>1
  <2>3. c = ch
    BY DEF Raw!DocumentAt
  <2> HIDE DEF c, In, ch
  <2> QED BY <1>7, <2>2, <2>3
<1> HIDE DEF c
<1>9. Raw!Encode(a, x, f, t) = [q \in 1..size(t) |->
         <<x, Raw!DocumentAt(a, f, t, q), q - Raw!Size(a, f, Raw!DocumentAt(a, f, t, q) - 1)>>]
  BY DEF Raw!Encode
<1>10. Raw!Encode(a, x, f, t)[p] = <<x, c, p - Raw!Size(a, f, c - 1)>>
  BY <1>6, <1>9 DEF c
<1>11. p - size(i - 1) = j
  <2> HIDE DEF size
  <2> QED BY <1>4, <1>5
<1>12. Raw!Encode(a, x, f, t)[p] = <<x, i, p - size(i - 1)>>
  BY <1>8, <1>10
<1> QED BY <1>6, <1>11, <1>12

\* A sequence is the function of its elements, and such functions are sequences.
LEMMA SeqIs ==
    ASSUME NEW n \in Nat, NEW S
    PROVE  /\ \A s \in Seq(S) : Len(s) = n => s = [i \in 1..n |-> s[i]]
           /\ \A s : s = [i \in 1..n |-> s[i]] /\ (\A i \in 1..n : s[i] \in S) =>
                s \in Seq(S) /\ Len(s) = n
           /\ \A s \in [1..n -> S] : s \in Seq(S) /\ Len(s) = n
<1>1. ASSUME NEW s \in Seq(S), Len(s) = n PROVE s = [i \in 1..n |-> s[i]]
  BY <1>1, LenProperties
<1>2. ASSUME NEW s, s = [i \in 1..n |-> s[i]], \A i \in 1..n : s[i] \in S
      PROVE  s \in Seq(S) /\ Len(s) = n
  <2>1. s \in [1..n -> S]
    BY <1>2
  <2> QED BY <1>2, <2>1
<1>3. \A s \in [1..n -> S] : s \in Seq(S) /\ Len(s) = n
  OBVIOUS
<1> QED BY <1>1, <1>2, <1>3

\* Tokenizing on from a document appends: what a flush writes is the rest.
LEMMA RawEncoded ==
    ASSUME NEW a \in Raw!All, NEW x, NEW k \in 0..Documented(a), NEW t \in k..Documented(a)
    PROVE  /\ Raw!Encode(a, x, 0, k) \o Raw!Encode(a, x, k, t) = Raw!Encode(a, x, 0, t)
           /\ Len(Raw!Encode(a, x, 0, t)) = Raw!Size(a, 0, t)
<1> DEFINE s == Raw!Encode(a, x, 0, k)
           r == Raw!Encode(a, x, k, t)
           e == Raw!Encode(a, x, 0, t)
           m == Raw!Size(a, 0, k)
           d == Raw!Size(a, k, t)
           n == Raw!Size(a, 0, t)
<1>1. /\ Documented(a) \in Nat /\ k \in Nat /\ t \in Nat /\ k <= t /\ t <= Documented(a)
      /\ k \in 0..Documented(a) /\ t \in 0..Documented(a) /\ 0 \in 0..Documented(a)
  BY RawFacts
<1>2. m \in Nat /\ d \in Nat /\ n \in Nat /\ n = m + d
  BY <1>1, RawGrows
<1>3. s = [p \in 1..m |-> s[p]] /\ r = [p \in 1..d |-> r[p]] /\ e = [p \in 1..n |-> e[p]]
  BY DEF Raw!Encode
<1>4. Len(s) = m /\ Len(r) = d /\ Len(e) = n /\ DOMAIN s = 1..m /\ DOMAIN r = 1..d /\ DOMAIN e = 1..n
  <2> HIDE DEF s, r, e, m, d, n
  <2> QED BY <1>2, <1>3
<1>5. PICK S : S = {s[p] : p \in 1..m} \cup {r[p] : p \in 1..d}
  OBVIOUS
<1>6. s \in Seq(S) /\ r \in Seq(S)
  <2>1. (\A p \in 1..m : s[p] \in S) /\ (\A p \in 1..d : r[p] \in S)
    BY <1>5
  <2> HIDE DEF s, r, m, d
  <2> QED BY <1>2, <1>3, <2>1, SeqIs
<1>7. /\ s \o r \in Seq(S) /\ Len(s \o r) = m + d
      /\ \A p \in 1..(m + d) : (s \o r)[p] = IF p <= m THEN s[p] ELSE r[p - m]
  <2> HIDE DEF s, r, m, d
  <2> QED BY <1>4, <1>6, ConcatProperties
<1>8. ASSUME NEW p \in 1..n PROVE (s \o r)[p] = e[p]
  <2>1. PICK i \in 1..t : \E j \in 1..Counts[a][i] : p = Raw!Size(a, 0, i - 1) + j
    <3>1. t \in 0..Documented(a) /\ p \in 1..Raw!Size(a, 0, t) /\ 0 + 1 .. t = 1..t
      BY <1>1
    <3> QED BY <1>1, <3>1, RawPlaces
  <2>2. PICK j \in 1..Counts[a][i] : p = Raw!Size(a, 0, i - 1) + j
    BY <2>1
  <2>3. i \in 0 + 1 .. t /\ i \in Nat
    BY <1>1
  <2>4. e[p] = <<x, i, j>>
    BY <1>1, <2>2, <2>3, RawTokens
  <2>5. CASE i <= k
    <3>1. i \in 0 + 1 .. k
      BY <1>1, <2>3, <2>5
    <3>2. p \in 1..m /\ s[p] = <<x, i, j>>
      BY <1>1, <2>2, <3>1, RawTokens
    <3>3. p <= m
      <4> HIDE DEF m, s
      <4> QED BY <1>2, <3>2
    <3>4. p \in 1..(m + d)
      BY <1>2
    <3> HIDE DEF s, r, e, m, d, n
    <3> QED BY <1>7, <2>4, <3>2, <3>3, <3>4
  <2>6. CASE i > k
    <3>1. i \in k + 1 .. t /\ i - 1 \in k..Documented(a)
      BY <1>1, <2>3, <2>6
    <3> DEFINE q == Raw!Size(a, k, i - 1) + j
               u == Raw!Size(a, k, i - 1)
               v == Raw!Size(a, 0, i - 1)
    <3>2. q \in 1..d /\ r[q] = <<x, i, j>>
      BY <1>1, <3>1, RawTokens
    <3>3. v = m + u /\ u \in Nat /\ v \in Nat
      BY <1>1, <3>1, RawGrows
    <3>4. j \in Nat
      <4>1. Counts[a][i] \in Nat
        <5>1. i \in 1..Documented(a)
          BY <1>1, <2>3
        <5> QED BY <5>1, RawFacts
      <4> QED BY <4>1
    <3>5. p = v + j /\ q = u + j
      BY <2>2
    <3>6. ~(p <= m) /\ p - m = q
      <4> HIDE DEF m, d, u, v, q
      <4> QED BY <1>2, <3>2, <3>3, <3>4, <3>5
    <3>7. p \in 1..(m + d)
      BY <1>2
    <3> HIDE DEF s, r, e, m, d, n, q
    <3> QED BY <1>7, <2>4, <3>2, <3>6, <3>7
  <2>7. i <= k \/ i > k
    BY <1>1, <2>3
  <2> QED BY <2>5, <2>6, <2>7
<1>9. s \o r = e
  <2>1. s \o r = [p \in 1..n |-> (s \o r)[p]]
    <3> DEFINE w == s \o r
    <3> HIDE DEF s, r, m, d, n, w
    <3>1. w \in Seq(S) /\ Len(w) = n
      BY <1>2, <1>7 DEF w
    <3>2. w = [p \in 1..n |-> w[p]]
      BY <1>2, <3>1, SeqIs
    <3> QED BY <3>2 DEF w
  <2> HIDE DEF s, r, e, n
  <2> QED BY <1>3, <1>8, <2>1
<1> QED BY <1>4, <1>9

\* The end of a document, and the length of what is before it.
OffsetsOf(a, n) == [i \in 1 .. n + 1 |-> Raw!Size(a, 0, i - 1)]
CacheOf(a, x, n) == [tokens |-> Raw!Encode(a, x, 0, n), offsets |-> OffsetsOf(a, n)]

\* The spans of a cache so made are the documents.
LEMMA RawSpans ==
    ASSUME NEW a \in Raw!All, NEW x, NEW c,
           c.tokens = CacheOf(a, x, Documented(a)).tokens,
           c.offsets = CacheOf(a, x, Documented(a)).offsets
    PROVE  [i \in 1 .. Len(Counts[a]) |-> Raw!Span(c, i)] = Raw!Reference(a, x)
<1> DEFINE n == Documented(a)
           e == Raw!Encode(a, x, 0, n)
<1>1. n \in Nat /\ 0 \in 0..n /\ n \in 0..n
  BY RawFacts
<1>2. c.tokens = e /\ c.offsets = [i \in 1 .. n + 1 |-> Raw!Size(a, 0, i - 1)]
  BY DEF CacheOf, OffsetsOf
<1>3. Len(e) = Raw!Size(a, 0, n)
  BY <1>1, RawEncoded
<1>4. ASSUME NEW i \in 1..n PROVE Raw!Span(c, i) = [j \in 1 .. Counts[a][i] |-> <<x, i, j>>]
  <2> DEFINE u == Raw!Size(a, 0, i - 1)
             v == Raw!Size(a, 0, i)
             w == Raw!Size(a, 0, n)
             k == Counts[a][i]
  <2>1. i \in 1 .. n + 1 /\ i + 1 \in 1 .. n + 1 /\ (i + 1) - 1 = i
    BY <1>1
  <2>2. c.offsets[i] = u /\ c.offsets[i + 1] = v
    BY <1>2, <2>1
  <2>3. u \in Nat /\ v \in Nat /\ w \in Nat /\ k \in Nat /\ v = u + k /\ v <= w
    <3>1. /\ i - 1 \in 0..n /\ i \in (i - 1)..n /\ i \in 0..n /\ n \in i..n
      BY <1>1
    <3>2. u \in Nat /\ v \in Nat /\ v = u + Raw!Size(a, i - 1, i)
      BY <1>1, <3>1, RawGrows
    <3>3. w \in Nat /\ v <= w
      BY <1>1, <3>1, RawGrows
    <3>4. Raw!Size(a, i - 1, i) = k /\ k \in Nat
      BY RawSizes, RawFacts
    <3> QED BY <3>2, <3>3, <3>4
  <2>4. Raw!Span(c, i) = SubSeq(e, u + 1, v)
    BY <1>2, <2>2 DEF Raw!Span
  <2>5. SubSeq(e, u + 1, v) = [j \in 1..k |-> e[u + j]]
    <3> DEFINE y == SubSeq(e, u + 1, v)
    <3>1. PICK S : S = {e[q] : q \in (u + 1)..v}
      OBVIOUS
    <3>2. u + 1 \in Int /\ v \in Int /\ \A q \in (u + 1)..v : e[q] \in S
      BY <2>3, <3>1
    <3>3. /\ y \in Seq(S) /\ Len(y) = IF u + 1 <= v THEN v - (u + 1) + 1 ELSE 0
          /\ \A j \in 1..(v - (u + 1) + 1) : y[j] = e[(u + 1) + j - 1]
      <4> HIDE DEF e, u, v
      <4> QED BY <3>2, SubSeqProperties
    <3> HIDE DEF e, u, v, k, y
    <3>4. v - (u + 1) + 1 = k /\ Len(y) = k /\ \A j \in 1..k : (u + 1) + j - 1 = u + j
      BY <2>3, <3>3
    <3>5. y = [j \in 1..k |-> y[j]]
      BY <2>3, <3>3, <3>4, SeqIs
    <3>6. \A j \in 1..k : y[j] = e[u + j]
      BY <3>3, <3>4
    <3>7. y = [j \in 1..k |-> e[u + j]]
      BY <3>5, <3>6
    <3> QED BY <3>7 DEF y
  <2>6. \A j \in 1..k : e[u + j] = <<x, i, j>>
    <3>1. i \in 0 + 1 .. n
      BY <1>1
    <3> QED BY <1>1, <3>1, RawTokens
  <2> HIDE DEF e, u, v
  <2> QED BY <2>4, <2>5, <2>6
<1> QED BY <1>4 DEF Raw!Reference, Documented

-----------------------------------------------------------------------------
(* The invariant of the cache: what a builder has written is the           *)
(* tokenization of the documents it is through with, a cache that is there *)
(* is never replaced, and the publisher and the join go by the tokenizer   *)
(* they name.                                                              *)
RawJob(j) ==
    /\ j \in [pc : {"build"}, tokenizer : {j.tokenizer}, orphan : {j.orphan}, archive : {j.archive},
              stamp : {j.stamp}, next : {j.next}, tokens : {j.tokens}, offsets : {j.offsets}]
    /\ j.archive \in Raw!All /\ j.next \in 0..Documented(j.archive)
    /\ j.tokens = CacheOf(j.archive, j.tokenizer, j.next).tokens
    /\ j.offsets = CacheOf(j.archive, j.tokenizer, j.next).offsets
RawWorkers ==
    /\ worker = [w \in Slots |-> worker[w]]
    /\ \A w \in Slots : worker[w].pc = "build" => RawJob(worker[w])
RawCaches ==
    /\ cache = [a \in Raw!All |-> cache[a]]
    /\ \A a \in Raw!All : cache[a] # None =>
         /\ cache[a].tokens = CacheOf(a, cache[a].tokenizer, Documented(a)).tokens
         /\ cache[a].offsets = CacheOf(a, cache[a].tokenizer, Documented(a)).offsets
Full == \A a \in Raw!All : cache[a] # None

RawRest(list, k) ==
    /\ list \in Seq(Raw!All) /\ k \in 0..Len(RawArchives) /\ Len(list) = Len(RawArchives) - k
    /\ \A i \in 1..Len(list) : list[i] = RawArchives[k + i]
RawSession ==
    /\ session \in [pc : {session.pc}, tokenizer : {session.tokenizer}, todo : {session.todo},
                    pool : {session.pool}, failed : {session.failed}]
    /\ session.todo \in Seq(Raw!All)
    /\ session.pc = "certifying" =>
         Full /\ \E k \in 0..Len(RawArchives) : /\ RawRest(session.todo, k)
                                /\ \A i \in 1..k : cache[RawArchives[i]].tokenizer = session.tokenizer
RawAlone == session.pc # "building" => \A w \in Slots : worker[w].pc = "build" => worker[w].orphan
RawInventory ==
    inventory # None => /\ inventory.entries = cache /\ Full
                        /\ \A a \in Raw!All : cache[a].tokenizer = inventory.tokenizer
RawJoin ==
    join.pc \notin {"none", "refused"} =>
      /\ join \in [pc : {join.pc}, tokenizer : {join.tokenizer}, todo : {join.todo},
                   taken : {join.taken}, guard : {join.guard}]
      /\ Full
      /\ \E k \in 0..Len(RawArchives) : /\ RawRest(join.todo, k)
                        /\ join.taken = [i \in 1..k |-> Raw!Reference(RawArchives[i], join.tokenizer)]
      /\ join.pc = "read" => /\ join.todo # <<>>
                             /\ cache[Head(join.todo)].tokenizer = join.tokenizer
RawSound == RawWorkers /\ RawCaches /\ RawSession /\ RawAlone /\ RawInventory /\ RawJoin

\* The steps of the cache.
LEMMA RawSteps ==
    ASSUME Raw!CacheNext
    PROVE  \/ \E pool \in BOOLEAN : Raw!LaunchBuild(pool)
           \/ Raw!LaunchInventory \/ Raw!LaunchJoin
           \/ \E w \in Slots : Raw!Spawn(w) \/ Raw!TakeJob(w) \/ Raw!Tokenize(w) \/ Raw!PublishCache(w)
           \/ Raw!FinishBuild \/ Raw!Certify \/ Raw!PublishInventory
           \/ Raw!OpenReader \/ Raw!CommitArchive
           \/ Raw!KillSession \/ Raw!BreakPool \/ Raw!ReplaceTokenizer
           \/ \E a \in Raw!All : Raw!ReplaceArchive(a)
BY DEF Raw!CacheNext, Raw!CacheWork, Raw!JoinWork, Raw!CacheFault

\* A worker that is left alone, orphaned or not at work has nothing new to
\* answer for.
LEMMA RawWorkersMove ==
    ASSUME RawWorkers, worker' = [w \in Slots |-> worker'[w]],
           \A w \in Slots : \/ worker'[w] = worker[w] \/ worker'[w].pc # "build"
                            \/ worker[w].pc = "build" /\ worker'[w] = [worker[w] EXCEPT !.orphan = TRUE]
                            \/ RawJob(worker'[w])
    PROVE  RawWorkers'
<1>1. ASSUME NEW w \in Slots, worker'[w].pc = "build" PROVE RawJob(worker'[w])
  <2>1. CASE worker'[w] = worker[w]
    BY <1>1, <2>1 DEF RawWorkers
  <2>2. CASE worker[w].pc = "build" /\ worker'[w] = [worker[w] EXCEPT !.orphan = TRUE]
    <3> DEFINE j == worker[w]
               r == [j EXCEPT !.orphan = TRUE]
    <3>1. RawJob(j)
      BY <2>2 DEF RawWorkers
    <3>2. /\ r.pc = "build" /\ r.tokenizer = j.tokenizer /\ r.archive = j.archive /\ r.stamp = j.stamp
          /\ r.next = j.next /\ r.tokens = j.tokens /\ r.offsets = j.offsets /\ r.orphan = TRUE
          /\ r \in [pc : {"build"}, tokenizer : {r.tokenizer}, orphan : {r.orphan}, archive : {r.archive},
                    stamp : {r.stamp}, next : {r.next}, tokens : {r.tokens}, offsets : {r.offsets}]
      <4> HIDE DEF j
      <4> QED BY <3>1 DEF RawJob
    <3>3. RawJob(r)
      <4> HIDE DEF j, r
      <4> QED BY <3>1, <3>2 DEF RawJob
    <3> QED BY <2>2, <3>3
  <2> QED BY <1>1, <2>1, <2>2
<1>2. \A j : RawJob(j)' <=> RawJob(j)
  BY DEF RawJob, CacheOf, Documented, Raw!All, Raw!ToSet, Raw!Encode, Raw!Size, Raw!DocumentAt
<1> QED BY <1>1 DEF RawWorkers

\* A flush comes at a document, and takes at least one.
LEMMA RawFlush ==
    ASSUME NEW a \in Raw!All, NEW f \in 0..Documented(a), f < Documented(a)
    PROVE  Raw!FlushAt(a, f) \in f + 1 .. Documented(a)
<1> DEFINE n == Documented(a)
           Due(k) == \/ k = n \/ k - f >= MaxBatchDocuments
                     \/ Raw!Size(a, f, k) >= MaxBatchTokens
                     \/ Raw!Size(a, f, k + 1) > MaxBatchTokens
           S == {k \in f + 1 .. n : Due(k)}
           Fits(k) == \A j \in f + 1 .. k - 1 :
                         /\ j - f < MaxBatchDocuments /\ Raw!Size(a, f, j) < MaxBatchTokens
                         /\ Raw!Size(a, f, j + 1) <= MaxBatchTokens
<1>1. n \in Nat /\ f \in Nat /\ f < n /\ MaxBatchDocuments \in Nat /\ MaxBatchTokens \in Nat
  BY RawFacts, RawAssumption
<1>2. n \in S /\ S \subseteq Nat
  BY <1>1
<1>3. PICK k \in S : \A m \in S : k <= m
  BY <1>2, LeastNatural
<1>4. k \in f + 1 .. n /\ Due(k) /\ k \in Nat
  BY <1>1
<1>5. ASSUME NEW j \in f + 1 .. k - 1
      PROVE  /\ j - f < MaxBatchDocuments /\ Raw!Size(a, f, j) < MaxBatchTokens
             /\ Raw!Size(a, f, j + 1) <= MaxBatchTokens
  <2>1. j \in f + 1 .. n /\ j \in Nat /\ ~(k <= j) /\ f \in 0..n /\ j \in 0..n /\ j + 1 \in 0..n
    BY <1>1, <1>4
  <2>2. ~Due(j)
    BY <1>3, <2>1
  <2>3. Raw!Size(a, f, j) \in Nat /\ Raw!Size(a, f, j + 1) \in Nat
    BY <2>1, RawSizes
  <2> QED BY <1>1, <2>1, <2>2, <2>3
<1>6. Fits(k)
  BY <1>5
<1> DEFINE c == CHOOSE k_1 \in f + 1 .. n : Due(k_1) /\ Fits(k_1)
<1>7. c \in f + 1 .. n
  <2> HIDE DEF Due, Fits
  <2> QED BY <1>4, <1>6
<1>8. Raw!FlushAt(a, f) = c
  BY DEF Raw!FlushAt, Documented
<1> QED BY <1>7, <1>8

NewOffsets(a, u, k, to) == [d \in 1 .. to - k |-> Raw!Last(u) + Raw!Size(a, k, k + d)]

\* Offsets go on from the last one.
LEMMA RawOffsets ==
    ASSUME NEW a \in Raw!All, NEW k \in 0..Documented(a), NEW to \in k..Documented(a), NEW u, u = OffsetsOf(a, k)
    PROVE  u \o NewOffsets(a, u, k, to) = OffsetsOf(a, to)
<1> DEFINE more == [d \in 1 .. to - k |-> Raw!Last(u) + Raw!Size(a, k, k + d)]
           w == u \o more
           m == k + 1
           d == to - k
<1> u = [i \in 1 .. k + 1 |-> Raw!Size(a, 0, i - 1)]
  BY DEF OffsetsOf
<1>0. /\ Documented(a) \in Nat /\ k \in Nat /\ to \in Nat /\ k <= to /\ to <= Documented(a)
      /\ 0 \in 0..Documented(a)
  BY RawFacts
<1>1. m \in Nat /\ d \in Nat /\ m + d = to + 1
  BY <1>0
<1>2. u = [i \in 1..m |-> u[i]] /\ more = [i \in 1..d |-> more[i]]
  BY <1>0
<1>3. PICK S : S = {u[i] : i \in 1..m} \cup {more[i] : i \in 1..d}
  OBVIOUS
<1>4. (\A i \in 1..m : u[i] \in S) /\ (\A i \in 1..d : more[i] \in S)
  BY <1>3
<1>5. u \in Seq(S) /\ more \in Seq(S) /\ Len(u) = m /\ Len(more) = d
  <2> HIDE DEF more, m, d
  <2>1. u \in Seq(S) /\ Len(u) = m
    <3>1. u \in [1..m -> S]
      BY <1>2, <1>4
    <3> QED BY <1>1, <3>1, SeqIs
  <2>2. more \in Seq(S) /\ Len(more) = d
    BY <1>1, <1>2, <1>4, SeqIs
  <2> QED BY <2>1, <2>2
<1>6. /\ w \in Seq(S) /\ Len(w) = m + d
      /\ \A i \in 1..(m + d) : w[i] = IF i <= m THEN u[i] ELSE more[i - m]
  <2> HIDE DEF more, m, d
  <2> QED BY <1>1, <1>5, ConcatProperties
<1>7. w = [i \in 1 .. to + 1 |-> w[i]]
  <2> HIDE DEF w, m, d
  <2> QED BY <1>0, <1>1, <1>6, SeqIs
<1>8. Raw!Last(u) = Raw!Size(a, 0, k)
  <2>1. Raw!Last(u) = u[m]
    <3> HIDE DEF m
    <3> QED BY <1>5 DEF Raw!Last
  <2>2. m \in 1..m /\ m - 1 = k
    BY <1>0
  <2> QED BY <1>0, <2>1, <2>2
<1>9. ASSUME NEW i \in 1 .. to + 1 PROVE w[i] = Raw!Size(a, 0, i - 1)
  <2>1. i \in 1..(m + d) /\ i \in Nat /\ (i <= m \/ i > m)
    BY <1>0, <1>1
  <2>2. CASE i <= m
    <3>1. i \in 1..m /\ w[i] = u[i]
      BY <1>1, <1>6, <2>1, <2>2
    <3> QED BY <1>0, <3>1
  <2>3. CASE i > m
    <3>1. i - m \in 1..d /\ k + (i - m) = i - 1 /\ i - 1 \in k..Documented(a)
      BY <1>0, <1>1, <2>1, <2>3
    <3>2. w[i] = more[i - m]
      BY <1>1, <1>6, <2>1, <2>3
    <3>3. more[i - m] = Raw!Last(u) + Raw!Size(a, k, i - 1)
      BY <3>1
    <3>4. Raw!Size(a, 0, i - 1) = Raw!Size(a, 0, k) + Raw!Size(a, k, i - 1)
      BY <1>0, <3>1, RawGrows
    <3> HIDE DEF w, more
    <3> QED BY <1>8, <3>2, <3>3, <3>4
  <2> QED BY <2>1, <2>2, <2>3
<1> HIDE DEF w
<1>10. w = [i \in 1 .. to + 1 |-> Raw!Size(a, 0, i - 1)]
  BY <1>7, <1>9
<1> QED BY <1>10 DEF w, NewOffsets, OffsetsOf

\* What is written with it is the tokenization of so many more documents.
LEMMA RawFlushed ==
    ASSUME NEW j, RawJob(j), NEW to \in j.next + 1 .. Documented(j.archive)
    PROVE  RawJob(Raw!Flushed(j, to))
<1> DEFINE a == j.archive
           x == j.tokenizer
           k == j.next
           r == Raw!Flushed(j, to)
           tokens == j.tokens \o Raw!Encode(a, x, k, to)
           offsets == j.offsets \o NewOffsets(a, j.offsets, k, to)
<1>1. /\ a \in Raw!All /\ k \in 0..Documented(a) /\ Documented(a) \in Nat /\ k \in Nat
      /\ to \in Nat /\ k < to /\ to <= Documented(a)
      /\ j.tokens = Raw!Encode(a, x, 0, k)
      /\ j.offsets = OffsetsOf(a, k)
  BY RawFacts DEF RawJob, CacheOf
<1>2. r = [j EXCEPT !.next = to, !.tokens = tokens, !.offsets = offsets]
  BY DEF Raw!Flushed, NewOffsets
<1>3. tokens = Raw!Encode(a, x, 0, to)
  <2>1. to \in k..Documented(a)
    BY <1>1
  <2> QED BY <1>1, <2>1, RawEncoded
<1>4. offsets = OffsetsOf(a, to)
  <2>1. to \in k..Documented(a)
    BY <1>1
  <2> QED BY <1>1, <2>1, RawOffsets
<1>5. /\ r.archive = a /\ r.tokenizer = x /\ r.next = to /\ r.tokens = tokens /\ r.offsets = offsets
      /\ r \in [pc : {"build"}, tokenizer : {r.tokenizer}, orphan : {r.orphan}, archive : {r.archive},
                stamp : {r.stamp}, next : {r.next}, tokens : {r.tokens}, offsets : {r.offsets}]
  <2> HIDE DEF tokens, offsets, r
  <2> QED BY <1>2 DEF RawJob
<1>6. /\ CacheOf(a, x, to).tokens = Raw!Encode(a, x, 0, to)
      /\ CacheOf(a, x, to).offsets = OffsetsOf(a, to)
  BY DEF CacheOf
<1>7. to \in 0..Documented(a)
  BY <1>1
<1> HIDE DEF r, tokens, offsets, a, x
<1>8. RawJob(r)
  BY <1>1, <1>3, <1>4, <1>5, <1>6, <1>7 DEF RawJob
<1> QED BY <1>8 DEF r

\* The builder's processes: each goes on from what it has.
LEMMA RawWorkersStep == ASSUME RawSound, Raw!CacheNext PROVE RawWorkers'
<1>0. RawWorkers /\ worker = [w \in Slots |-> worker[w]]
  BY DEF RawSound, RawWorkers
<1>1. ASSUME UNCHANGED worker PROVE RawWorkers'
  BY <1>0, <1>1, RawWorkersMove
<1>2. ASSUME NEW w \in Slots, NEW r, worker' = [worker EXCEPT ![w] = r],
             r.pc # "build" \/ RawJob(r)
      PROVE  RawWorkers'
  <2>1. worker' = [v \in Slots |-> worker'[v]] /\ \A v \in Slots : worker'[v] = worker[v] \/ worker'[v] = r
    BY <1>0, <1>2
  <2> QED BY <1>0, <1>2, <2>1, RawWorkersMove
<1>3. \A x : Raw!Rested(x).pc # "build" /\ Raw!Unborn.pc # "build"
  BY DEF Raw!Rested, Raw!Unborn
<1>4. ASSUME NEW w \in Slots, Raw!Fail(w) PROVE RawWorkers'
  BY <1>2, <1>3, <1>4 DEF Raw!Fail
<1>5. ASSUME NEW pool \in BOOLEAN, Raw!LaunchBuild(pool) PROVE RawWorkers'
  BY <1>1, <1>2, <1>3, <1>5 DEF Raw!LaunchBuild
<1>6. ASSUME NEW w \in Slots, Raw!Spawn(w) PROVE RawWorkers'
  BY <1>2, <1>3, <1>6 DEF Raw!Spawn
<1>7. ASSUME NEW w \in Slots, Raw!TakeJob(w) PROVE RawWorkers'
  <2> DEFINE a == Head(session.todo)
             r == [pc |-> "build", tokenizer |-> worker[w].tokenizer, orphan |-> FALSE,
                   archive |-> a, stamp |-> raw[a], next |-> 0,
                   tokens |-> <<>>, offsets |-> <<0>>]
  <2>1. \/ UNCHANGED worker
        \/ worker' = [worker EXCEPT ![w] = r]
    BY <1>7 DEF Raw!TakeJob
  <2>2. a \in Raw!All
    BY <1>7, HeadTailProperties DEF Raw!TakeJob, RawSound, RawSession
  <2>3. RawJob(r)
    <3>1. Documented(a) \in Nat /\ 0 \in 0..Documented(a) /\ Raw!Size(a, 0, 0) = 0
      <4>1. Documented(a) \in Nat
        BY <2>2, RawFacts
      <4>2. 0 \in 0..Documented(a)
        BY <4>1
      <4> QED BY <2>2, <4>1, <4>2, RawSizes
    <3>2. CacheOf(a, r.tokenizer, 0).tokens = <<>>
      <4>1. Raw!Encode(a, r.tokenizer, 0, 0) = [p \in 1..0 |->
              <<r.tokenizer, Raw!DocumentAt(a, 0, 0, p),
                p - Raw!Size(a, 0, Raw!DocumentAt(a, 0, 0, p) - 1)>>]
        BY <3>1 DEF Raw!Encode
      <4>2. Raw!Encode(a, r.tokenizer, 0, 0) = <<>>
        BY <4>1
      <4> QED BY <4>2 DEF CacheOf
    <3>3. CacheOf(a, r.tokenizer, 0).offsets = <<0>>
      <4>1. OffsetsOf(a, 0) = [i \in 1..1 |-> 0]
        BY <3>1 DEF OffsetsOf
      <4> QED BY <4>1 DEF CacheOf
    <3> HIDE DEF a
    <3> QED BY <2>2, <3>1, <3>2, <3>3 DEF RawJob
  <2> HIDE DEF r
  <2> QED BY <1>1, <1>2, <2>1, <2>3
<1>8. ASSUME NEW w \in Slots, Raw!Tokenize(w) PROVE RawWorkers'
  <2> DEFINE j == worker[w]
             to == Raw!FlushAt(j.archive, j.next)
  <2>1. RawJob(j) /\ j.next < Documented(j.archive)
    BY <1>0, <1>8 DEF Raw!Tokenize, RawWorkers, Documented
  <2>2. Raw!Fail(w) \/ worker' = [worker EXCEPT ![w] = Raw!Flushed(j, to)]
    BY <1>8, <1>0 DEF Raw!Tokenize, Raw!Fail
  <2>3. to \in j.next + 1 .. Documented(j.archive)
    BY <2>1, RawFlush DEF RawJob
  <2>4. RawJob(Raw!Flushed(j, to))
    <3> HIDE DEF j, to
    <3> QED BY <2>1, <2>3, RawFlushed
  <2> HIDE DEF j, to
  <2> QED BY <1>2, <1>4, <2>2, <2>4
<1>9. ASSUME NEW w \in Slots, Raw!PublishCache(w) PROVE RawWorkers'
  <2>1. \/ Raw!Fail(w)
        \/ \E r \in {Raw!Unborn, Raw!Rested(worker[w].tokenizer)} : worker' = [worker EXCEPT ![w] = r]
    BY <1>0, <1>9 DEF Raw!PublishCache
  <2> QED BY <1>2, <1>3, <1>4, <2>1
<1>10. ASSUME worker' = [w \in Slots |-> IF w \in Raw!Orphans THEN worker[w] ELSE Raw!Unborn] PROVE RawWorkers'
  <2>1. worker' = [v \in Slots |-> worker'[v]]
        /\ \A v \in Slots : worker'[v] = worker[v] \/ worker'[v] = Raw!Unborn
    BY <1>10
  <2> QED BY <1>0, <1>3, <2>1, RawWorkersMove
<1>11. ASSUME Raw!KillSession PROVE RawWorkers'
  <2>1. worker' = [v \in Slots |-> worker'[v]]
        /\ \A v \in Slots : \/ worker'[v] = worker[v] \/ worker'[v] = Raw!Unborn
                            \/ worker[v].pc = "build" /\ worker'[v] = [worker[v] EXCEPT !.orphan = TRUE]
    BY <1>11 DEF Raw!KillSession
  <2> QED BY <1>0, <1>3, <2>1, RawWorkersMove
<1>12. ASSUME \/ Raw!LaunchInventory \/ Raw!LaunchJoin \/ Raw!Certify \/ Raw!PublishInventory
              \/ Raw!OpenReader \/ Raw!CommitArchive \/ Raw!ReplaceTokenizer
              \/ \E a \in Raw!All : Raw!ReplaceArchive(a)
       PROVE  UNCHANGED worker
  BY <1>12 DEF Raw!LaunchInventory, Raw!LaunchJoin, Raw!Certify, Raw!PublishInventory,
               Raw!OpenReader, Raw!CommitArchive, Raw!ReplaceTokenizer, Raw!ReplaceArchive
<1>13. ASSUME Raw!FinishBuild \/ Raw!BreakPool PROVE RawWorkers'
  BY <1>10, <1>13 DEF Raw!FinishBuild, Raw!BreakPool
<1> QED BY <1>1, <1>5, <1>6, <1>7, <1>8, <1>9, <1>11, <1>12, <1>13, RawSteps

\* The caches: one is published where there was none, and none is replaced.
LEMMA RawCachesStep ==
    ASSUME RawSound, Raw!CacheNext
    PROVE  /\ RawCaches' /\ (\A a \in Raw!All : cache[a] # None => cache'[a] = cache[a])
           /\ Full => UNCHANGED cache
<1>0. RawCaches /\ cache = [a \in Raw!All |-> cache[a]]
  BY DEF RawSound, RawCaches
<1>1. \A a, x, n : CacheOf(a, x, n)' = CacheOf(a, x, n)
  BY DEF CacheOf, OffsetsOf, Raw!All, Raw!ToSet, Raw!Encode, Raw!Size, Raw!DocumentAt
<1>2. ASSUME UNCHANGED cache
      PROVE  RawCaches' /\ (\A a \in Raw!All : cache[a] # None => cache'[a] = cache[a])
  BY <1>0, <1>2 DEF RawCaches, Documented
<1>3. ASSUME NEW w \in Slots, Raw!PublishCache(w), ~UNCHANGED cache
      PROVE  RawCaches' /\ (\A a \in Raw!All : cache[a] # None => cache'[a] = cache[a]) /\ ~Full
  <2> DEFINE j == worker[w]
             a == j.archive
             c == [tokenizer |-> j.tokenizer, tokens |-> j.tokens, offsets |-> j.offsets]
  <2>1. RawJob(j) /\ j.next = Documented(a)
    BY <1>3 DEF Raw!PublishCache, RawSound, RawWorkers, Documented
  <2>2. cache' = [cache EXCEPT ![a] = c] /\ cache[a] = None
    BY <1>3 DEF Raw!PublishCache, Raw!Fail
  <2>3. a \in Raw!All /\ c.tokens = CacheOf(a, c.tokenizer, Documented(a)).tokens
        /\ c.offsets = CacheOf(a, c.tokenizer, Documented(a)).offsets
    BY <2>1 DEF RawJob
  <2> HIDE DEF a, c
  <2>4. /\ cache' = [b \in Raw!All |-> cache'[b]] /\ cache'[a] = c
        /\ \A b \in Raw!All : b # a => cache'[b] = cache[b]
    BY <1>0, <2>2, <2>3
  <2>5. ASSUME NEW b \in Raw!All, cache'[b] # None
        PROVE  /\ cache'[b].tokens = CacheOf(b, cache'[b].tokenizer, Documented(b)).tokens
               /\ cache'[b].offsets = CacheOf(b, cache'[b].tokenizer, Documented(b)).offsets
    BY <1>0, <2>3, <2>4, <2>5 DEF RawCaches
  <2>6. RawCaches'
    BY <2>4, <2>5 DEF RawCaches, Documented, CacheOf, OffsetsOf
  <2> QED BY <2>2, <2>3, <2>4, <2>6 DEF Full
<1>4. \/ UNCHANGED cache \/ \E w \in Slots : Raw!PublishCache(w)
  BY RawSteps DEF Raw!LaunchBuild, Raw!LaunchInventory, Raw!LaunchJoin, Raw!Spawn, Raw!TakeJob, Raw!Tokenize,
     Raw!FinishBuild, Raw!Certify, Raw!PublishInventory, Raw!OpenReader, Raw!CommitArchive, Raw!KillSession,
     Raw!BreakPool, Raw!ReplaceTokenizer, Raw!ReplaceArchive, Raw!Fail
<1> QED BY <1>2, <1>3, <1>4

\* A process that works without a builder is one that a killed builder left.
LEMMA RawAloneStep == ASSUME RawSound, Raw!CacheNext PROVE RawAlone'
<1>0. RawAlone /\ RawWorkers /\ worker = [w \in Slots |-> worker[w]]
  BY DEF RawSound, RawWorkers
<1>1. ASSUME session'.pc # "building" => session.pc # "building",
             \A w \in Slots : \/ worker'[w] = worker[w] \/ worker'[w].pc # "build"
                              \/ worker[w].pc = "build" /\ worker'[w].orphan = worker[w].orphan
      PROVE  RawAlone'
  BY <1>0, <1>1 DEF RawAlone
<1>2. ASSUME \A w \in Slots : worker'[w].pc = "build" => worker'[w].orphan
      PROVE  RawAlone'
  BY <1>2 DEF RawAlone
<1>3. ASSUME session'.pc = "building" PROVE RawAlone'
  BY <1>3 DEF RawAlone
<1>4. \A x : Raw!Rested(x).pc # "build" /\ Raw!Unborn.pc # "build"
  BY DEF Raw!Rested, Raw!Unborn
<1>5. /\ Raw!Idle.pc = "idle" /\ Raw!AfterFailure.pc = session.pc
      /\ \A x : [session EXCEPT !.todo = x].pc = session.pc
  BY DEF RawSound, RawSession, Raw!AfterFailure, Raw!Idle
<1>6. ASSUME NEW w \in Slots, Raw!Fail(w) PROVE RawAlone'
  BY <1>0, <1>1, <1>4, <1>5, <1>6 DEF Raw!Fail
<1>7. ASSUME NEW pool \in BOOLEAN, Raw!LaunchBuild(pool) PROVE RawAlone'
  BY <1>3, <1>7 DEF Raw!LaunchBuild, Raw!Idle
<1>8. ASSUME NEW w \in Slots, Raw!Spawn(w) PROVE RawAlone'
  BY <1>3, <1>8 DEF Raw!Spawn
<1>9. ASSUME NEW w \in Slots, Raw!TakeJob(w) PROVE RawAlone'
  <2> DEFINE rest == [session EXCEPT !.todo = Tail(@)]
  <2>1. rest.pc = "building" /\ \A x : [rest EXCEPT !.failed = TRUE, !.todo = x].pc = "building"
    BY <1>9 DEF RawSound, RawSession, Raw!TakeJob
  <2>2. session' = rest \/ \E x : session' = [rest EXCEPT !.failed = TRUE, !.todo = x]
    BY <1>9 DEF Raw!TakeJob
  <2> HIDE DEF rest
  <2> QED BY <1>3, <2>1, <2>2
<1>10. ASSUME NEW w \in Slots, Raw!Tokenize(w) PROVE RawAlone'
  <2> DEFINE j == worker[w]
             to == Raw!FlushAt(j.archive, j.next)
             r == Raw!Flushed(j, to)
  <2>1. \/ Raw!Fail(w)
        \/ worker' = [worker EXCEPT ![w] = r] /\ UNCHANGED session
    BY <1>10, <1>0 DEF Raw!Tokenize, Raw!Fail
  <2>2. r.orphan = j.orphan /\ j.pc = "build"
    <3>1. RawJob(j)
      BY <1>0, <1>10 DEF Raw!Tokenize, RawWorkers
    <3> HIDE DEF j, to
    <3> QED BY <3>1 DEF Raw!Flushed, RawJob
  <2> HIDE DEF r
  <2> QED BY <1>0, <1>1, <1>6, <2>1, <2>2
<1>11. ASSUME NEW w \in Slots, Raw!PublishCache(w) PROVE RawAlone'
  <2>1. \/ Raw!Fail(w)
        \/ UNCHANGED session
           /\ \E r \in {Raw!Unborn, Raw!Rested(worker[w].tokenizer)} : worker' = [worker EXCEPT ![w] = r]
    BY <1>0, <1>11 DEF Raw!PublishCache
  <2> QED BY <1>0, <1>1, <1>4, <1>6, <2>1
<1>12. ASSUME worker' = [w \in Slots |-> IF w \in Raw!Orphans THEN worker[w] ELSE Raw!Unborn] PROVE RawAlone'
  BY <1>2, <1>4, <1>12 DEF Raw!Orphans
<1>13. ASSUME Raw!KillSession PROVE RawAlone'
  <2>1. ASSUME NEW w \in Slots, worker'[w].pc = "build" PROVE worker'[w].orphan
    <3>1. \/ w \in Raw!Orphans /\ worker'[w] = worker[w]
          \/ worker[w].pc = "build" /\ worker'[w] = [worker[w] EXCEPT !.orphan = TRUE]
          \/ worker'[w] = Raw!Unborn
      BY <1>13 DEF Raw!KillSession
    <3>2. worker[w].pc = "build" => RawJob(worker[w])
      BY <1>0 DEF RawWorkers
    <3> QED BY <1>4, <2>1, <3>1, <3>2 DEF RawJob, Raw!Orphans
  <2> QED BY <1>2, <2>1
<1>14. ASSUME Raw!LaunchInventory \/ Raw!Certify \/ Raw!PublishInventory PROVE RawAlone'
  <2>1. UNCHANGED worker /\ session.pc # "building"
    BY <1>14 DEF Raw!LaunchInventory, Raw!Certify, Raw!PublishInventory, Raw!LockFree
  <2> QED BY <1>1, <2>1
<1>15. ASSUME \/ Raw!LaunchJoin \/ Raw!OpenReader \/ Raw!CommitArchive \/ Raw!ReplaceTokenizer
              \/ \E a \in Raw!All : Raw!ReplaceArchive(a)
       PROVE  RawAlone'
  BY <1>1, <1>15 DEF Raw!LaunchJoin, Raw!OpenReader, Raw!CommitArchive, Raw!ReplaceTokenizer, Raw!ReplaceArchive
<1>16. ASSUME Raw!FinishBuild \/ Raw!BreakPool PROVE RawAlone'
  BY <1>12, <1>16 DEF Raw!FinishBuild, Raw!BreakPool
<1> QED BY <1>7, <1>8, <1>9, <1>10, <1>11, <1>13, <1>14, <1>15, <1>16, RawSteps

\* The archives a pass has left are the rest of the list.
LEMMA RawRests ==
    /\ RawRest(RawArchives, 0)
    /\ \A list, k : RawRest(list, k) /\ list # <<>> =>
         /\ RawRest(Tail(list), k + 1) /\ k \in Nat /\ k + 1 \in 1..Len(RawArchives)
         /\ Head(list) = RawArchives[k + 1] /\ Head(list) \in Raw!All
    /\ \A list, k : RawRest(list, k) /\ list = <<>> => k = Len(RawArchives)
<1>1. RawRest(RawArchives, 0)
  BY RawFacts, RawAssumption DEF RawRest
<1>2. ASSUME NEW list, NEW k, RawRest(list, k), list # <<>>
      PROVE  /\ RawRest(Tail(list), k + 1) /\ k \in Nat /\ k + 1 \in 1..Len(RawArchives)
             /\ Head(list) = RawArchives[k + 1] /\ Head(list) \in Raw!All
  <2> DEFINE n == Len(RawArchives)
             rest == Tail(list)
             m == Len(list)
  <2>1. /\ list \in Seq(Raw!All) /\ n \in Nat /\ k \in 0..n /\ m = n - k /\ m \in Nat
        /\ \A i \in 1..m : list[i] = RawArchives[k + i]
    BY <1>2, RawFacts DEF RawRest
  <2>2. m # 0
    BY <1>2, <2>1
  <2>3. /\ rest \in Seq(Raw!All) /\ Len(rest) = m - 1
        /\ \A i \in 1..Len(rest) : rest[i] = list[i + 1]
        /\ Head(list) \in Raw!All
    <3> HIDE DEF rest, m
    <3> QED BY <1>2, <2>1, HeadTailProperties DEF rest, m
  <2>4. Head(list) = list[1]
    BY <1>2, <2>1
  <2> HIDE DEF rest, m, n
  <2>5. k \in Nat /\ k + 1 \in 1..n /\ k + 1 \in 0..n /\ 1 \in 1..m /\ Len(rest) = n - (k + 1)
    BY <2>1, <2>2, <2>3
  <2>6. \A i \in 1..Len(rest) : rest[i] = RawArchives[(k + 1) + i]
    <3>1. ASSUME NEW i \in 1..Len(rest) PROVE rest[i] = RawArchives[(k + 1) + i]
      <4>1. i + 1 \in 1..m /\ k + (i + 1) = (k + 1) + i
        BY <2>1, <2>3
      <4> QED BY <2>1, <2>3, <4>1
    <3> QED BY <3>1
  <2>7. RawRest(rest, k + 1)
    BY <2>3, <2>5, <2>6 DEF RawRest, n
  <2> QED BY <2>1, <2>3, <2>4, <2>5, <2>7 DEF rest, n
<1>3. ASSUME NEW list, NEW k, RawRest(list, k), list = <<>> PROVE k = Len(RawArchives)
  BY <1>3, RawFacts DEF RawRest
<1> QED BY <1>1, <1>2, <1>3

\* The session: the publisher goes through the complete set, by its tokenizer.
LEMMA RawSessionStep == ASSUME RawSound, Raw!CacheNext PROVE RawSession'
<1> DEFINE Shaped(s) == s \in [pc : {s.pc}, tokenizer : {s.tokenizer}, todo : {s.todo},
                               pool : {s.pool}, failed : {s.failed}]
           n == Len(RawArchives)
<1>0. /\ RawSession /\ RawAlone /\ RawCaches /\ Shaped(session) /\ session.todo \in Seq(Raw!All)
      /\ n \in Nat /\ RawArchives \in Seq(Raw!All) /\ <<>> \in Seq(Raw!All)
  BY RawFacts, RawAssumption, EmptySeq DEF RawSound, RawSession
<1>1. ASSUME Shaped(session'), session'.todo \in Seq(Raw!All), session'.pc # "certifying" PROVE RawSession'
  BY <1>1 DEF RawSession, Raw!All, Raw!ToSet
<1>2. ASSUME UNCHANGED session PROVE RawSession'
  <2>1. CASE session.pc # "certifying"
    BY <1>0, <1>1, <1>2, <2>1
  <2>2. CASE session.pc = "certifying"
    <3>1. Full /\ UNCHANGED cache
      BY <1>0, <2>2, RawCachesStep DEF RawSession
    <3>2. \A l, k : RawRest(l, k)' <=> RawRest(l, k)
      BY DEF RawRest, Raw!All, Raw!ToSet
    <3> QED BY <1>0, <1>2, <3>1, <3>2 DEF RawSession, Full, Raw!All, Raw!ToSet
  <2> QED BY <2>1, <2>2
<1>3. /\ Shaped(Raw!Idle) /\ Raw!Idle.pc = "idle" /\ Raw!Idle.todo = <<>>
      /\ \A p, x, t, b : LET s == [Raw!Idle EXCEPT !.pc = p, !.tokenizer = x, !.todo = t, !.pool = b]
                         IN  Shaped(s) /\ s.pc = p /\ s.todo = t /\ s.tokenizer = x
      /\ \A p, x, t : LET s == [Raw!Idle EXCEPT !.pc = p, !.tokenizer = x, !.todo = t]
                      IN  Shaped(s) /\ s.pc = p /\ s.todo = t /\ s.tokenizer = x
  <2>1. Raw!Idle \in [pc : {"idle"}, tokenizer : {None}, todo : {<<>>}, pool : {FALSE}, failed : {FALSE}]
    BY DEF Raw!Idle
  <2>2. Shaped(Raw!Idle) /\ Raw!Idle.pc = "idle" /\ Raw!Idle.todo = <<>>
    BY <2>1
  <2>3. ASSUME NEW p, NEW x, NEW t, NEW b
        PROVE  LET s == [Raw!Idle EXCEPT !.pc = p, !.tokenizer = x, !.todo = t, !.pool = b]
               IN  Shaped(s) /\ s.pc = p /\ s.todo = t /\ s.tokenizer = x
    BY <2>1
  <2>4. ASSUME NEW p, NEW x, NEW t
        PROVE  LET s == [Raw!Idle EXCEPT !.pc = p, !.tokenizer = x, !.todo = t]
               IN  Shaped(s) /\ s.pc = p /\ s.todo = t /\ s.tokenizer = x
    BY <2>1
  <2> QED BY <2>2, <2>3, <2>4
<1>4. /\ \A t : LET s == [session EXCEPT !.todo = t]
                IN  Shaped(s) /\ s.pc = session.pc /\ s.todo = t /\ s.tokenizer = session.tokenizer
      /\ \A t : LET s == [session EXCEPT !.failed = TRUE, !.todo = t]
                IN  Shaped(s) /\ s.pc = session.pc /\ s.todo = t
      /\ \A u, t : LET s == [[session EXCEPT !.todo = u] EXCEPT !.failed = TRUE, !.todo = t]
                   IN  Shaped(s) /\ s.pc = session.pc /\ s.todo = t
  BY <1>0
<1>5. ASSUME session' = Raw!Idle PROVE RawSession'
  BY <1>0, <1>1, <1>3, <1>5
<1>6. ASSUME NEW w \in Slots, Raw!Fail(w), worker[w].pc = "build" PROVE RawSession'
  <2>1. CASE session.pc = "building" /\ ~worker[w].orphan
    <3>1. session' = Raw!AfterFailure
      BY <1>6, <2>1 DEF Raw!Fail
    <3>2. session' = [session EXCEPT !.failed = TRUE, !.todo = session.todo]
          \/ session' = [session EXCEPT !.failed = TRUE, !.todo = <<>>]
      BY <3>1 DEF Raw!AfterFailure
    <3> QED BY <1>0, <1>1, <1>4, <2>1, <3>2
  <2>2. CASE worker[w].orphan
    BY <1>2, <1>6, <2>2 DEF Raw!Fail
  <2> QED BY <1>0, <1>6, <2>1, <2>2 DEF RawAlone
<1>7. ASSUME NEW pool \in BOOLEAN, Raw!LaunchBuild(pool) PROVE RawSession'
  BY <1>0, <1>1, <1>3, <1>7 DEF Raw!LaunchBuild
<1>8. ASSUME NEW w \in Slots, Raw!TakeJob(w) PROVE RawSession'
  <2> DEFINE rest == [session EXCEPT !.todo = Tail(@)]
  <2>1. session.pc = "building" /\ session.todo # <<>>
    BY <1>8 DEF Raw!TakeJob
  <2>2. Tail(session.todo) \in Seq(Raw!All)
    BY <1>0, <2>1, HeadTailProperties
  <2>3. session' = rest \/ \E t \in {rest.todo, <<>>} : session' = [rest EXCEPT !.failed = TRUE, !.todo = t]
    BY <1>8 DEF Raw!TakeJob
  <2>4. rest = [session EXCEPT !.todo = Tail(session.todo)]
    OBVIOUS
  <2> HIDE DEF rest
  <2>5. rest.todo = Tail(session.todo)
    BY <1>4, <2>4
  <2>6. CASE session' = rest
    BY <1>1, <1>4, <2>1, <2>2, <2>4, <2>6
  <2>7. ASSUME NEW t \in {rest.todo, <<>>}, session' = [rest EXCEPT !.failed = TRUE, !.todo = t]
        PROVE  RawSession'
    <3>1. session' = [[session EXCEPT !.todo = Tail(session.todo)] EXCEPT !.failed = TRUE, !.todo = t]
      BY <2>4, <2>7
    <3>2. t \in Seq(Raw!All)
      BY <1>0, <2>2, <2>5, <2>7
    <3> QED BY <1>1, <1>4, <2>1, <3>1, <3>2
  <2> QED BY <2>3, <2>6, <2>7
<1>9. ASSUME NEW w \in Slots, Raw!Tokenize(w) PROVE RawSession'
  BY <1>2, <1>6, <1>9 DEF Raw!Tokenize
<1>10. ASSUME NEW w \in Slots, Raw!PublishCache(w) PROVE RawSession'
  BY <1>2, <1>6, <1>10 DEF Raw!PublishCache
<1>11. ASSUME Raw!LaunchInventory PROVE RawSession'
  <2>1. /\ Shaped(session') /\ session'.pc = "certifying" /\ session'.todo = RawArchives
        /\ UNCHANGED cache
    BY <1>3, <1>11 DEF Raw!LaunchInventory
  <2>2. Full
    BY <1>11 DEF Raw!LaunchInventory, Raw!ClosedWorld, Raw!Published, Full
  <2>3. RawRest(RawArchives, 0) /\ 0 \in 0..n
    BY <1>0, RawRests
  <2>4. \A l, k : RawRest(l, k)' <=> RawRest(l, k)
    BY DEF RawRest, Raw!All, Raw!ToSet
  <2>5. \A i \in 1..0 : cache'[RawArchives[i]].tokenizer = session'.tokenizer
    OBVIOUS
  <2>6. Full' /\ session'.todo \in Seq(Raw!All)
    BY <1>0, <2>1, <2>2 DEF Full, Raw!All, Raw!ToSet
  <2> QED BY <2>1, <2>3, <2>4, <2>5, <2>6 DEF RawSession, Raw!All, Raw!ToSet
<1>12. ASSUME Raw!Certify PROVE RawSession'
  <2> DEFINE b == Head(session.todo)
             rest == Tail(session.todo)
  <2>1. session.pc = "certifying" /\ session.todo # <<>> /\ UNCHANGED cache
    BY <1>12 DEF Raw!Certify
  <2>2. CASE ~Raw!Authentic(b, session.tokenizer)
    BY <1>5, <1>12, <2>2 DEF Raw!Certify
  <2>3. CASE Raw!Authentic(b, session.tokenizer)
    <3>1. session' = [session EXCEPT !.todo = rest]
      BY <1>12, <2>3 DEF Raw!Certify
    <3>2. cache[b].tokenizer = session.tokenizer
      BY <2>3 DEF Raw!Authentic, Raw!SameGeneration
    <3>3. Full
      BY <1>0, <2>1 DEF RawSession
    <3>4. PICK k \in 0..n : RawRest(session.todo, k)
                            /\ \A i \in 1..k : cache[RawArchives[i]].tokenizer = session.tokenizer
      BY <1>0, <2>1 DEF RawSession
    <3>5. RawRest(rest, k + 1) /\ k + 1 \in 1..n /\ b = RawArchives[k + 1]
      BY <2>1, <3>4, RawRests
    <3>6. \A i \in 1..k + 1 : cache[RawArchives[i]].tokenizer = session.tokenizer
      <4>1. \A i \in 1..k + 1 : i \in 1..k \/ i = k + 1
        BY <3>4
      <4> HIDE DEF b
      <4> QED BY <3>2, <3>4, <3>5, <4>1
    <3>7. /\ Shaped(session') /\ session'.pc = "certifying" /\ session'.todo = rest
          /\ session'.tokenizer = session.tokenizer /\ rest \in Seq(Raw!All) /\ k + 1 \in 0..n
      <4>1. rest \in Seq(Raw!All)
        BY <1>0, <2>1, HeadTailProperties
      <4>2. k + 1 \in 0..n
        BY <1>0, <3>5
      <4> HIDE DEF rest
      <4> QED BY <1>4, <2>1, <3>1, <4>1, <4>2
    <3>8. \A l, m : RawRest(l, m)' <=> RawRest(l, m)
      BY DEF RawRest, Raw!All, Raw!ToSet
    <3>9. Full' /\ \A i \in 1..k + 1 : cache'[RawArchives[i]].tokenizer = session'.tokenizer
      BY <2>1, <3>3, <3>6, <3>7 DEF Full, Raw!All, Raw!ToSet
    <3> HIDE DEF b, rest
    <3> QED BY <3>5, <3>7, <3>8, <3>9 DEF RawSession, Raw!All, Raw!ToSet
  <2> QED BY <2>2, <2>3
<1>13. ASSUME Raw!PublishInventory \/ Raw!FinishBuild \/ Raw!KillSession \/ Raw!BreakPool PROVE RawSession'
  BY <1>5, <1>13 DEF Raw!PublishInventory, Raw!FinishBuild, Raw!KillSession, Raw!BreakPool
<1>14. ASSUME \/ Raw!LaunchJoin \/ Raw!OpenReader \/ Raw!CommitArchive \/ Raw!ReplaceTokenizer
              \/ \E w \in Slots : Raw!Spawn(w)
              \/ \E a \in Raw!All : Raw!ReplaceArchive(a)
       PROVE  RawSession'
  BY <1>2, <1>14 DEF Raw!LaunchJoin, Raw!OpenReader, Raw!CommitArchive, Raw!ReplaceTokenizer,
     Raw!ReplaceArchive, Raw!Spawn
<1> QED BY <1>7, <1>8, <1>9, <1>10, <1>11, <1>12, <1>13, <1>14, RawSteps

\* The inventory: it is of the set the publisher has gone through.
LEMMA RawInventoryStep == ASSUME RawSound, Raw!CacheNext PROVE RawInventory'
<1>0. /\ RawInventory /\ RawSession /\ (Full => UNCHANGED cache)
      /\ cache = [a \in Raw!All |-> cache[a]] /\ Len(RawArchives) \in Nat
  BY RawCachesStep, RawFacts DEF RawSound, RawCaches
<1>1. ASSUME UNCHANGED inventory PROVE RawInventory'
  BY <1>0, <1>1 DEF RawInventory, Full, Raw!All, Raw!ToSet
<1>2. ASSUME Raw!PublishInventory, inventory = None PROVE RawInventory'
  <2> DEFINE r == [tokenizer |-> session.tokenizer, archives |-> RawArchives, entries |-> cache]
  <2>1. session.pc = "certifying" /\ session.todo = <<>> /\ inventory' = r /\ UNCHANGED cache
    BY <1>2 DEF Raw!PublishInventory
  <2>2. PICK k \in 0..Len(RawArchives) :
               /\ RawRest(session.todo, k)
               /\ \A i \in 1..k : cache[RawArchives[i]].tokenizer = session.tokenizer
    BY <1>0, <2>1 DEF RawSession
  <2>3. k = Len(RawArchives) /\ Full
    BY <1>0, <2>1, <2>2, RawRests DEF RawSession
  <2>4. \A a \in Raw!All : cache[a].tokenizer = session.tokenizer
    BY <2>2, <2>3, RawFacts
  <2>5. inventory'.entries = cache' /\ inventory'.tokenizer = session.tokenizer
    BY <2>1
  <2>6. Full' /\ \A a \in Raw!All : cache'[a].tokenizer = session.tokenizer
    BY <2>1, <2>3, <2>4 DEF Full, Raw!All, Raw!ToSet
  <2> QED BY <2>5, <2>6 DEF RawInventory, Full, Raw!All, Raw!ToSet
<1>3. UNCHANGED inventory \/ Raw!PublishInventory
  BY RawSteps DEF Raw!LaunchBuild, Raw!LaunchInventory, Raw!LaunchJoin, Raw!Spawn, Raw!TakeJob, Raw!Tokenize,
     Raw!PublishCache, Raw!FinishBuild, Raw!Certify, Raw!OpenReader, Raw!CommitArchive, Raw!KillSession,
     Raw!BreakPool, Raw!ReplaceTokenizer, Raw!ReplaceArchive, Raw!Fail
<1> QED BY <1>1, <1>2, <1>3 DEF Raw!PublishInventory

\* The join: it takes an archive from a cache of its own tokenizer.
LEMMA RawJoinStep == ASSUME RawSound, Raw!CacheNext PROVE RawJoin'
<1> DEFINE n == Len(RawArchives)
           Shaped(j) == j \in [pc : {j.pc}, tokenizer : {j.tokenizer}, todo : {j.todo},
                               taken : {j.taken}, guard : {j.guard}]
           Took(x, k) == [i \in 1..k |-> Raw!Reference(RawArchives[i], x)]
<1>0. RawJoin /\ RawCaches /\ RawInventory /\ (Full => UNCHANGED cache) /\ n \in Nat
  BY RawCachesStep, RawFacts DEF RawSound
<1>1. \A l, k : RawRest(l, k)' <=> RawRest(l, k)
  BY DEF RawRest, Raw!All, Raw!ToSet
<1>2. \A a, x : Raw!Reference(a, x)' = Raw!Reference(a, x)
  BY DEF Raw!Reference
<1>3. Full' <=> \A a \in Raw!All : cache'[a] # None
  BY DEF Full, Raw!All, Raw!ToSet
<1>4. ASSUME join'.pc \in {"none", "refused"} PROVE RawJoin'
  BY <1>4 DEF RawJoin
<1>5. ASSUME NEW k \in 0..n, Shaped(join'), Full', RawRest(join'.todo, k), join'.taken = Took(join'.tokenizer, k),
             join'.pc = "read" => /\ join'.todo # <<>>
                                  /\ cache'[Head(join'.todo)].tokenizer = join'.tokenizer
      PROVE  RawJoin'
  BY <1>1, <1>2, <1>5 DEF RawJoin
<1>6. ASSUME join.pc \notin {"none", "refused"}
      PROVE  /\ Shaped(join) /\ Full /\ Full' /\ UNCHANGED cache
             /\ \E k \in 0..n : RawRest(join.todo, k) /\ join.taken = Took(join.tokenizer, k)
             /\ join.pc = "read" => join.todo # <<>> /\ cache[Head(join.todo)].tokenizer = join.tokenizer
  BY <1>0, <1>3, <1>6 DEF RawJoin, Full
<1>7. ASSUME UNCHANGED join PROVE RawJoin'
  BY <1>4, <1>5, <1>6, <1>7
<1>8. ASSUME Raw!LaunchJoin PROVE RawJoin'
  <2> DEFINE r == [pc |-> "open", tokenizer |-> installed, todo |-> RawArchives, taken |-> <<>>, guard |-> None]
  <2>1. UNCHANGED cache /\ (join' = [pc |-> "refused"] \/ (join' = r /\ Raw!Loadable))
    BY <1>8 DEF Raw!LaunchJoin
  <2>2. CASE join' = [pc |-> "refused"]
    BY <1>4, <2>2
  <2>3. CASE join' = r /\ Raw!Loadable
    <3>1. Full'
      BY <1>3, <2>1, <2>3 DEF Raw!Loadable, Raw!ClosedWorld, Raw!Published
    <3>2. Shaped(join') /\ join'.pc = "open" /\ join'.todo = RawArchives /\ join'.taken = <<>>
      BY <2>3
    <3>3. 0 \in 0..n /\ RawRest(RawArchives, 0)
      BY <1>0, RawRests
    <3>4. Took(join'.tokenizer, 0) = <<>>
      OBVIOUS
    <3> HIDE DEF Took, n, Shaped
    <3> QED BY <1>5, <3>1, <3>2, <3>3, <3>4
  <2> QED BY <2>1, <2>2, <2>3
<1>9. ASSUME Raw!OpenReader PROVE RawJoin'
  <2>1. join.pc = "open"
    BY <1>9 DEF Raw!OpenReader
  <2>2. PICK k \in 0..n : RawRest(join.todo, k) /\ join.taken = Took(join.tokenizer, k)
    BY <1>6, <2>1
  <2>3. CASE join.todo = <<>>
    <3>1. join' = [join EXCEPT !.pc = "joined"]
      BY <1>9, <2>3 DEF Raw!OpenReader
    <3>2. /\ Shaped(join') /\ join'.pc = "joined" /\ join'.todo = join.todo /\ join'.taken = join.taken
          /\ join'.tokenizer = join.tokenizer
      BY <1>6, <2>1, <3>1
    <3> HIDE DEF Took, n, Shaped
    <3> QED BY <1>5, <1>6, <2>1, <2>2, <3>2
  <2>4. CASE join.todo # <<>> /\ Raw!Authentic(Head(join.todo), join.tokenizer)
    <3> DEFINE g == <<raw[Head(join.todo)], installed, cache[Head(join.todo)]>>
    <3>1. join' = [join EXCEPT !.pc = "read", !.guard = g]
      BY <1>9, <2>4 DEF Raw!OpenReader
    <3>2. cache[Head(join.todo)].tokenizer = join.tokenizer
      BY <2>4 DEF Raw!Authentic, Raw!SameGeneration
    <3> HIDE DEF g
    <3>3. /\ Shaped(join') /\ join'.pc = "read" /\ join'.todo = join.todo /\ join'.taken = join.taken
          /\ join'.tokenizer = join.tokenizer
      BY <1>6, <2>1, <3>1
    <3> HIDE DEF Took, n, Shaped
    <3> QED BY <1>5, <1>6, <2>1, <2>2, <2>4, <3>2, <3>3
  <2>5. CASE join' = [pc |-> "refused"]
    BY <1>4, <2>5
  <2> QED BY <1>9, <2>3, <2>4, <2>5 DEF Raw!OpenReader
<1>10. ASSUME Raw!CommitArchive PROVE RawJoin'
  <2> DEFINE a == Head(join.todo)
             x == join.tokenizer
             spans == [i \in 1 .. Len(Counts[a]) |-> Raw!Span(cache[a], i)]
  <2>1. join.pc = "read"
        /\ (\/ join' = [pc |-> "refused"]
            \/ join' = [join EXCEPT !.pc = "open", !.todo = Tail(@), !.guard = None,
                                    !.taken = Append(@, spans)])
    BY <1>10 DEF Raw!CommitArchive
  <2>2. PICK k \in 0..n : RawRest(join.todo, k) /\ join.taken = Took(join.tokenizer, k)
    BY <1>6, <2>1
  <2>3. CASE join' = [pc |-> "refused"]
    BY <1>4, <2>3
  <2>4. CASE join' = [join EXCEPT !.pc = "open", !.todo = Tail(@), !.guard = None, !.taken = Append(@, spans)]
    <3>1. /\ RawRest(Tail(join.todo), k + 1) /\ k \in Nat /\ k + 1 \in 1..n
          /\ a = RawArchives[k + 1] /\ a \in Raw!All
      BY <1>6, <2>1, <2>2, RawRests
    <3>2. cache[a] # None /\ cache[a].tokenizer = x
      BY <1>6, <2>1, <3>1 DEF Full
    <3>3. spans = Raw!Reference(a, x)
      <4>1. /\ cache[a].tokens = CacheOf(a, cache[a].tokenizer, Documented(a)).tokens
            /\ cache[a].offsets = CacheOf(a, cache[a].tokenizer, Documented(a)).offsets
        BY <1>0, <3>1, <3>2 DEF RawCaches
      <4> HIDE DEF a, x
      <4>2. [i \in 1 .. Len(Counts[a]) |-> Raw!Span(cache[a], i)] = Raw!Reference(a, cache[a].tokenizer)
        BY <3>1, <4>1, RawSpans
      <4> QED BY <3>2, <4>2
    <3>4. Append(Took(x, k), Raw!Reference(a, x)) = Took(x, k + 1)
      <4> DEFINE e == Raw!Reference(a, x)
                 s == Took(x, k)
                 u == Took(x, k + 1)
      <4>1. Len(s) = k /\ \A i \in 1..k : s[i] = Raw!Reference(RawArchives[i], x)
        BY <3>1
      <4>2. e = Raw!Reference(RawArchives[k + 1], x)
        BY <3>1
      <4>3. Append(s, e) = [i \in 1..Len(s) + 1 |-> IF i = Len(s) + 1 THEN e ELSE s[i]]
        BY DEF Append
      <4>4. u = [i \in 1..k + 1 |-> Raw!Reference(RawArchives[i], x)]
        OBVIOUS
      <4>5. \A i \in 1..k + 1 : i = k + 1 \/ i \in 1..k
        BY <3>1
      <4>6. Append(s, e) = u
        <5> HIDE DEF s, e, u, a, x, Took
        <5> QED BY <4>1, <4>2, <4>3, <4>4, <4>5
      <4> QED BY <4>6
    <3>5. /\ Shaped(join') /\ join'.pc = "open" /\ join'.todo = Tail(join.todo) /\ join'.tokenizer = x
          /\ join'.taken = Append(join.taken, spans)
      <4> HIDE DEF spans
      <4> QED BY <1>6, <2>1, <2>4
    <3>6. join'.taken = Took(join'.tokenizer, k + 1)
      <4> HIDE DEF spans, Took, a, x, Shaped
      <4> QED BY <2>2, <3>3, <3>4, <3>5 DEF x
    <3>7. k + 1 \in 0..n
      BY <1>0, <3>1
    <3> HIDE DEF Took, n, Shaped, spans, a, x
    <3> QED BY <1>5, <1>6, <2>1, <3>1, <3>5, <3>6, <3>7
  <2> QED BY <2>1, <2>3, <2>4
<1>11. UNCHANGED join \/ Raw!LaunchJoin \/ Raw!OpenReader \/ Raw!CommitArchive
  BY RawSteps DEF Raw!LaunchBuild, Raw!LaunchInventory, Raw!Spawn, Raw!TakeJob, Raw!Tokenize,
     Raw!PublishCache, Raw!FinishBuild, Raw!Certify, Raw!PublishInventory, Raw!KillSession,
     Raw!BreakPool, Raw!ReplaceTokenizer, Raw!ReplaceArchive, Raw!Fail
<1> QED BY <1>7, <1>8, <1>9, <1>10, <1>11

\* Before anything runs there is nothing to answer for.
LEMMA RawInit == ASSUME Raw!CacheInit PROVE RawSound
<1>1. /\ session = Raw!Idle /\ worker = [w \in Slots |-> Raw!Unborn] /\ inventory = None
      /\ cache = [a \in Raw!All |-> None] /\ join = [pc |-> "none"]
  BY DEF Raw!CacheInit
<1>2. Raw!Unborn.pc # "build"
  BY DEF Raw!Unborn
<1>3. RawWorkers /\ RawAlone
  BY <1>1, <1>2 DEF RawWorkers, RawAlone
<1>4. RawCaches /\ RawInventory /\ RawJoin
  BY <1>1 DEF RawCaches, RawInventory, RawJoin
<1>5. RawSession
  <2>1. Raw!Idle \in [pc : {"idle"}, tokenizer : {None}, todo : {<<>>}, pool : {FALSE}, failed : {FALSE}]
    BY DEF Raw!Idle
  <2>2. <<>> \in Seq(Raw!All)
    BY EmptySeq
  <2> QED BY <1>1, <2>1, <2>2 DEF RawSession
<1> QED BY <1>3, <1>4, <1>5 DEF RawSound

\* Packing a corpus leaves the cache alone.
LEMMA RawStutter == ASSUME RawSound, UNCHANGED cacheVars PROVE RawSound'
<1>1. UNCHANGED <<raw, cache, session, worker, inventory, join>>
  BY DEF cacheVars
<1>2. \A j : RawJob(j)' <=> RawJob(j)
  BY DEF RawJob, CacheOf, Documented, Raw!All, Raw!ToSet, Raw!Encode, Raw!Size, Raw!DocumentAt
<1>3. \A a, x, k : CacheOf(a, x, k)' = CacheOf(a, x, k) /\ Raw!Reference(a, x)' = Raw!Reference(a, x)
  BY DEF CacheOf, OffsetsOf, Raw!All, Raw!ToSet, Raw!Encode, Raw!Size, Raw!DocumentAt, Raw!Reference
<1>4. \A l, k : RawRest(l, k)' <=> RawRest(l, k)
  BY DEF RawRest, Raw!All, Raw!ToSet
<1>5. Raw!All' = Raw!All /\ (Full' <=> Full)
  BY <1>1 DEF Full, Raw!All, Raw!ToSet
<1>6. RawWorkers' /\ RawAlone'
  BY <1>1, <1>2 DEF RawSound, RawWorkers, RawAlone
<1>7. RawCaches'
  BY <1>1, <1>3, <1>5 DEF RawSound, RawCaches, Documented
<1>8. RawSession'
  BY <1>1, <1>4, <1>5 DEF RawSound, RawSession
<1>9. RawInventory'
  BY <1>1, <1>5 DEF RawSound, RawInventory
<1>10. RawJoin'
  BY <1>1, <1>3, <1>4, <1>5 DEF RawSound, RawJoin
<1> QED BY <1>6, <1>7, <1>8, <1>9, <1>10 DEF RawSound

\* Whatever is killed and whichever file is replaced, the builder's
\* processes, orphans included, hold the tokenization of the documents they
\* are through with, a published cache holds that of its archive and is
\* never replaced, and the publisher and the join have met nothing but their
\* own tokenizer (_build_new_archive, publish_raw_token_cache_inventory,
\* _process_archive_from_raw_token_cache).
THEOREM RawCacheInvariant == CorpusSpec => []RawSound
<1>1. CorpusInit => RawSound
  BY RawInit DEF CorpusInit
<1>2. RawSound /\ [CorpusNext]_corpusVars => RawSound'
  <2> SUFFICES ASSUME RawSound, [CorpusNext]_corpusVars PROVE RawSound'
    OBVIOUS
  <2>1. CASE Raw!CacheNext
    BY <2>1, RawWorkersStep, RawCachesStep, RawSessionStep, RawAloneStep, RawInventoryStep, RawJoinStep
       DEF RawSound
  <2>2. CASE UNCHANGED cacheVars
    BY <2>2, RawStutter
  <2> QED BY <2>1, <2>2 DEF CorpusNext, corpusVars
<1> QED BY <1>1, <1>2, PTL DEF CorpusSpec

\* In every behaviour of the corpus a published cache gives, document by
\* document, the tokens of the tokenizer it names, the inventory certifies
\* the complete set under one tokenizer, and the join has taken the
\* archives' documents by the materializer's own.
THEOREM CacheStaysExact == CorpusSpec => []CacheExact
<1>1. RawSound => CacheExact
  <2> SUFFICES ASSUME RawSound PROVE Raw!SpansExact /\ Raw!InventoryExact
    BY DEF CacheExact
  <2>1. ASSUME NEW a \in Raw!Published
        PROVE  [i \in 1 .. Len(Counts[a]) |-> Raw!Span(cache[a], i)] = Raw!Reference(a, cache[a].tokenizer)
    <3>1. /\ a \in Raw!All
          /\ cache[a].tokens = CacheOf(a, cache[a].tokenizer, Documented(a)).tokens
          /\ cache[a].offsets = CacheOf(a, cache[a].tokenizer, Documented(a)).offsets
      BY <2>1 DEF Raw!Published, RawSound, RawCaches
    <3> QED BY <3>1, RawSpans
  <2>2. ASSUME join.pc \notin {"none", "refused"}
        PROVE  join.taken = [k \in 1 .. Len(join.taken) |-> Raw!Reference(RawArchives[k], join.tokenizer)]
    <3>1. PICK k \in 0..Len(RawArchives) :
                 join.taken = [i \in 1..k |-> Raw!Reference(RawArchives[i], join.tokenizer)]
      BY <2>2 DEF RawSound, RawJoin
    <3>2. k \in Nat
      BY RawFacts
    <3>3. Len(join.taken) = k
      BY <3>1, <3>2
    <3> QED BY <3>1, <3>3
  <2>3. Raw!InventoryExact
    BY DEF RawSound, RawInventory, Raw!InventoryExact, Raw!Published, Full
  <2> QED BY <2>1, <2>2, <2>3 DEF Raw!SpansExact
<1> QED BY <1>1, RawCacheInvariant, PTL
=============================================================================
