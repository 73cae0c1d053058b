------------------------- MODULE EnglishNearClusters -------------------------
(***************************************************************************)
(* The cross-source English near-duplicate map                             *)
(* (scripts/build_english_near_clusters.py, EnglishNearDedupBuilder).      *)
(*                                                                         *)
(* A document is its archive, its normalized text, its set of shingles and *)
(* the band keys of its signature; its ordinal is its place in the frozen  *)
(* inventory.  The database is a record: what its committed transactions   *)
(* left.  An action is one transaction or one replacement of a file, so an *)
(* interruption falls between any two of them and the memory of the        *)
(* process, the array of parents above all, is lost.                       *)
(***************************************************************************)
EXTENDS Integers, FiniteSets, FiniteSetsExt, SequencesExt

CONSTANTS Corpora,        \* the frozen inventories to choose from: sequences of documents
          Threshold,      \* minimum_jaccard: [num, den]
          MaxPosting,     \* maximum_posting_documents
          MaxPairs,       \* maximum_unique_candidate_pairs
          NearBatch,      \* batch_size of pairs, edges, parents and documents
          MaxInterruptions,
          None

VARIABLES corpus,      \* the documents, in ordinal order
          db,          \* english_near.sqlite3
          cacheFile,   \* archives whose shingle cache file is in place
          preflight,   \* operational-preflight-v1: None, "pass" or "fail"
          mapping,     \* clusters.jsonl.zst: the root of each document, or None
          manifest,    \* manifest.json: the mapping it describes, or None
          checksum,    \* manifest.sha256: the manifest it is of, or None
          pc,          \* the process: "down", "create", "run", a step of emit, or its end:
                       \* "done", "refused" or "overflow"
          parent,      \* its parent_array, or None
          interruptions

nearVars == <<corpus, db, cacheFile, preflight, mapping, manifest, checksum, pc, parent,
              interruptions>>
files == <<cacheFile, preflight, mapping, manifest, checksum>>

Ordinals == DOMAIN corpus
Archives == {corpus[d].archive : d \in Ordinals}
Pair(p) == p[1] < p[2]
Precedes(p, q) == p[1] < q[1] \/ (p[1] = q[1] /\ p[2] < q[2])

(* The batch of a keyset query: the first n members of S after `cursor`.   *)
NumbersAfter(S, cursor, n) ==
    {s \in S : s > cursor /\ Cardinality({t \in S : cursor < t /\ t < s}) < n}
PairsAfter(S, cursor, n) ==
    {p \in S : /\ Precedes(cursor, p)
               /\ Cardinality({q \in S : Precedes(cursor, q) /\ Precedes(q, p)}) < n}
InOrder(S) ==
    [i \in 1..Cardinality(S) |->
        CHOOSE p \in S : Cardinality({q \in S : Precedes(q, p)}) = i - 1]

-----------------------------------------------------------------------------
(* The mathematics of the phases.                                          *)

(* The first document of each normalized text represents it.               *)
Representatives ==
    {d \in Ordinals : \A e \in Ordinals : corpus[e].text = corpus[d].text => d <= e}

Posting(key) == {d \in Representatives : key \in corpus[d].bands}
Blocks == {key \in UNION {corpus[d].bands : d \in Ordinals} : Cardinality(Posting(key)) > 1}

(* Jaccard cannot exceed the ratio of the cardinalities: such a pair is    *)
(* pruned.                                                                 *)
LengthPruned(l, r) ==
    LET sizes == {Cardinality(corpus[l].shingles), Cardinality(corpus[r].shingles)}
    IN  Max(sizes) > 0 /\ Min(sizes) * Threshold.den < Max(sizes) * Threshold.num

BlockPairs(key) ==
    {p \in Posting(key) \X Posting(key) : Pair(p) /\ ~LengthPruned(p[1], p[2])}

(* jaccard_counts and refinement_accepts, in integers.                     *)
Accepts(p) ==
    LET both == Cardinality(corpus[p[1]].shingles \cap corpus[p[2]].shingles)
        either == Cardinality(corpus[p[1]].shingles \cup corpus[p[2]].shingles)
    IN  either = 0 \/ both * Threshold.den >= either * Threshold.num

(* find(): the root of a document, whose own entry it compresses.          *)
RootIn(array, d) ==
    LET up[x \in DOMAIN array] == IF array[x] = x THEN x ELSE up[array[x]] IN up[d]
Compressed(array, d) == [array EXCEPT ![d] = RootIn(array, d)]

(* union() over one edge: the smaller root wins.  The rows to write are    *)
(* those of the edge, which find() compressed, and those of the roots.     *)
RowsTouchedEndpoints(edge, roots) == {edge[1], edge[2]}
RowsTouched(edge, roots) == {edge[1], edge[2]} \cup roots
Merged(state, edge) ==
    LET array == Compressed(Compressed(state.array, edge[1]), edge[2])
        roots == {array[edge[1]], array[edge[2]]}
    IN  [array   |-> [array EXCEPT ![Max(roots)] = Min(roots)],
         changed |-> state.changed \cup RowsTouched(edge, roots),
         merges  |-> state.merges + (IF Cardinality(roots) = 2 THEN 1 ELSE 0)]

(* The edges after the cursor, as far as the last, one after another.      *)
AfterEdges(state, cursor, last) ==
    LET after[i \in cursor..last] ==
            IF i = cursor THEN state ELSE Merged(after[i - 1], db.edges[i])
    IN  after[last]

(* The array of a process: every document its own parent, then the rows.   *)
ParentArray == [d \in Ordinals |-> IF d \in DOMAIN db.parents THEN db.parents[d] ELSE d]

-----------------------------------------------------------------------------
NoDatabase == [schema |-> FALSE, phase |-> None, inventoried |-> {}, signed |-> {},
               blocksTotal |-> None, blocks |-> {}, candidates |-> {}, cached |-> {},
               pairsTotal |-> None, refined |-> {}, refineCursor |-> <<0, 0>>,
               edges |-> <<>>, parents |-> <<>>, edgeCursor |-> 0, merges |-> 0,
               flattened |-> None, rooted |-> None, roots |-> <<>>]

Phases == <<"inventory", "signatures", "candidates", "cache", "refine", "union", "emit",
            "complete">>
PhaseIndex(p) == CHOOSE i \in DOMAIN Phases : Phases[i] = p
Reached(p) == PhaseIndex(db.phase) >= PhaseIndex(p)

NearInit ==
    /\ corpus \in Corpora
    /\ db = NoDatabase
    /\ cacheFile = {} /\ preflight = None
    /\ mapping = None /\ manifest = None /\ checksum = None
    /\ pc = "down" /\ parent = None /\ interruptions = 0

(* _initialize_identity of a resumed database: the cursors belong to the   *)
(* phase, are complete, and agree with each other.                         *)
CursorsValid ==
    /\ db.blocks # {} \/ db.blocksTotal # None => Reached("candidates")
    /\ db.refineCursor # <<0, 0>> => Reached("refine") /\ Pair(db.refineCursor)
    /\ db.edgeCursor > 0 => Reached("union") /\ db.merges <= db.edgeCursor
FinalizationValid ==
    /\ db.rooted # None => db.flattened # None
    /\ db.flattened # None => Reached("union") /\ db.flattened.processed <= db.flattened.total
    /\ db.rooted # None => /\ db.flattened.processed = db.flattened.total
                           /\ db.rooted <= Len(corpus)
    /\ PhaseIndex(db.phase) > PhaseIndex("union")
         => /\ db.flattened # None /\ db.rooted = Len(corpus)
            /\ db.flattened.processed = db.flattened.total

(* _load_refinement_preflight: a published measurement has to pass, and to *)
(* cover every archive's cache and every block.                            *)
PreflightLoads ==
    /\ preflight = "pass"
    /\ db.cached = Archives /\ db.cached \subseteq cacheFile
    /\ Cardinality(db.blocks) = db.blocksTotal /\ db.pairsTotal # None

(* __enter__: the lock, then the database.  A schema without identity rows *)
(* is refused; so is a preflight that does not load.                       *)
Enter ==
    /\ pc = "down"
    /\ pc' = IF ~db.schema THEN "create"
             ELSE IF /\ db.phase # None /\ CursorsValid /\ FinalizationValid
                     /\ preflight # None => PreflightLoads
                  THEN "run" ELSE "refused"
    /\ parent' = None
    /\ UNCHANGED <<corpus, db, files, interruptions>>

(* _create_schema commits before _initialize_identity inserts its rows.    *)
CreateSchema ==
    /\ pc = "create" /\ ~db.schema
    /\ db' = [db EXCEPT !.schema = TRUE]
    /\ UNCHANGED <<corpus, files, pc, parent, interruptions>>
InsertIdentity ==
    /\ pc = "create" /\ db.schema
    /\ db' = [db EXCEPT !.phase = "inventory"] /\ pc' = "run"
    /\ UNCHANGED <<corpus, files, parent, interruptions>>

In(phase) == pc = "run" /\ db.phase = phase
Commit(new) == db' = new /\ UNCHANGED <<corpus, files, pc, parent, interruptions>>
Refuse(state) == pc' = state /\ UNCHANGED <<corpus, db, files, parent, interruptions>>

(* The next archive in the order of the frozen reports.                    *)
NextArchive(done) == Min(Archives \ done)

(* ingest_inventory and _ingest_report: one archive a transaction; at the  *)
(* end the representatives are marked and the phase advances.              *)
IngestReport ==
    /\ In("inventory") /\ db.inventoried # Archives
    /\ Commit([db EXCEPT !.inventoried = @ \cup {NextArchive(@)}])
InventoryComplete ==
    /\ In("inventory") /\ db.inventoried = Archives
    /\ Commit([db EXCEPT !.phase = "signatures"])

(* build_signatures: one verified raw archive a transaction.               *)
SignArchive ==
    /\ In("signatures") /\ db.signed # Archives
    /\ Commit([db EXCEPT !.signed = @ \cup {NextArchive(@)}])
SignaturesComplete ==
    /\ In("signatures") /\ db.signed = Archives
    /\ Commit([db EXCEPT !.phase = "candidates"])

-----------------------------------------------------------------------------
(* generate_candidates: the number of blocks is frozen first, then one     *)
(* block of more than one document a transaction, in the order of the      *)
(* keys.  An oversized posting or one pair too many fails closed.          *)
Unread == {key \in Blocks : \A done \in db.blocks : key > done}

FreezeBlocks ==
    /\ In("candidates") /\ db.blocksTotal = None
    /\ Commit([db EXCEPT !.blocksTotal = Cardinality(Blocks)])

PairsWith(key) == db.candidates \cup BlockPairs(key)
Overflows(key) == \/ Cardinality(Posting(key)) > MaxPosting
                  \/ Cardinality(PairsWith(key)) > MaxPairs

ReadBlock ==
    /\ In("candidates") /\ db.blocksTotal # None /\ Unread # {}
    /\ LET key == Min(Unread)
       IN  IF Overflows(key) THEN Refuse("overflow")
           ELSE Commit([db EXCEPT !.candidates = PairsWith(key), !.blocks = @ \cup {key}])

CandidatesComplete ==
    /\ In("candidates") /\ db.blocksTotal # None /\ Unread = {}
    /\ Commit([db EXCEPT !.phase = "cache", !.pairsTotal = Cardinality(db.candidates)])

(* build_refinement_cache: the file replaces its name before the           *)
(* transaction that lists it; a replay writes it again.                    *)
Cached == {d \in Ordinals : corpus[d].archive \in db.cached}
InCandidates == UNION {{p[1], p[2]} : p \in db.candidates}

ReplaceCache ==
    /\ In("cache") /\ db.cached # Archives /\ NextArchive(db.cached) \notin cacheFile
    /\ cacheFile' = cacheFile \cup {NextArchive(db.cached)}
    /\ UNCHANGED <<corpus, db, preflight, mapping, manifest, checksum, pc, parent,
                   interruptions>>
CommitCache ==
    /\ In("cache") /\ db.cached # Archives /\ NextArchive(db.cached) \in cacheFile
    /\ Commit([db EXCEPT !.cached = @ \cup {NextArchive(@)}])
CacheComplete ==
    /\ In("cache") /\ db.cached = Archives
    /\ IF InCandidates \subseteq Cached THEN Commit([db EXCEPT !.phase = "refine"])
       ELSE Refuse("refused")

-----------------------------------------------------------------------------
(* The operational preflight is measured once, at the boundary of refine,  *)
(* and published whatever it found; what it found is up to the machine.    *)
MeasurePreflight ==
    /\ In("refine") /\ preflight = None
    /\ IF db.refined = {} THEN \E result \in {"pass", "fail"} : preflight' = result /\ pc' = pc
       ELSE pc' = "refused" /\ preflight' = preflight
    /\ UNCHANGED <<corpus, db, cacheFile, mapping, manifest, checksum, parent, interruptions>>

PreflightFails ==
    /\ In("refine") /\ preflight = "fail" /\ Refuse("refused")

(* refine_candidates: a batch of pairs, its accepted edges and the cursor  *)
(* in one transaction; then the edges of equal normalized texts.           *)
Refining == In("refine") /\ preflight = "pass"
PrefixRefined == db.refined = {p \in db.candidates : ~Precedes(db.refineCursor, p)}

RefineBatch ==
    /\ Refining /\ PairsAfter(db.candidates, db.refineCursor, 1) # {}
    /\ LET batch == PairsAfter(db.candidates, db.refineCursor, NearBatch)
       IN  IF ~PrefixRefined THEN Refuse("refused")
           ELSE Commit([db EXCEPT !.refined = @ \cup batch,
                                  !.edges = @ \o InOrder({p \in batch : Accepts(p)}),
                                  !.refineCursor = Last(InOrder(batch))])

NormalizedEdges ==
    LET twins == {p \in Representatives \X Ordinals :
                     Pair(p) /\ corpus[p[1]].text = corpus[p[2]].text}
    IN  twins \ Range(db.edges)

AllRefined == PairsAfter(db.candidates, db.refineCursor, 1) = {}
AddNormalizedEdges ==
    /\ Refining /\ AllRefined /\ NormalizedEdges # {}
    /\ IF db.refined # db.candidates THEN Refuse("refused")
       ELSE Commit([db EXCEPT !.edges = @ \o InOrder(NormalizedEdges)])
RefineComplete ==
    /\ Refining /\ AllRefined /\ NormalizedEdges = {}
    /\ Commit([db EXCEPT !.phase = "union"])

-----------------------------------------------------------------------------
(* union_edges: the parents of the changed documents, the cursor and the   *)
(* count of merges in one transaction; the array stays in memory.          *)
EdgesLeft == db.edgeCursor < Len(db.edges)
FlattenLeft == IF db.flattened = None THEN TRUE
               ELSE db.flattened.processed < db.flattened.total

(* The array is needed to consume edges or to flatten, not to assign roots.*)
NeedsParentArray ==
    (EdgesLeft \/ (FlattenLeft /\ (db.flattened # None \/ DOMAIN db.parents # {}))) = TRUE
LoadParents ==
    /\ In("union") /\ parent = None /\ NeedsParentArray
    /\ parent' = ParentArray
    /\ UNCHANGED <<corpus, db, files, pc, interruptions>>

UnionBatch ==
    /\ In("union") /\ EdgesLeft /\ parent # None
    /\ LET last == Min({db.edgeCursor + NearBatch, Len(db.edges)})
           after == AfterEdges([array |-> parent, changed |-> {}, merges |-> db.merges],
                               db.edgeCursor, last)
           rows == DOMAIN db.parents \cup after.changed
       IN  /\ parent' = after.array
           /\ db' = [db EXCEPT !.edgeCursor = last, !.merges = after.merges,
                               !.parents = [d \in rows |-> IF d \in after.changed
                                                           THEN after.array[d] ELSE @[d]]]
    /\ UNCHANGED <<corpus, files, pc, interruptions>>

(* The rows of parents are flattened in keyset batches.                    *)
Progress == IF db.flattened = None
            THEN [document |-> 0, processed |-> 0, total |-> Cardinality(DOMAIN db.parents)]
            ELSE db.flattened
FlattenBatch ==
    /\ In("union") /\ ~EdgesLeft /\ FlattenLeft
    /\ LET batch == NumbersAfter(DOMAIN db.parents, Progress.document, NearBatch)
       IN  IF batch = {}
           THEN IF Progress.total = 0
                THEN Commit([db EXCEPT !.flattened = Progress])
                ELSE Refuse("refused")
           ELSE /\ parent # None
                /\ parent' = [d \in Ordinals |-> IF d \in batch THEN RootIn(parent, d)
                                                 ELSE parent[d]]
                /\ db' = [db EXCEPT
                            !.parents = [d \in DOMAIN @ |-> IF d \in batch THEN RootIn(parent, d)
                                                            ELSE @[d]],
                            !.flattened = [document |-> Max(batch),
                                           processed |-> Progress.processed + Cardinality(batch),
                                           total |-> Progress.total]]
                /\ UNCHANGED <<corpus, files, pc, interruptions>>

Flat == \A d \in DOMAIN db.parents :
            db.parents[d] \in DOMAIN db.parents =>
                db.parents[db.parents[d]] = db.parents[d]
Rooted == IF db.rooted = None THEN 0 ELSE db.rooted

AssignRoots ==
    /\ In("union") /\ ~EdgesLeft /\ ~FlattenLeft /\ Rooted < Len(corpus)
    /\ LET last == Min({Rooted + NearBatch, Len(corpus)})
       IN  IF ~Flat THEN Refuse("refused")
           ELSE Commit([db EXCEPT
                          !.roots = [d \in 1..last |-> IF d <= Rooted THEN @[d]
                                                       ELSE IF d \in DOMAIN db.parents
                                                       THEN db.parents[d] ELSE d],
                          !.rooted = last])
UnionComplete ==
    /\ In("union") /\ ~EdgesLeft /\ ~FlattenLeft /\ Rooted = Len(corpus)
    /\ Commit([db EXCEPT !.phase = "emit"])

-----------------------------------------------------------------------------
(* emit: the audit, the mapping, which is read back, the manifest, its     *)
(* checksum and the last transaction.  Each file is replaced atomically.   *)
AuditPasses == \A d, e \in DOMAIN db.roots : corpus[d].text = corpus[e].text => db.roots[d] = db.roots[e]
Emitting(from, to) ==
    /\ db.phase = "emit" /\ pc = from /\ pc' = to
    /\ UNCHANGED <<corpus, cacheFile, preflight, parent, interruptions>>
ReplaceMapping ==
    IF PreflightLoads /\ AuditPasses
    THEN Emitting("run", "mapped") /\ mapping' = db.roots /\ UNCHANGED <<db, manifest, checksum>>
    ELSE Emitting("run", "refused") /\ UNCHANGED <<db, mapping, manifest, checksum>>
ReplaceManifest ==
    /\ Emitting("mapped", "described") /\ manifest' = mapping /\ UNCHANGED <<db, mapping, checksum>>
ReplaceChecksum ==
    /\ Emitting("described", "summed") /\ checksum' = manifest /\ UNCHANGED <<db, mapping, manifest>>
EmitComplete ==
    /\ Emitting("summed", "run") /\ db' = [db EXCEPT !.phase = "complete"]
    /\ UNCHANGED <<mapping, manifest, checksum>>

(* A finished output is verified again by every later run.                 *)
VerifyPublished ==
    /\ In("complete")
    /\ Refuse(IF PreflightLoads /\ checksum = manifest /\ manifest = mapping /\ mapping # None
              THEN "done" ELSE "refused")

(* A controlled stop, a resource gate that fails after a batch, an         *)
(* exception or a kill: the open transaction and the memory are lost.      *)
Interrupt ==
    /\ pc \notin {"down", "done", "refused", "overflow"} /\ interruptions < MaxInterruptions
    /\ interruptions' = interruptions + 1
    /\ pc' = "down" /\ parent' = None
    /\ UNCHANGED <<corpus, db, files>>

Inventory == IngestReport \/ InventoryComplete \/ SignArchive \/ SignaturesComplete
Candidates == FreezeBlocks \/ ReadBlock \/ CandidatesComplete
Cache == ReplaceCache \/ CommitCache \/ CacheComplete
Refine == MeasurePreflight \/ PreflightFails \/ RefineBatch \/ AddNormalizedEdges
          \/ RefineComplete
Union == LoadParents \/ UnionBatch \/ FlattenBatch \/ AssignRoots \/ UnionComplete
Emit == ReplaceMapping \/ ReplaceManifest \/ ReplaceChecksum \/ EmitComplete
        \/ VerifyPublished
NearWork == Enter \/ CreateSchema \/ InsertIdentity \/ Inventory \/ Candidates \/ Cache
            \/ Refine \/ Union \/ Emit
NearNext == NearWork \/ Interrupt

-----------------------------------------------------------------------------
(* The reference: two documents are alike when their texts are equal, or   *)
(* when they share a band and are similar enough; a document belongs to    *)
(* the least document it reaches over alike ones.                          *)
Alike(l, r) ==
    \/ corpus[l].text = corpus[r].text
    \/ /\ {l, r} \subseteq Representatives /\ corpus[l].bands \cap corpus[r].bands # {}
       /\ Accepts(<<l, r>>)
ClusterOf(d) ==
    LET within[n \in 0..Len(corpus)] ==
            IF n = 0 THEN {d}
            ELSE LET near == within[n - 1]
                 IN  near \cup {e \in Ordinals : \E c \in near : Alike(Min({c, e}), Max({c, e}))}
    IN  within[Len(corpus)]
Reference == [d \in Ordinals |-> Min(ClusterOf(d))]

(* However often the build was interrupted between a batch of edges and    *)
(* the next, between a cache file and its row, or between the files of the *)
(* output, the published map sends every document to the least document of *)
(* its cluster, and a run that reports success has published all of it.    *)
MappingExact ==
    /\ manifest # None => mapping = Reference /\ manifest = Reference
    /\ pc = "done" => checksum = manifest /\ manifest # None

(* A build ends with its output, unless the corpus overflows a frozen      *)
(* limit, the operational preflight failed, or the first launch died       *)
(* between its schema and its identity rows.                               *)
Overflowing ==
    \/ \E key \in Blocks : Cardinality(Posting(key)) > MaxPosting
    \/ Cardinality(UNION {BlockPairs(key) : key \in Blocks}) > MaxPairs
NearOver ==
    \/ pc = "done"
    \/ pc = "overflow" /\ Overflowing
    \/ pc = "refused" /\ (preflight = "fail" \/ (db.schema /\ db.phase = None))
=============================================================================
