---------------------------- MODULE CurationDatabase ----------------------------
(***************************************************************************)
(* scripts/curate_corpus.py: the SQLite database of a curation run and the *)
(* transactions that take it from an empty inventory to published          *)
(* decisions.  Work is cut into subphases, each with a durable cursor that *)
(* is committed with the rows of the batch it stands for.                  *)
(***************************************************************************)
EXTENDS CurationRules

VARIABLE job    \* what is curated and how, see below; never changes

(* reports: the frozen report inventory, a sequence of sequences of        *)
(* documents.  profile: "near" or "fast".  mode: "durable", "local" or     *)
(* "handoff".  rows: the batch size.  due: the stages at whose start the   *)
(* snapshot interval has passed.  pods: those it may be started on.        *)
(* faults: the kills and orderly stops.                                    *)
SoundJob ==   \* doc_id is a primary key, a selection rank a digest of it
    /\ job.profile \in {"near", "fast"} /\ job.rows \in Positive
    /\ job.reports \in Seq(Seq(Document))
    /\ \A n, m \in DOMAIN job.reports :
          \A k \in DOMAIN job.reports[n], l \in DOMAIN job.reports[m] :
             LET d == job.reports[n][k]
                 e == job.reports[m][l]
             IN  d.id = e.id \/ d.rank = e.rank => n = m /\ k = l

AllDocuments == UNION {ToSet(r) : r \in ToSet(job.reports)}
Handoff == job.mode = "handoff"

Inventory == [n \in DOMAIN job.reports |-> <<"inventory", n>>] \o << <<"phase", "inventory_complete">> >>
NearMap == IF job.profile = "near" THEN << <<"near_map_load">>, <<"near_map_apply">> >> ELSE <<>>
Canonicalization ==
    << <<"benchmark_content_clusters">>, <<"benchmark_final_clusters">>, <<"benchmark_exact">>,
       <<"benchmark_final">>, <<"exact_choice">>, <<"final_choice">>, <<"canonical_map">>,
       <<"residual_exact">>, <<"residual_final">>, <<"phase", "canonicalized">> >>
QuotaStages ==
    [i \in 1 .. Len(SplitOrder) * Len(Categories) |->
        <<"quota", SplitOrder[1 + ((i - 1) \div Len(Categories))],
          Categories[1 + ((i - 1) % Len(Categories))]>>]
Emission ==
    << <<"phase", "emitting">> >> \o [n \in DOMAIN job.reports |-> <<"emit", n>>]
    \o << <<"phase", "emitted">>, <<"phase", "complete">> >>

(* run: the handoff to the publisher stops after the groups.               *)
Stages ==
    Inventory \o NearMap \o Canonicalization \o << <<"groups">> >>
    \o IF Handoff THEN << <<"ready">> >>
       ELSE QuotaStages \o << <<"phase", "selected">> >> \o Emission

EmptyDatabase ==
    [at |-> 1, cursor |-> 0, phase |-> "inventory", documents |-> {}, reasons |-> {},
     nearMap |-> {}, applied |-> {}, benchContent |-> {}, benchFinal |-> {}, exact |-> {},
     final |-> {}, map |-> {}, groups |-> {}, selected |-> {}]

Finished(db) == db.at > Len(Stages)
Stage(db) == Stages[db.at]

-----------------------------------------------------------------------------
(* Views of the tables.                                                    *)
Named(db, keys) == {d \in db.documents : d.id \in keys}
ReasonsOf(db, d) == {r[2] : r \in {x \in db.reasons : x[1] = d.id}}
Clean(db) == {d \in db.documents : ReasonsOf(db, d) = {}}
Benchmarked(db) == {d \in db.documents : "benchmark" \in ReasonsOf(db, d)}
FinalClusterProvisional(db, d) == Provisional(job.profile, d)
FinalCluster(db, d) == IF d.id \in db.applied THEN 300 + d.near ELSE Provisional(job.profile, d)
ExactOf(db, d) == {e \in db.exact : e.content = d.content}
FinalOf(db, d) == {f \in db.final : FinalCluster(db, f) = FinalCluster(db, d)}
CanonicalOf(db, d) == UNION {FinalOf(db, e) : e \in ExactOf(db, d)}
SelectedTokens(db, s, c) ==
    TokensOf({x \in db.selected : x.split = s /\ \E d \in Named(db, {x.id}) : Category(d) = c})
QuotaCandidates(db, s, c) ==
    {d \in Clean(db) : Category(d) = c /\ <<d.group, s>> \in db.groups}

(* The rows of a quota after the cursor, with the room left before each.   *)
QuotaRows(db, s, c) ==
    LET ahead == {d \in QuotaCandidates(db, s, c) : d.rank > db.cursor}
        free == Quota[<<s, c>>] - SelectedTokens(db, s, c)
        Room(d) == free - TokensOf({e \in ahead : e.rank < d.rank})
    IN  {r \in {[doc |-> d, room |-> Room(d)] : d \in ahead} : r.room > 0}

-----------------------------------------------------------------------------
(* The keys a subphase still has to visit: each SELECT with its keyset     *)
(* bound, before LIMIT.                                                    *)
SubphaseKeys(db) ==
    LET stage == Stage(db) IN
    CASE stage[1] = "inventory" -> DOMAIN job.reports[stage[2]]
      [] stage[1] \in {"near_map_load", "near_map_apply"} ->
            {d.id : d \in {d \in db.documents : English(d)}}
      [] stage[1] = "benchmark_content_clusters" -> {d.content : d \in Benchmarked(db)}
      [] stage[1] = "benchmark_final_clusters" -> {FinalCluster(db, d) : d \in Benchmarked(db)}
      [] stage[1] = "benchmark_exact" ->
            {d.id : d \in {d \in db.documents : d.content \in db.benchContent}}
      [] stage[1] = "benchmark_final" ->
            {d.id : d \in {d \in db.documents : FinalCluster(db, d) \in db.benchFinal}}
      [] stage[1] = "exact_choice" -> {d.content : d \in Clean(db)}
      [] stage[1] = "final_choice" -> {FinalCluster(db, d) : d \in Clean(db) \cap db.exact}
      [] stage[1] = "canonical_map" -> {d.id : d \in {d \in Clean(db) : CanonicalOf(db, d) # {}}}
      [] stage[1] = "residual_exact" ->
            {d.id : d \in {d \in db.documents :
                ExactOf(db, d) \ {d} # {} /\ \E m \in db.map : m[1] = d.id}}
      [] stage[1] = "residual_final" ->
            {d.id : d \in {d \in db.exact : FinalOf(db, d) \ {d} # {}}}
      [] stage[1] = "groups" -> {d.group : d \in Clean(db)}
      [] stage[1] = "quota" ->
            {r.doc.rank : r \in QuotaRows(db, stage[2], stage[3])}
      [] OTHER -> {}
Pending(db) == LET keys == SubphaseKeys(db) IN {k \in keys : k > db.cursor}
Batch(db) ==    \* LIMIT batch_size
    LET pending == Pending(db)
    IN  {k \in pending : Cardinality({j \in pending : j < k}) < job.rows}

Marked(db, docs, reason) == [db EXCEPT !.reasons = @ \cup {<<d.id, reason>> : d \in docs}]

IngestRows(db, n, keys) ==    \* a document without a source is rejected
    LET docs == {job.reports[n][k] : k \in keys}
        known == [db EXCEPT !.documents = @ \cup docs,
                            !.reasons = @ \cup UNION {{<<d.id, f>> : f \in d.flags} : d \in docs}]
    IN  Marked(known, {d \in docs : d.group = 0}, "sourceless")
SelectRows(db, s, c, keys) ==
    [db EXCEPT !.selected = @ \cup
        {[id |-> r.doc.id, split |-> s, tokens |-> Min({r.doc.tokens, r.room})] :
            r \in {r \in QuotaRows(db, s, c) : r.doc.rank \in keys}}]

(* What a batch inserts.                                                   *)
Write(db, keys) ==
    LET stage == Stage(db) IN
    CASE stage[1] = "inventory" -> IngestRows(db, stage[2], keys)
      [] stage[1] = "near_map_load" -> [db EXCEPT !.nearMap = @ \cup keys]
      [] stage[1] = "near_map_apply" -> [db EXCEPT !.applied = @ \cup (keys \cap db.nearMap)]
      [] stage[1] = "benchmark_content_clusters" -> [db EXCEPT !.benchContent = @ \cup keys]
      [] stage[1] = "benchmark_final_clusters" -> [db EXCEPT !.benchFinal = @ \cup keys]
      [] stage[1] \in {"benchmark_exact", "benchmark_final"} ->
            Marked(db, Named(db, keys), "cluster")
      [] stage[1] = "exact_choice" ->
            [db EXCEPT !.exact = @ \cup {Best({d \in Clean(db) : d.content = k}) : k \in keys}]
      [] stage[1] = "final_choice" ->
            [db EXCEPT !.final = @ \cup
                {Best({d \in Clean(db) \cap db.exact : FinalCluster(db, d) = k}) : k \in keys}]
      [] stage[1] = "canonical_map" ->
            [db EXCEPT !.map = @ \cup
                UNION {{<<d.id, f.id>> : f \in CanonicalOf(db, d)} : d \in Named(db, keys)}]
      [] stage[1] = "residual_exact" -> Marked(db, Named(db, keys), "residual_exact")
      [] stage[1] = "residual_final" -> Marked(db, Named(db, keys), "residual_final")
      [] stage[1] = "groups" -> [db EXCEPT !.groups = @ \cup {<<g, SplitOf[g]>> : g \in keys}]
      [] stage[1] = "quota" -> SelectRows(db, stage[2], stage[3], keys)

(* _commit_bounded_batch: the rows and the cursor in one transaction.      *)
BoundedBatch(db) ==
    LET keys == Batch(db) IN [Write(db, keys) EXCEPT !.cursor = Max(keys)]

-----------------------------------------------------------------------------
(* What must hold before a subphase or a phase is declared complete.       *)
Residual == {"residual_exact", "residual_final"}
StillEligible(db) == {d \in db.documents : ReasonsOf(db, d) \subseteq Residual}

CanonicalizationValid(db) ==
    LET E == StillEligible(db)
        X == {d \in E : d \in db.exact}
    IN  /\ db.exact = {Best({d \in E : d.content = c}) : c \in {d.content : d \in E}}
        /\ db.final = {Best({d \in X : FinalCluster(db, d) = k}) :
                          k \in {FinalCluster(db, d) : d \in X}}
        /\ db.map = UNION {{<<d.id, f.id>> : f \in CanonicalOf(db, d)} : d \in E}
        /\ \A d \in E :
              ReasonsOf(db, d) = IF d \notin db.exact THEN {"residual_exact"}
                                 ELSE IF d \notin db.final THEN {"residual_final"} ELSE {}
        /\ Cardinality(Clean(db)) = Cardinality(db.final)
        /\ \A d \in db.documents :
              "cluster" \in ReasonsOf(db, d) <=>
                  d.content \in db.benchContent \/ FinalCluster(db, d) \in db.benchFinal

NearApplied(db) == \A d \in db.documents : English(d) => d.id \in db.applied
GroupsValid(db) == db.groups = {<<d.group, SplitOf[d.group]>> : d \in Clean(db)}

(* _leakage_audit: content, clusters and sources are in one split only.    *)
Placed(db) ==
    UNION {{<<d, x.split>> : d \in Named(db, {x.id})} : x \in db.selected}
LeakageFree(db) ==
    \A x, y \in Placed(db) :
        /\ \/ x[1].content = y[1].content \/ x[1].group = y[1].group
           \/ FinalCluster(db, x[1]) = FinalCluster(db, y[1])
           => x[2] = y[2]
        /\ job.profile = "fast" /\ x # y =>
              x[1].normal # y[1].normal /\ x[1].content # y[1].content

SelectionValid(db) ==
    /\ \A q \in Quotas : SelectedTokens(db, q[1], q[2]) = Quota[q]
    /\ \A x \in db.selected : \E d \in Clean(db) :
          d.id = x.id /\ x.tokens \in 1 .. d.tokens /\ <<d.group, x.split>> \in db.groups
    /\ LeakageFree(db)

Completable(db) ==
    LET stage == Stage(db) IN
    CASE stage[1] = "near_map_load" -> {d.id : d \in {d \in db.documents : English(d)}} = db.nearMap
      [] stage[1] = "near_map_apply" -> NearApplied(db)
      [] stage[1] = "groups" -> GroupsValid(db)
      [] stage[1] = "quota" -> SelectedTokens(db, stage[2], stage[3]) = Quota[<<stage[2], stage[3]>>]
      [] stage = <<"phase", "inventory_complete">> -> db.documents = AllDocuments
      [] stage = <<"phase", "canonicalized">> -> CanonicalizationValid(db)
      [] stage = <<"phase", "selected">> -> SelectionValid(db)
      [] OTHER -> TRUE

(* _complete_subphase, or the transaction that advances the phase.         *)
Completed(db) ==
    [db EXCEPT !.at = @ + 1, !.cursor = 0,
               !.phase = IF Stage(db)[1] = "phase" THEN Stage(db)[2] ELSE @]

Verdict(db) ==
    IF Pending(db) # {} THEN "batch" ELSE IF Completable(db) THEN "complete" ELSE "refuse"

-----------------------------------------------------------------------------
(* _decision_rows and _emit_archive: the published decision of a document. *)
Mine(db, d) == {x \in db.selected : x.id = d.id}
DecisionIf(keep, db, d) ==
    LET row == IF Mine(db, d) = {} THEN [split |-> None, tokens |-> 0]
               ELSE CHOOSE x \in Mine(db, d) : TRUE
    IN  [id |-> d.id, keep |-> keep, split |-> row.split, tokens |-> row.tokens,
         reasons |-> IF ~keep /\ ReasonsOf(db, d) = {} THEN {"quota_overflow"}
                     ELSE ReasonsOf(db, d)]
DecisionKeepsOverflow(db, d) == DecisionIf(ReasonsOf(db, d) = {}, db, d)
Decision(db, d) == DecisionIf(Mine(db, d) # {}, db, d)
DecisionShard(db, n) == [k \in DOMAIN job.reports[n] |-> Decision(db, job.reports[n][k])]

(* finalize: what the manifest says of each split and category.            *)
Summary(docs, tokens, prefixes) ==
    [documents |-> Cardinality(docs), tokens |-> tokens, prefixes |-> prefixes]
QuotaRow(db, s, c) ==
    LET rows == {x \in db.selected : x.split = s /\ \E d \in Named(db, {x.id}) : Category(d) = c}
    IN  Summary(rows, TokensOf(rows),
                Cardinality({x \in rows : \E d \in Named(db, {x.id}) : x.tokens < d.tokens}))
QuotaTotals(db) == [q \in Quotas |-> QuotaRow(db, q[1], q[2])]
=============================================================================
