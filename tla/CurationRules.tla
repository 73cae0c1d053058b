------------------------------ MODULE CurationRules ------------------------------
(***************************************************************************)
(* What corpus curation decides about a set of documents, as functions of  *)
(* that set alone: who is contaminated, which copy of a duplicate is kept, *)
(* which split a source belongs to and which documents fill a quota.  A    *)
(* document is                                                             *)
(*   [id, bucket, content, normal, near, group, penalty, rank, tokens,     *)
(*    flags], flags within {"hard", "benchmark"},                          *)
(* where digests are numbers, near is its cluster in the English near      *)
(* mapping and group is 0 when its provenance names no source.             *)
(***************************************************************************)
EXTENDS Integers, SequencesExt, FiniteSetsExt, Functions

CONSTANTS
    SplitOf,      \* SplitOf[group]: the hash range the group falls in
    SplitOrder,   \* the policy's order of the splits
    Quota,        \* Quota[split, category] in tokens, at least 1
    None

(* What the policy is checked for and what ingestion accepts of a row.     *)
Positive == Nat \ {0}
Document ==
    [id : Positive, bucket : {"python", "other_code", "fineweb_edu", "wikipedia"},
     content : Positive, normal : Positive, near : Positive, group : {0} \cup DOMAIN SplitOf,
     penalty : Nat, rank : Positive, tokens : Positive, flags : SUBSET {"hard", "benchmark"}]

Category(d) == IF d.bucket \in {"fineweb_edu", "wikipedia"} THEN "english" ELSE d.bucket
English(d) == Category(d) = "english"
Categories == <<"python", "other_code", "english">>

(* Final clusters: normalized text within code and within English, or over *)
(* both in the fast profile; the near mapping replaces the English ones.   *)
Provisional(profile, d) ==
    CASE profile = "fast" -> d.normal
      [] profile = "near" /\ English(d) -> 100 + d.normal
      [] OTHER -> 200 + d.normal
Cluster(profile, d) ==
    IF profile = "near" /\ English(d) THEN 300 + d.near ELSE Provisional(profile, d)

(* canonical_rank: soft penalties first, then the document id.             *)
Before(d, e) == d.penalty < e.penalty \/ (d.penalty = e.penalty /\ d.id < e.id)
Best(docs) == CHOOSE d \in docs : \A e \in docs \ {d} : Before(d, e)

Flagged(docs) == {d \in docs : "benchmark" \in d.flags}
Contaminated(profile, docs) ==
    {d \in docs : \E b \in Flagged(docs) :
        d.content = b.content \/ Cluster(profile, d) = Cluster(profile, b)}
Eligible(profile, docs) ==
    {d \in docs : d.flags = {} /\ d.group # 0} \ Contaminated(profile, docs)

(* One copy of every content, then one of every final cluster.             *)
BestOfEach(docs, feature) ==
    {Best({d \in docs : feature[d] = k}) : k \in Range(feature)}
FinalChoice(profile, docs) ==
    LET eligible == Eligible(profile, docs)
        exact == BestOfEach(eligible, [d \in eligible |-> d.content])
    IN  BestOfEach(exact, [d \in exact |-> Cluster(profile, d)])

(* Tokens are counted as (document, position) pairs.                       *)
TokensOf(docs) == Cardinality(UNION {{d.id} \X (1 .. d.tokens) : d \in docs})

(* The documents of a split and category by selection rank until the quota *)
(* is full; the last one only with a prefix of its tokens.                 *)
Quotas == ToSet(SplitOrder) \X ToSet(Categories)
ASSUME PolicyAssumption ==
    /\ SplitOrder \in Seq(ToSet(SplitOrder)) /\ IsInjective(SplitOrder)
    /\ \A g \in DOMAIN SplitOf : g # 0 /\ SplitOf[g] \in ToSet(SplitOrder)
    /\ Quota \in [Quotas -> Positive]
QuotaOf(d) == <<SplitOf[d.group], Category(d)>>
Selection(profile, docs) ==
    LET chosen == FinalChoice(profile, docs)
        Room(d) == Quota[QuotaOf(d)]
                     - TokensOf({e \in chosen : QuotaOf(e) = QuotaOf(d) /\ e.rank < d.rank})
    IN  {[id |-> d.id, split |-> SplitOf[d.group], tokens |-> Min({d.tokens, Room(d)})] :
            d \in {e \in chosen : Room(e) > 0}}

(* No split and category is short of documents.                            *)
Supplied(profile, docs) ==
    LET chosen == FinalChoice(profile, docs)
    IN  \A q \in Quotas : TokensOf({d \in chosen : QuotaOf(d) = q}) >= Quota[q]
=============================================================================
