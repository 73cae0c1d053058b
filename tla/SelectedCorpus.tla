----------------------------- MODULE SelectedCorpus -----------------------------
(***************************************************************************)
(* What pretrain/materialize.py makes of a published selection before it   *)
(* packs a token: it authenticates the manifest, reads either the decision *)
(* rows of curation or the keep bitmaps of the publisher, gives every kept *)
(* document its split, and at its end compares what it packed with the     *)
(* totals of the manifest.                                                 *)
(***************************************************************************)
EXTENDS AllEligiblePublisher

Signed ==
    IF Handoff THEN published # None /\ published.signed
    ELSE manifest # None /\ manifest.signed
Totals == IF Handoff THEN published.totals ELSE manifest.totals

(* Bitmap selections have data in every cell and whole documents only;     *)
(* decision rows fill every quota exactly.                                 *)
AllEligibleTotalsHold ==
    \A q \in Quotas : /\ published.totals[q].documents > 0 /\ published.totals[q].tokens > 0
                      /\ published.totals[q].prefixes = 0
TotalsUsable ==
    IF Handoff THEN AllEligibleTotalsHold ELSE \A q \in Quotas : manifest.totals[q].tokens = Quota[q]

SourceCurationSound ==
    LET chain == published.source.chain
    IN  /\ chain # <<>> /\ Last(chain) = published.bound
        /\ \A i \in 1 .. Len(chain) - 1 : chain[i] < chain[i + 1]
        /\ published.source.phase \in {"canonicalized", "selected", "emitting", "emitted", "complete"}
        /\ published.source.grouped

(* An archive's decisions are the file the manifest describes, with one    *)
(* decision for each document of its report.                               *)
BitmapLoads(n) == Len(bitmaps[n]) = Len(job.reports[n]) /\ KeptIn(bitmaps[n]) = published.kept[n]
ArchiveDescribed(n) ==
    IF Handoff THEN bitmaps[n] # None /\ BitmapLoads(n)
    ELSE decisions[n] = manifest.shards[n] /\ Len(decisions[n]) = Len(job.reports[n])
SelectionUsable ==
    /\ TotalsUsable
    /\ Handoff => SourceCurationSound
    /\ \A n \in DOMAIN job.reports : ArchiveDescribed(n)

(* A bitmap says nothing of the split: it follows from the source of a     *)
(* kept document, which must have one.                                     *)
DerivedSplit(d) == IF d.group = 0 THEN None ELSE SplitOf[d.group]
BitmapRow(n, k) ==
    LET d == job.reports[n][k]
        keep == bitmaps[n][k]
    IN  [id |-> d.id, keep |-> keep, split |-> IF keep THEN DerivedSplit(d) ELSE None,
         tokens |-> IF keep THEN d.tokens ELSE 0, reasons |-> {}]
Row(n, k) == IF Handoff THEN BitmapRow(n, k) ELSE decisions[n][k]

RowAccepted(row, d) ==
    /\ row.id = d.id
    /\ IF row.keep
       THEN row.split \in ToSet(SplitOrder) /\ row.tokens \in 1 .. d.tokens /\ row.reasons = {}
       ELSE row.split = None /\ row.tokens = 0 /\ (~Handoff => row.reasons # {})

(* The corpus of a selection: its kept documents, and what the counters of *)
(* a destination are when all of them are packed.                          *)
Rows == UNION {{<<n, k>> : k \in DOMAIN job.reports[n]} : n \in DOMAIN job.reports}
Packed ==
    {[doc |-> job.reports[r[1]][r[2]], split |-> Row(r[1], r[2]).split, tokens |-> Row(r[1], r[2]).tokens] :
        r \in {r \in Rows : Row(r[1], r[2]).keep}}
PackedFor(q) == {x \in Packed : x.split = q[1] /\ Category(x.doc) = q[2]}
Observed(q) ==
    Summary(PackedFor(q), TokensOf({[id |-> x.doc.id, tokens |-> x.tokens] : x \in PackedFor(q)}),
            Cardinality({x \in PackedFor(q) : x.tokens < x.doc.tokens}))

-----------------------------------------------------------------------------
(* A signed selection is one the materializer accepts and packs to the end *)
(* (_validate_selection_manifest, _validate_decision,                      *)
(* _validate_selected_totals): every row is acceptable, and each           *)
(* destination receives what the manifest's totals say, whichever snapshot *)
(* the publisher read and however often it was stopped.  And the leakage   *)
(* counts the publisher writes as zero "by construction"                   *)
(* (AllEligiblePublisher._leakage_audit) are zero: no text, cluster or     *)
(* source of the packed corpus is in two splits, no text or cluster in it  *)
(* twice.  The bitmaps are exact even before they are signed.              *)
Alike(d, e) == d.content = e.content \/ Cluster(job.profile, d) = Cluster(job.profile, e)
SelectionPacks ==
    /\ BitmapsExact
    /\ Signed =>
          /\ SelectionUsable
          /\ \A r \in Rows : RowAccepted(Row(r[1], r[2]), job.reports[r[1]][r[2]])
          /\ \A q \in Quotas : Observed(q) = Totals[q]
          /\ LET packed == Packed
             IN  \A x, y \in packed :
                    /\ Alike(x.doc, y.doc) => x = y
                    /\ x.doc.group = y.doc.group => x.split = y.split
=============================================================================
