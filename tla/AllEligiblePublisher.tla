-------------------------- MODULE AllEligiblePublisher --------------------------
(***************************************************************************)
(* scripts/publish_all_eligible_selection.py beside the handoff curation   *)
(* that feeds it: a publisher binds the newest complete snapshot, writes a *)
(* keep bitmap per archive under a checkpoint, and publishes a manifest.   *)
(* A change of what it bound poisons the publication for good.             *)
(***************************************************************************)
EXTENDS Curation

(* Neither a bitmap nor a checkpoint is None.                              *)
ASSUME PublisherAssumption == None \notin Seq(BOOLEAN) /\ None \notin [bound : Nat, kept : Seq(Nat)]

VARIABLES
    publisher,    \* [pc, bound]: the process and the generation it bound
    checkpoint,   \* [bound, kept]: PUBLICATION_CHECKPOINT.json, or None;
                  \* kept[n]: the descriptor's kept_documents of archive n
    bitmaps,      \* bitmaps[n]: the keep bitmap of report n on disk, or None
    published,    \* [bound, source, totals, kept, signed]: the manifest, or None
    poisoned

publisherVars == <<publisher, checkpoint, bitmaps, published, poisoned>>

PublisherInit ==
    /\ publisher = [pc |-> "off", bound |-> 0] /\ checkpoint = None
    /\ bitmaps = [n \in DOMAIN job.reports |-> None]
    /\ published = None /\ poisoned = FALSE

PublisherAt(pc) == publisher.pc = pc
PublisherGoto(pc) == publisher' = [publisher EXCEPT !.pc = pc]
Exit == publisher' = [pc |-> "off", bound |-> 0]

Source == snaps[publisher.bound].db
Unchanged == snaps[publisher.bound].payload   \* _verify_source_unchanged
Poison == poisoned' = TRUE /\ Exit

(* The snapshot chain: every generation with a manifest continues the one  *)
(* before it; an earlier one has its database or a receipt that it was     *)
(* retired, the bound one is the newest and was never retired.             *)
Manifests == {g \in DOMAIN snaps : Published(g)}
Continues(h) ==
    /\ snaps[h].stage = "complete"
    /\ snaps[h].prev = Max({0} \cup {i \in Manifests : i < h})
SnapshotShape(h) ==
    /\ Continues(h) /\ snaps[h].receipt # "torn"
    /\ snaps[h].receipt = "whole" \/ snaps[h].payload
ChainTo(g) ==
    /\ \A h \in Manifests \ {g} : h < g /\ SnapshotShape(h)
    /\ g \in Manifests /\ Continues(g) /\ snaps[g].receipt = "none" /\ snaps[g].payload

(* audit_eligible_supply: what is not rejected, by the split of its group. *)
SupplyRow(db, s, c) ==
    LET docs == QuotaCandidates(db, s, c) IN Summary(docs, TokensOf(docs), 0)
SupplyTotals(db) == [q \in Quotas |-> SupplyRow(db, q[1], q[2])]
CoversEveryCell(db) ==
    /\ {d.bucket : d \in Clean(db)} = {"python", "other_code", "fineweb_edu", "wikipedia"}
    /\ \A q \in Quotas : QuotaCandidates(db, q[1], q[2]) # {}

(* The constructor: also a database with complete groups, the split of     *)
(* each computed again.                                                    *)
BindableAnyPhase(g) == ChainTo(g) /\ CoversEveryCell(snaps[g].db)
Bindable(g) ==
    /\ BindableAnyPhase(g)
    /\ Past(snaps[g].db, <<"groups">>) /\ GroupsValid(snaps[g].db)

Bind(g) ==
    /\ PublisherAt("off") /\ ~poisoned /\ Bindable(g)
    /\ publisher' = [pc |-> "resume", bound |-> g]
    /\ UNCHANGED <<checkpoint, bitmaps, published, poisoned>>

(* The documents a bitmap keeps; a committed bitmap is read again and      *)
(* compared with its descriptor.                                           *)
KeptIn(bitmap) == Cardinality({k \in DOMAIN bitmap : bitmap[k]})
Committed == DOMAIN checkpoint.kept
CommittedShardHolds(n) ==
    bitmaps[n] # None /\ Len(bitmaps[n]) = Len(job.reports[n]) /\ KeptIn(bitmaps[n]) = checkpoint.kept[n]
AnotherAuthority == checkpoint.bound # publisher.bound

(* run: another authority's checkpoint is refused; a manifest without its  *)
(* checksum is reconstructed and signed.                                   *)
Resigned == [published EXCEPT !.signed = TRUE]

Resume ==
    /\ PublisherAt("resume")
    /\ IF ~Unchanged THEN Poison /\ UNCHANGED <<checkpoint, published>>
       ELSE IF checkpoint # None /\ (AnotherAuthority \/ \E n \in Committed : ~CommittedShardHolds(n))
       THEN Exit /\ UNCHANGED <<checkpoint, published, poisoned>>
       ELSE /\ checkpoint' = IF checkpoint = None THEN [bound |-> publisher.bound, kept |-> <<>>]
                             ELSE checkpoint
            /\ IF published # None
               THEN published' = Resigned /\ PublisherGoto("final")
               ELSE PublisherGoto("work") /\ UNCHANGED published
            /\ UNCHANGED poisoned
    /\ UNCHANGED bitmaps

(* ARCHIVE_BITMAP_SQL: the documents without a rejection.                  *)
Bitmap(n) == [k \in DOMAIN job.reports[n] |-> job.reports[n][k] \in Clean(Source)]

Missing == DOMAIN job.reports \ Committed
WriteBitmap ==
    /\ PublisherAt("work") /\ Missing # {}
    /\ LET n == Min(Missing)
       IN  /\ bitmaps[n] \in {None, Bitmap(n)}     \* an orphan shard must be the same
           /\ bitmaps' = [bitmaps EXCEPT ![n] = Bitmap(n)]
    /\ PublisherGoto("commit")
    /\ UNCHANGED <<checkpoint, published, poisoned>>
CommitBitmap ==
    /\ PublisherAt("commit")
    /\ checkpoint' = [checkpoint EXCEPT !.kept = Append(@, KeptIn(bitmaps[Min(Missing)]))]
    /\ PublisherGoto("work")
    /\ UNCHANGED <<bitmaps, published, poisoned>>

(* Numbers from the least to the greatest.                                 *)
Ascending(S) ==
    [i \in 1 .. Cardinality(S) |-> CHOOSE x \in S : Cardinality({y \in S : y < x}) = i - 1]

(* What the manifest says of its source: the generations it validated and  *)
(* how far the bound database had come.                                    *)
SourceEvidence(g) ==
    [chain |-> Ascending({h \in Manifests : h <= g}), phase |-> snaps[g].db.phase,
     grouped |-> Past(snaps[g].db, <<"groups">>)]
ManifestOf(g) ==
    [bound |-> g, source |-> SourceEvidence(g), totals |-> SupplyTotals(snaps[g].db),
     kept |-> checkpoint.kept, signed |-> FALSE]
AllKept(kept, totals) ==
    MapThenSumSet(LAMBDA n : kept[n], DOMAIN kept)
        = MapThenSumSet(LAMBDA q : totals[q].documents, DOMAIN totals)

PublishManifest ==
    /\ PublisherAt("work") /\ Missing = {}
    /\ AllKept(checkpoint.kept, SupplyTotals(Source))
    /\ IF Unchanged
       THEN /\ published' = ManifestOf(publisher.bound)
            /\ PublisherGoto("sign") /\ UNCHANGED poisoned
       ELSE Poison /\ UNCHANGED published
    /\ UNCHANGED <<checkpoint, bitmaps>>
SignManifest ==
    /\ PublisherAt("sign") /\ published' = [published EXCEPT !.signed = TRUE]
    /\ PublisherGoto("final")
    /\ UNCHANGED <<checkpoint, bitmaps, poisoned>>
FinalCheck ==
    /\ PublisherAt("final")
    /\ IF Unchanged THEN PublisherGoto("done") /\ UNCHANGED poisoned ELSE Poison
    /\ UNCHANGED <<checkpoint, bitmaps, published>>

(* --max-new-archives, or a kill.                                          *)
PublisherStops ==
    /\ publisher.pc \notin {"off", "done"} /\ faults > 0 /\ faults' = faults - 1 /\ Exit
    /\ UNCHANGED <<job, local, snaps, outputVars, leaseVars, procs>>
    /\ UNCHANGED <<checkpoint, bitmaps, published, poisoned>>

PublisherRuns ==
    Resume \/ WriteBitmap \/ CommitBitmap \/ PublishManifest \/ SignManifest \/ FinalCheck

-----------------------------------------------------------------------------
(* PROPERTIES                                                              *)

(* A publication keeps exactly one copy of every uncontaminated text, and  *)
(* its checkpoint covers every archive, whichever snapshot it was resumed  *)
(* against and however often curation was run again meanwhile.             *)
BitmapsExact ==
    LET chosen == FinalChoice(job.profile, AllDocuments)
    IN  /\ published # None => Missing = {} /\ published.kept = checkpoint.kept
        /\ \A n \in DOMAIN bitmaps : bitmaps[n] # None =>
              bitmaps[n] = [k \in DOMAIN job.reports[n] |-> job.reports[n][k] \in chosen]
=============================================================================
