---------------------------- MODULE PortableFinalizer ----------------------------
(***************************************************************************)
(* PortablePackedFinalizer (pretrain/portable_finalize.py): the orders and *)
(* the manifest of a corpus whose packing another run, usually on another  *)
(* machine, has left at phase "packed".  Mode "heldout" publishes the      *)
(* held-out orders before the training geometry is known, mode "final" the *)
(* rest.  It works in the materializer's directory and takes its lock, so  *)
(* the two may be run in any order; this module adds its jobs to theirs.   *)
(***************************************************************************)
EXTENDS Materializer

(* Mode "heldout" is a job that stops before the training order.           *)
PortableJobs == [kind : {"portable"}, geometry : Geometries, stop : {FALSE}]
                  \cup {[kind |-> "portable", geometry |-> None, stop |-> TRUE]}

(* authenticate: the journal hands over a complete packing, and the packed *)
(* and index manifests are the ones its cursors describe.                  *)
HandedOver(phases) ==
    /\ journal # None /\ journal.phase \in phases
    /\ \A d \in Dests :
          /\ journal.cursors[d].next = Len(Kept)
          /\ writer[d].published /\ writer[d].cursor = journal.cursors[d]
          /\ writer[d].cursor.documents = Len(writer[d].docs)
          /\ indexManifest[d] # None /\ IndexValid(d, indexManifest[d])

AuthenticatedAnyPhase == HandedOver({"packed", "orders", "finalizing"})
Authenticated == HandedOver({"packed"})

Start ==
    /\ pc = "prepare" /\ job.kind = "portable"
    /\ \/ Complete /\ Goto("validate") /\ UNCHANGED <<memory, pending>>
       \/ /\ ~Complete /\ (manifest # None \/ sidecar = None) /\ Authenticated
          /\ Goto("orders")
          /\ todo' = IF job.stop THEN Tail(Splits) ELSE Append(Tail(Splits), Train)
          /\ UNCHANGED <<left, fed, held>>
       \/ /\ ~Complete /\ ~((manifest # None \/ sidecar = None) /\ Authenticated)
          /\ End("refused") /\ Forget
    /\ UNCHANGED <<directory, failures>>

(* _build_order is ReuseOrder, StageOrder and PublishOrder of Materializer *)
(* with the portable targets, its own staging name and no journal entry.   *)
OrdersBuilt ==
    /\ pc = "orders" /\ todo = <<>> /\ job.kind = "portable"
    /\ IF job.stop THEN End("held_out") /\ Forget
       ELSE Goto("provenance") /\ todo' = ProvenanceFiles(job.kind)
            /\ UNCHANGED <<left, fed, held>>
    /\ UNCHANGED <<directory, failures>>

(* What is published already must be what this run would write.            *)
KeepOrWriteProvenance ==
    /\ pc = "provenance" /\ job.kind = "portable"
    /\ IF todo = <<>> THEN Goto("manifest") /\ UNCHANGED <<memory, pending, provenance>>
       ELSE LET file == Head(todo)
            IN  IF provenance[file] \in {None, Payload(file)}
                THEN /\ provenance' = [provenance EXCEPT ![file] = Payload(file)]
                     /\ todo' = Tail(todo)
                     /\ UNCHANGED <<run, left, fed, held>>
                ELSE End("refused") /\ Forget /\ UNCHANGED provenance
    /\ UNCHANGED <<writer, indexes, journal, orders, staging, manifest, sidecar, failures>>

KeepOrWriteManifest ==
    /\ pc = "manifest" /\ job.kind = "portable"
    /\ \/ manifest = None /\ Write("manifest", FinalManifest, "checksum") /\ UNCHANGED memory
       \/ manifest # None /\ manifest = FinalManifest
            /\ Goto("checksum") /\ UNCHANGED <<memory, pending>>
       \/ manifest # None /\ manifest # FinalManifest /\ End("refused") /\ Forget
    /\ UNCHANGED <<directory, failures>>

WriteChecksum ==
    /\ pc = "checksum"
    /\ Write("sidecar", manifest, "validate")
    /\ UNCHANGED <<memory, directory, failures>>

(* _validate_completed, with the geometry check of a final run before it.  *)
ValidatePublished ==
    /\ pc = "validate" /\ job.kind = "portable"
    /\ IF ~job.stop /\ manifest.configuration.geometry # job.geometry
       THEN End("refused") /\ UNCHANGED journal
       ELSE IF sidecar = manifest /\ Described
       THEN End("complete") /\ journal' = None
       ELSE End("unrecoverable") /\ UNCHANGED journal
    /\ Forget
    /\ UNCHANGED <<writer, indexes, publication, failures>>

PortableProgress == \/ Start \/ OrdersBuilt \/ KeepOrWriteProvenance \/ KeepOrWriteManifest
                    \/ WriteChecksum \/ ValidatePublished

(***************************************************************************)
(* What the operator does with one directory: the materializer alone, or   *)
(* packing by it on one machine and the orders by the finalizer on another *)
(* (the two documented recipes, each with one geometry), or any runs of    *)
(* both programs with any geometry.                                        *)
(***************************************************************************)
VARIABLE recipe

PackingJob == [kind |-> "materialize", geometry |-> None, stop |-> TRUE]
FinalJob == [kind |-> "portable", geometry |-> Wanted.geometry, stop |-> FALSE]
HeldoutJob == [kind |-> "portable", geometry |-> None, stop |-> TRUE]
RecipeJobs == CASE recipe = "alone" -> {PackingJob, Wanted}
                [] recipe = "handoff" -> {PackingJob, HeldoutJob, FinalJob}
                [] recipe = "mixed" -> Jobs \cup PortableJobs

PackingInit == Init /\ recipe \in {"alone", "handoff", "mixed"}
PackingNext == /\ \/ \E j \in RecipeJobs : Launch(j)
                 \/ Progress \/ PortableProgress \/ ControlledStop \/ Crash
              /\ UNCHANGED recipe

-----------------------------------------------------------------------------
(* Properties; PublishedIsReference, JournalBacked, PublicationConsistent  *)
(* and WritersPromised of Materializer are asked of both programs together.*)

\* Neither recipe ever meets a state that its own fail-closed checks call
\* damaged, wherever its runs were stopped or killed.
RecipeNeverRefuses == recipe # "mixed" => ResumeNeverRefuses

\* The bridge journal is backed by the writers (JournalBacked), and a portable
\* corpus certifies the packing it was made from: its provenance holds the
\* journal of phase "packed" whose cursors are those of the published writers,
\* whichever runs of either program came between (_load_journal,
\* _provenance_payloads).
HandoffExact ==
    /\ JournalBacked
    /\ Complete /\ manifest.contents.provenance["handoff"] # None =>
      LET handoff == provenance["handoff"]
      IN  /\ handoff.phase = "packed"
          /\ \A d \in Dests : writer[d].published /\ handoff.cursors[d] = writer[d].cursor

\* One publication, however its runs alternated: consistent in itself, and the
\* packing that its provenance certifies.
PublicationExact == PublicationConsistent /\ HandoffExact

\* What is published stays so: the writers keep the promise of PackedStream, and
\* an order somebody may already be reading is never replaced, by either
\* program, with any geometry (_build_orders, _build_order).
PublishedIsFinal ==
    /\ WritersPromised
    /\ [][\A s \in SeqSet(Splits) : orders[s] # None => orders'[s] = orders[s]]_vars
=============================================================================
