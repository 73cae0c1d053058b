------------------------------ MODULE Orchestrator ------------------------------
(***************************************************************************)
(* What the postcuration orchestrator (pretrain/postcuration_orchestrator) *)
(* concludes from a materialization output it did not write: it reads the  *)
(* directory at any moment, next to any run of either program, and only a  *)
(* "ready" or "resumable" directory is handed to a packing run.            *)
(***************************************************************************)
EXTENDS PortableFinalizer

LockHeld == pc # "down"
WaitingOr(status) == IF LockHeld THEN "waiting" ELSE status

(* A temporary of atomic_json is an unknown output.                        *)
UnknownOutputsWithParts == temps # {} \/ pc = "replace" \/ indexParts # {}
UnknownOutputs == temps # {} \/ pc = "replace"

(* A corpus with its orders is compared with a configuration that freezes  *)
(* no geometry: what a final run published is not the orchestrator's.      *)
Unfrozen == [target |-> Target["materialize"], geometry |-> None]
FinalizedInspection ==
    IF /\ Complete /\ journal = None /\ sidecar = manifest
       /\ manifest.configuration = Unfrozen
       /\ Described /\ \A d \in Dests : IndexValid(d, indexManifest[d])
    THEN WaitingOr("complete") ELSE "refused"

OrderState == staging # {} \/ \E s \in SeqSet(Splits) : orders[s] # None

(* The packed hand-off: every writer published at the end of the archives, *)
(* with the cursor the journal names and an index of its documents.        *)
TerminalCursor(d) ==
    /\ CursorValid(d, writer[d].cursor)
    /\ writer[d].cursor.next = Len(Kept)
    /\ journal.cursors[d] = writer[d].cursor
    /\ writer[d].cursor.documents = Len(writer[d].docs)
PackedInspection ==
    IF \A d \in Dests : /\ writer[d].published /\ TerminalCursor(d)
                        /\ indexManifest[d] # None /\ IndexValid(d, indexManifest[d])
    THEN WaitingOr("complete") ELSE "refused"

(* completed_archives is the lowest cursor the journal holds.              *)
Counted(cursors) == IF cursors = <<>> THEN 0 ELSE CHOOSE n \in {cursors[d].next : d \in Dests} :
                                                     \A d \in Dests : n <= cursors[d].next
PackingInspection ==
    IF journal.cursors = <<>> \/ \A d \in Dests : CursorValid(d, journal.cursors[d])
    THEN WaitingOr("resumable") ELSE "refused"

InspectMaterialization ==
    CASE UnknownOutputs -> "refused"
      [] ~UnknownOutputs /\ (manifest # None \/ sidecar # None) -> FinalizedInspection
      [] ~UnknownOutputs /\ manifest = None /\ sidecar = None ->
           CASE OrderState -> "refused"
             [] ~OrderState /\ journal = None -> WaitingOr("ready")
             [] ~OrderState /\ journal # None ->
                  CASE journal.phase = "packed" /\ Counted(journal.cursors) = Len(Kept) ->
                         PackedInspection
                    [] journal.phase = "packing" -> PackingInspection
                    [] OTHER -> "refused"

-----------------------------------------------------------------------------
(* What it calls complete holds every document, in order, whichever runs   *)
(* came before; and an output it has to advance, one that nobody is        *)
(* working on and that no run has taken beyond packing, is never refused   *)
(* (_inspect_materialization).                                             *)
OrchestratorExact ==
    /\ InspectMaterialization = "complete" =>
          \A d \in Dests : writer[d].published /\ writer[d].docs = Reference(d)
    /\ (/\ ~LockHeld /\ temps = {} /\ manifest = None /\ ~OrderState
        /\ (journal = None \/ journal.phase \in {"packing", "packed"})) =>
          InspectMaterialization \in {"ready", "resumable", "complete"}
=============================================================================
