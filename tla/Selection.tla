------------------------------- MODULE Selection --------------------------------
(***************************************************************************)
(* The two programs that decide what the corpus is made of: the English    *)
(* near-duplicate map is built and published first, curation reads it      *)
(* and chooses.  The two never run at once and share only the published    *)
(* map, so a behaviour of the composition is one of the two stages.        *)
(***************************************************************************)
EXTENDS CurationHandoff

CONSTANTS NearCorpora, Threshold, MaxPosting, MaxPairs, NearBatch, MaxInterruptions

VARIABLES stage,       \* "near" or "curation"
          nearCorpus, nearDb, cacheFile, preflight, mapping, nearManifest, checksum, nearPc,
          parent, interruptions

Near == INSTANCE EnglishNearClusters WITH
            Corpora <- NearCorpora, corpus <- nearCorpus,
            db <- nearDb,
            manifest <- nearManifest, pc <- nearPc

(* An inventory lists documents of finitely many shingles; a band key is   *)
(* its place in the order of the blocks.  None names no phase.             *)
ASSUME NearAssumption ==
    /\ NearBatch \in Positive /\ Threshold.num \in Nat /\ Threshold.den \in Nat
    /\ \A c \in NearCorpora :
         /\ c \in Seq(Range(c))
         /\ \A d \in DOMAIN c : IsFiniteSet(c[d].shingles) /\ c[d].bands \subseteq Nat
    /\ None \notin Range(Near!Phases)

nearVars == <<nearCorpus, nearDb, cacheFile, preflight, mapping, nearManifest, checksum,
              nearPc, parent, interruptions>>
selectionVars == <<stage, nearVars, handoffVars>>

SelectionInit ==
    /\ stage \in {"near", "curation"}
    /\ Near!NearInit /\ HandoffInit

NearStage ==
    stage = "near" /\ Near!NearNext /\ UNCHANGED <<stage, handoffVars>>
CurationStage ==
    /\ stage = "curation"
    /\ \/ ~Handoff /\ CurationOnly
       \/ Handoff /\ HandoffNext
    /\ UNCHANGED <<stage, nearVars>>
SelectionNext == NearStage \/ CurationStage

SelectionSpec == SelectionInit /\ [][SelectionNext]_selectionVars

SelectionFairness ==
    /\ WF_nearVars(stage = "near" /\ Near!NearWork)
    /\ \A p \in Pods : WF_handoffVars(stage = "curation" /\ Keeps(p))
    /\ WF_handoffVars(stage = "curation" /\ HandoffKeeps)

(* The published near-duplicate map is the reference clustering, however   *)
(* often its build was interrupted between a batch of edges and the next,  *)
(* between a cache file and its row, or between the files of the output    *)
(* (union_edges, build_refinement_cache, emit).                            *)
NearMappingExact == stage = "near" => Near!MappingExact

(* Under fair scheduling and finitely many interruptions each stage ends   *)
(* with its output, or stops for the reason its documents give.            *)
SelectionCompletes ==
    <>[](\/ stage = "near" /\ Near!NearOver
         \/ stage = "curation" /\ (Delivered \/ Blocked))
=============================================================================
