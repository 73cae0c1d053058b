--------------------------------- MODULE Corpus ---------------------------------
(***************************************************************************)
(* From raw archives to the packed corpus.  The archives are tokenized     *)
(* once into the raw token cache; the materializer and the finalizer pack  *)
(* what the join over that cache hands them.  The packing of Materializer  *)
(* takes the documents of an archive as given, which is what the cache     *)
(* promises, so a behaviour of the composition is one of the two scenes.   *)
(***************************************************************************)
EXTENDS Orchestrator

CONSTANTS RawArchives, Counts, Slots, MaxBatchDocuments, MaxBatchTokens, MaxFaults

VARIABLES scene,     \* "cache" or "packing"
          installed, raw, cache, stages, session, worker, inventory, join, inherits, faults

Raw == INSTANCE RawTokenCache

(* The discovered archives and their fingerprints' token counts.           *)
ASSUME RawAssumption ==
    /\ RawArchives \in Seq(Raw!All) /\ \A a \in Raw!All : Counts[a] \in Seq(Nat)
    /\ MaxBatchDocuments \in Nat /\ MaxBatchTokens \in Nat

cacheVars == <<installed, raw, cache, stages, session, worker, inventory, join,
               inherits, faults>>
corpusVars == <<scene, vars, recipe, cacheVars>>

CorpusInit ==
    /\ scene \in {"cache", "packing"}
    /\ PackingInit /\ (scene = "cache" => recipe = "alone")
    /\ Raw!CacheInit /\ (scene = "packing" => ~inherits)
CorpusNext == \/ scene = "cache" /\ Raw!CacheNext /\ UNCHANGED <<scene, vars, recipe>>
              \/ scene = "packing" /\ PackingNext /\ UNCHANGED <<scene, cacheVars>>

(* A run makes progress until it returns or is interrupted; each stage of  *)
(* a recipe is asked for again and again, by someone who does not know     *)
(* whether the one before it has finished.                                 *)
CorpusSpec ==
    /\ CorpusInit /\ [][CorpusNext]_corpusVars
    /\ WF_vars(scene = "packing" /\ (Progress \/ PortableProgress))
    /\ SF_vars(scene = "packing" /\ recipe = "alone" /\ Launch(Wanted))
    /\ SF_vars(scene = "packing" /\ recipe = "handoff" /\ Launch(PackingJob))
    /\ SF_vars(scene = "packing" /\ recipe = "handoff" /\ Launch(FinalJob))
    /\ WF_cacheVars(scene = "cache" /\ Raw!CacheWork)
    /\ WF_cacheVars(scene = "cache" /\ Raw!JoinWork)
    /\ SF_cacheVars(scene = "cache" /\ Raw!LaunchBuild(FALSE))
    /\ SF_cacheVars(scene = "cache" /\ Raw!OrchestrateInventory)
    /\ SF_cacheVars(scene = "cache" /\ Raw!LaunchJoin)

-----------------------------------------------------------------------------
(* Wherever its runs were stopped or killed, neither recipe meets a state  *)
(* that its own programs, or the orchestrator that looks at the directory  *)
(* in between, call damaged (_prepare_output, _inspect_materialization).   *)
AlwaysResumable == RecipeNeverRefuses /\ OrchestratorExact

(* Whatever was killed and whichever file was replaced: a cache holds its  *)
(* documents' tokens by the tokenizer it names, the inventory certifies a  *)
(* complete set under one tokenizer, and what the join hands to the        *)
(* writers is the tokenization of the archives by the materializer's own   *)
(* tokenizer (_build_new_archive, publish_raw_token_cache_inventory,       *)
(* _process_archive_from_raw_token_cache).                                 *)
CacheExact == scene = "cache" => Raw!SpansExact /\ Raw!InventoryExact

(* With finitely many interruptions each recipe finishes the corpus and    *)
(* leaves no journal, partial index or staged order beside it, and the     *)
(* cache reaches the join unless an archive or the tokenizer is no longer  *)
(* what the reports and the caches name; the inventory is left to the      *)
(* orchestrator.                                                           *)
RecipeCompletes ==
    <>[](\/ scene = "cache" /\ Raw!CacheOver
         \/ scene = "packing" /\ (recipe # "mixed" => Completed))
=============================================================================
