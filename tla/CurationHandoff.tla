----------------------------- MODULE CurationHandoff -----------------------------
(***************************************************************************)
(* scripts/launch_fast_all_eligible_curation.py and the first half of      *)
(* pretrain/postcuration_orchestrator.py: a launcher runs curation as its  *)
(* child and writes the child's result and a receipt, once each; the       *)
(* orchestrator inspects what the launcher and the publisher left and runs *)
(* the publisher on the snapshot of the result.  Curation and the          *)
(* publisher may be run by hand beside them.                               *)
(***************************************************************************)
EXTENDS SelectedCorpus

VARIABLE launcher
    (* [pc, pod, reported: the launcher, where its child runs and the     *)
    (*  snapshot the child will report; authority, result, completion:    *)
    (*  its files, the last two 0 while they are written]                 *)

handoffVars == <<curationVars, publisherVars, launcher>>

LauncherInit ==
    launcher = [pc |-> "off", pod |-> None, reported |-> 0,
                authority |-> FALSE, result |-> None, completion |-> None]
HandoffInit == CurationInit /\ PublisherInit /\ LauncherInit

LauncherAt(pc) == launcher.pc = pc
LauncherOff == [launcher EXCEPT !.pc = "off", !.pod = None, !.reported = 0]
Child(p) == launcher.pod = p

(* _validate_result: the snapshot of a result is still in place.           *)
ResultStands(g) == g \in DOMAIN snaps /\ snaps[g].stage = "complete" /\ snaps[g].payload

-----------------------------------------------------------------------------
(* The launcher.                                                           *)

(* build_preflight: without its authority no output may exist.             *)
PreflightOnce == tokens = 0 /\ \A p \in Pods : At(p, "off")
Preflight == launcher.authority \/ (tokens = 0 /\ \A p \in Pods : At(p, "off"))

(* Bounds: two leases for each interruption, and those of runs by hand.    *)
Leasable == tokens <= 2 * job.faults + job.byHand + 1
StartsChild(p) ==
    /\ LauncherAt("off") /\ Preflight /\ launcher.result = None
    /\ lease = None /\ Leasable /\ Start(p)
    /\ launcher' = [LauncherOff EXCEPT !.pc = "child", !.pod = p, !.authority = TRUE]
    /\ UNCHANGED <<faults, publisherVars>>

(* A step of curation, and what the launcher sees when it was its child's: *)
(* the result is what a child prints that ends well.                       *)
ReportsEverySnapshot(p) == TRUE
Reports(p) == procs[p].final
Sees(p, end) == launcher' = IF Child(p) /\ procs'[p].pc = "off" THEN end ELSE launcher
StepsOf(p) ==
    /\ \/ (Runs(p) \/ Capture(p) \/ Stop(p) \/ Kill(p)) /\ Sees(p, LauncherOff)
       \/ /\ SealGeneration(p)
          /\ launcher' = IF Child(p) /\ Reports(p)
                         THEN [launcher EXCEPT !.reported = Len(snaps)] ELSE launcher
       \/ /\ Release(p)
          /\ Sees(p, IF launcher.reported # 0 /\ ResultStands(launcher.reported)
                     THEN [launcher EXCEPT !.pc = "result", !.pod = None] ELSE LauncherOff)
    /\ UNCHANGED publisherVars

(* _atomic_new creates a file that must be new, and then fills it.         *)
WritesResult ==
    /\ LauncherAt("result")
    /\ launcher' = IF launcher.result = None THEN [launcher EXCEPT !.result = 0]
                   ELSE [launcher EXCEPT !.result = launcher.reported, !.pc = "receipt"]
    /\ UNCHANGED <<curationVars, publisherVars>>
WritesReceipt ==
    /\ LauncherAt("receipt")
    /\ launcher' = IF launcher.completion = None THEN [launcher EXCEPT !.completion = 0]
                   ELSE [LauncherOff EXCEPT !.completion = launcher.result]
    /\ UNCHANGED <<curationVars, publisherVars>>

(* _completed_result_if_any: a launcher that finds a result only adds the  *)
(* receipt.                                                                *)
Torn(file) == file = 0
FindsResult ==
    /\ launcher.result # None /\ ~Torn(launcher.result) /\ ResultStands(launcher.result)
    /\ launcher.completion = None
Resumes ==
    /\ LauncherAt("off") /\ FindsResult
    /\ launcher' = [launcher EXCEPT !.pc = "receipt"]
    /\ UNCHANGED <<curationVars, publisherVars>>

(* A launcher that dies leaves its child running.                          *)
LauncherDies ==
    /\ ~LauncherAt("off") /\ faults > 0 /\ faults' = faults - 1
    /\ launcher' = LauncherOff
    /\ UNCHANGED <<job, local, snaps, outputVars, leaseVars, procs, publisherVars>>

-----------------------------------------------------------------------------
(* Curation by hand: to recover the lease of a dead child, or without need.*)
Recovers(p) ==
    /\ lease # None /\ launcher.result = None /\ LauncherAt("off")
    /\ Leasable /\ Start(p)
    /\ UNCHANGED <<faults, publisherVars, launcher>>
RunsByHand(p) ==
    /\ tokens < job.byHand /\ Start(p)
    /\ UNCHANGED <<faults, publisherVars, launcher>>

-----------------------------------------------------------------------------
(* The orchestrator.                                                       *)
InspectCuration ==
    CASE ~launcher.authority \/ launcher.result = None -> "pending"
      [] launcher.result # None /\ (Torn(launcher.result) \/ ~ResultStands(launcher.result)) ->
            "refused"
      [] OTHER -> CASE launcher.completion = None -> "pending"
                    [] Torn(launcher.completion) -> "refused"
                    [] OTHER -> "complete"

PublisherLockHeld == publisher.pc \notin {"off", "done"}
CheckpointAgrees == checkpoint.bound = published.bound /\ checkpoint.kept = published.kept
InspectSelection ==
    CASE poisoned -> "refused"
      [] ~poisoned /\ PublisherLockHeld -> "pending"
      [] ~poisoned /\ ~PublisherLockHeld /\ published = None -> "absent"
      [] OTHER -> IF published.signed /\ published.bound = launcher.result /\ CheckpointAgrees
                  THEN "complete" ELSE "refused"

Orchestrates ==
    /\ InspectCuration = "complete" /\ InspectSelection = "absent"
    /\ Bind(launcher.result)
    /\ UNCHANGED <<curationVars, launcher>>
PublishesByHand ==
    /\ \E g \in DOMAIN snaps : Bind(g)
    /\ UNCHANGED <<curationVars, launcher>>
Publishes == PublisherRuns /\ UNCHANGED <<curationVars, launcher>>

HandoffNext ==
    \/ \E p \in Pods : StartsChild(p) \/ StepsOf(p) \/ Recovers(p) \/ RunsByHand(p)
    \/ WritesResult \/ WritesReceipt \/ Resumes \/ LauncherDies
    \/ Orchestrates \/ PublishesByHand \/ Publishes
    \/ PublisherStops /\ UNCHANGED launcher
CurationOnly == CurationNext /\ UNCHANGED <<publisherVars, launcher>>

(* What is scheduled fairly: processes that run, operators that start the  *)
(* launcher and the orchestrator again and recover a lease that is in the  *)
(* way; nobody has to run curation or the publisher by hand.               *)
ChildKeeps(p) == (StepsOf(p) /\ Curate(p)) \/ StartsChild(p) \/ Recovers(p)
Keeps(p) ==
    IF Handoff THEN ChildKeeps(p)
    ELSE (Curate(p) \/ (~Settled /\ Launch(p))) /\ UNCHANGED <<publisherVars, launcher>>
HandoffKeeps == Handoff /\ (WritesResult \/ WritesReceipt \/ Resumes \/ Orchestrates \/ Publishes)

-----------------------------------------------------------------------------
(* PROPERTIES                                                              *)

(* A run completes after its kills and stops: the output is published, or  *)
(* the documents do not fill the quotas, or an operator has to look at a   *)
(* claimed lease, a torn checksum of the snapshot store, or a publication  *)
(* whose source was retired.  The handoff also stops at a file its         *)
(* launcher half wrote, at an output that is not the launcher's, at a      *)
(* snapshot newer than the result's, and at a manifest without its         *)
(* checksum, which only a publisher started by hand would sign.            *)
HandoffBlocked ==
    \/ \E q \in Quotas : \A d \in FinalChoice(job.profile, AllDocuments) : QuotaOf(d) # q
    \/ poisoned
    \/ Torn(launcher.result) \/ Torn(launcher.completion)
    \/ ~launcher.authority /\ tokens > 0
    \/ launcher.result # None /\ Manifests # {} /\ launcher.result # Max(Manifests)
    \/ checkpoint # None /\ Manifests # {} /\ checkpoint.bound # Max(Manifests)
    \/ published # None /\ ~published.signed
Blocked ==
    \/ lease \in claims
    \/ Corrupt # {}
    \/ IF Handoff THEN HandoffBlocked ELSE ~Supplied(job.profile, AllDocuments)
Delivered ==
    IF Handoff THEN InspectCuration = "complete" /\ InspectSelection = "complete"
    ELSE manifest # None /\ manifest.signed

(* The result the launcher wrote names a finished database as long as its  *)
(* snapshot is there; what the orchestrator accepts as the selection is    *)
(* the one of that result, whoever ran curation or the publisher beside    *)
(* them and wherever the launcher died; and that selection can be packed.  *)
HandoffConsistent ==
    /\ (launcher.result # None /\ ~Torn(launcher.result) /\ ResultStands(launcher.result)) =>
          Finished(snaps[launcher.result].db)
    /\ Handoff /\ Delivered => Signed /\ Finished(snaps[published.bound].db)
    /\ SelectionPacks
=============================================================================
