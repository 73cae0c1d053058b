------------------------------- MODULE Curation -------------------------------
(***************************************************************************)
(* scripts/curate_corpus.py and scripts/curation_local_store.py: curation  *)
(* processes on several pods that share one output volume.  A durable      *)
(* lease admits one of them; the database lives on the volume, or on a     *)
(* pod's disk with hash-chained snapshots and a promoted copy on the       *)
(* volume; decisions and the manifest are published to the volume.         *)
(* Manifests are named by their generation.                                *)
(***************************************************************************)
EXTENDS CurationDatabase

CONSTANTS
    Pods,         \* clients of the output volume
    Retention     \* complete recovery databases kept, at least 2

ASSUME CurationAssumption == Retention \in Nat \ {0, 1} /\ None \notin Nat

VARIABLES
    local,        \* local[p]: the database on p's disk, or None
    snaps,        \* the snapshot generations, oldest first
    canonical,    \* the database on the volume, or None
    decisions,    \* decisions[n]: the published shard of report n, or None
    manifest,     \* [shards, totals, signed], or None
    lease,        \* the token of the owner of the lease, or None
    claims,       \* stale tokens with a permanent recovery claim
    procs,        \* procs[p]: [pc, token, stale, leaving, final]
    tokens,       \* leases taken so far
    faults        \* kills and orderly stops still to come

outputVars == <<canonical, decisions, manifest>>
leaseVars == <<lease, claims, tokens>>
curationVars == <<job, local, snaps, outputVars, leaseVars, procs, faults>>

Durable == job.mode = "durable"
Work(p) == IF Durable THEN canonical ELSE local[p]
KeepWork(p, db) ==
    IF Durable THEN canonical' = db /\ UNCHANGED local
    ELSE local' = [local EXCEPT ![p] = db] /\ UNCHANGED canonical

Off == [pc |-> "off", token |-> None, stale |-> None, leaving |-> FALSE, final |-> FALSE]
At(p, pc) == procs[p].pc = pc
Goto(p, pc) == procs' = [procs EXCEPT ![p].pc = pc]
Ended(p) == procs' = [procs EXCEPT ![p] = Off]
Alive(token) == \E p \in Pods : procs[p].token = token

CurationInit ==
    /\ SoundJob
    /\ local = [p \in Pods |-> None] /\ snaps = <<>> /\ canonical = None
    /\ decisions = [n \in DOMAIN job.reports |-> None] /\ manifest = None
    /\ lease = None /\ claims = {} /\ tokens = 0
    /\ procs = [p \in Pods |-> Off] /\ faults = job.faults

-----------------------------------------------------------------------------
(* The lease.                                                              *)
Settled ==   \* nothing left to do for a further run
    \E p \in Pods : Work(p) # None /\ Finished(Work(p))

(* An operator names the stale token after proving that its owner is gone. *)
Start(p) ==
    /\ At(p, "off") /\ p \in job.pods
    /\ \/ lease = None /\ Goto(p, "link")
       \/ /\ lease # None /\ ~Alive(lease)
          /\ procs' = [procs EXCEPT ![p].pc = "claim", ![p].stale = lease]
    /\ UNCHANGED <<job, local, snaps, outputVars, leaseVars>>

(* Bound: one lease more than there are interruptions.                     *)
Launch(p) ==
    /\ tokens <= job.faults /\ Start(p)
    /\ IF Settled THEN faults > 0 /\ faults' = faults - 1 ELSE UNCHANGED faults

(* publish_stale_recovery_claim links the claim with no replacement.       *)
ClaimableAlways(token) == TRUE
Claimable(token) == token \notin claims

PublishClaim(p) ==
    /\ At(p, "claim")
    /\ IF Claimable(procs[p].stale)
       THEN claims' = claims \cup {procs[p].stale} /\ Goto(p, "reread")
       ELSE Ended(p) /\ UNCHANGED claims
    /\ UNCHANGED <<job, local, snaps, outputVars, lease, tokens, faults>>

Reread(p) ==
    /\ At(p, "reread")
    /\ IF lease = procs[p].stale THEN Goto(p, "archive") ELSE Ended(p)
    /\ UNCHANGED <<job, local, snaps, outputVars, leaseVars, faults>>

ArchiveStale(p) ==
    /\ At(p, "archive")
    /\ IF lease # None THEN lease' = None /\ Goto(p, "link") ELSE Ended(p) /\ UNCHANGED lease
    /\ UNCHANGED <<job, local, snaps, outputVars, claims, tokens, faults>>

Link(p) ==
    /\ At(p, "link")
    /\ IF lease = None
       THEN /\ tokens' = tokens + 1 /\ lease' = tokens'
            /\ procs' = [procs EXCEPT ![p] = [Off EXCEPT !.pc = "open", !.token = tokens']]
       ELSE Ended(p) /\ UNCHANGED <<lease, tokens>>
    /\ UNCHANGED <<job, local, snaps, outputVars, claims, faults>>

Release(p) ==
    /\ At(p, "release")
    /\ lease' = IF lease = procs[p].token THEN None ELSE lease
    /\ Ended(p)
    /\ UNCHANGED <<job, local, snaps, outputVars, claims, tokens, faults>>

-----------------------------------------------------------------------------
(* Snapshot generations: "dir" holds a database only, "manifest" has a     *)
(* manifest without its checksum, "complete" both.                         *)
Generation(db, prev) ==
    [stage |-> "dir", db |-> db, prev |-> prev, receipt |-> "none", payload |-> TRUE]
Published(g) == snaps[g].stage # "dir"
Sound(g) ==
    /\ snaps[g].stage = "complete" /\ snaps[g].receipt # "torn"
    /\ snaps[g].receipt = "whole" \/ snaps[g].payload
LastValid(g) ==   \* the manifest the generation after g must continue
    FoldLeft(LAMBDA last, h : IF Sound(h) /\ snaps[h].prev = last THEN h ELSE last,
             0, [h \in 1 .. g |-> h])
Valid(g) == Sound(g) /\ snaps[g].prev = LastValid(g - 1)
Corrupt == {g \in DOMAIN snaps : Published(g) /\ ~Valid(g)}
Recoverable == {g \in DOMAIN snaps : Valid(g) /\ snaps[g].receipt = "none"}
Newest == Max(Recoverable)

(* valid_snapshots finishes a retirement whose receipt is whole.           *)
Cleaned(generations) ==
    [g \in DOMAIN generations |->
        IF generations[g].receipt = "whole" THEN [generations[g] EXCEPT !.payload = FALSE]
        ELSE generations[g]]

(* _cleanup_incomplete_generations.  Only the newest may lack a manifest:  *)
(* a process cleans up as it opens, and begins one after another.          *)
Swept == IF \E g \in DOMAIN snaps : ~Published(g) THEN Front(snaps) ELSE snaps

(* prepare: this pod's database, else the newest valid snapshot, else the  *)
(* promoted copy, else an empty one.                                       *)
Prepared(p) ==
    IF local[p] # None THEN local[p]
    ELSE IF Recoverable # {} THEN snaps[Newest].db
    ELSE IF canonical # None THEN canonical ELSE EmptyDatabase

Open(p) ==
    /\ At(p, "open")
    /\ snaps' = Cleaned(Swept)
    /\ IF Durable THEN KeepWork(p, IF canonical = None THEN EmptyDatabase ELSE canonical)
       ELSE KeepWork(p, Prepared(p))
    /\ Goto(p, "work")
    /\ UNCHANGED <<job, decisions, manifest, leaseVars, faults>>

-----------------------------------------------------------------------------
(* Transactions.                                                           *)
Ready(p) == At(p, "work") /\ ~Finished(Work(p))
Filed(stage) == stage[1] = "emit" \/ stage = <<"phase", "complete">>

(* One step of a subphase: its next batch, its completion, or a refusal.   *)
Transact(p) ==
    /\ Ready(p) /\ ~Filed(Stage(Work(p)))
    /\ LET db == Work(p)
           verdict == Verdict(db)
       IN  IF verdict = "refuse" THEN Goto(p, "leave") /\ UNCHANGED <<local, canonical>>
           ELSE /\ KeepWork(p, IF verdict = "batch" THEN BoundedBatch(db) ELSE Completed(db))
                /\ UNCHANGED procs
    /\ UNCHANGED <<job, snaps, decisions, manifest, leaseVars, faults>>

(* _emit_archive replaces the shard and then commits its row; finalize     *)
(* replaces the manifest, then its checksum, and then commits the phase.   *)
Emit(p) ==
    /\ Ready(p) /\ Stage(Work(p))[1] = "emit"
    /\ decisions' = [decisions EXCEPT ![Stage(Work(p))[2]] = DecisionShard(Work(p), Stage(Work(p))[2])]
    /\ Goto(p, "filed")
    /\ UNCHANGED <<job, local, snaps, canonical, manifest, leaseVars, faults>>

Outputs(p) == [n \in DOMAIN job.reports |-> DecisionShard(Work(p), n)]
Finalize(p) ==
    /\ Ready(p) /\ Stage(Work(p)) = <<"phase", "complete">>
    /\ IF SelectionValid(Work(p)) /\ decisions = Outputs(p)
       THEN /\ manifest' = [shards |-> decisions, totals |-> QuotaTotals(Work(p)), signed |-> FALSE]
            /\ Goto(p, "sign")
       ELSE Goto(p, "leave") /\ UNCHANGED manifest
    /\ UNCHANGED <<job, local, snaps, canonical, decisions, leaseVars, faults>>
Sign(p) ==
    /\ At(p, "sign") /\ manifest' = [manifest EXCEPT !.signed = TRUE] /\ Goto(p, "filed")
    /\ UNCHANGED <<job, local, snaps, canonical, decisions, leaseVars, faults>>

CommitFiled(p) ==
    /\ At(p, "filed") /\ KeepWork(p, Completed(Work(p))) /\ Goto(p, "work")
    /\ UNCHANGED <<job, snaps, decisions, manifest, leaseVars, faults>>

(* The end of run: everything done, or an orderly stop.                    *)
Finish(p) ==
    /\ At(p, "work") /\ Finished(Work(p))
    /\ procs' = [procs EXCEPT ![p].pc = IF Handoff THEN "snapshot" ELSE "leave",
                              ![p].final = Handoff]
    /\ UNCHANGED <<job, local, snaps, outputVars, leaseVars, faults>>
Stop(p) ==
    /\ Ready(p) /\ faults > 0 /\ faults' = faults - 1 /\ Goto(p, "leave")
    /\ UNCHANGED <<job, local, snaps, outputVars, leaseVars>>

(* __exit__: a snapshot and its promotion, then the lease.                 *)
Leave(p) ==
    /\ At(p, "leave")
    /\ procs' = [procs EXCEPT ![p].pc = IF Durable THEN "release" ELSE "snapshot",
                              ![p].leaving = TRUE]
    /\ UNCHANGED <<job, local, snaps, outputVars, leaseVars, faults>>

-----------------------------------------------------------------------------
(* snapshot: oldest payloads are retired, then the new generation is       *)
(* written.  After a corrupt generation nothing is published any more.     *)
Capture(p) ==   \* _snapshot_local_state after a bounded commit
    /\ Ready(p) /\ job.mode = "local"
    /\ Work(p).at \in job.due /\ Work(p).cursor = 0
    /\ \A g \in Recoverable : g = Newest => snaps[g].db # Work(p)
    /\ Goto(p, "snapshot")
    /\ UNCHANGED <<job, local, snaps, outputVars, leaseVars, faults>>

TooMany == Cardinality(Recoverable) >= Retention

Snapshot(p) ==
    /\ At(p, "snapshot")
    /\ IF Corrupt # {} THEN Goto(p, "release") /\ UNCHANGED snaps
       ELSE IF TooMany
       THEN snaps' = [Cleaned(snaps) EXCEPT ![Min(Recoverable)].receipt = "torn"] /\ Goto(p, "retire")
       ELSE /\ snaps' = Append(Cleaned(snaps),
                    Generation(Work(p), IF Recoverable = {} THEN 0 ELSE Newest))
            /\ Goto(p, "copied")
    /\ UNCHANGED <<job, local, outputVars, leaseVars, faults>>

(* The receipt's checksum, and the payload it retires.                     *)
Retire(p) ==
    /\ At(p, "retire")
    /\ \E g \in DOMAIN snaps :
          /\ snaps[g].receipt = "torn"
          /\ snaps' = [snaps EXCEPT ![g].receipt = "whole"]
    /\ Goto(p, "unlink")
    /\ UNCHANGED <<job, local, outputVars, leaseVars, faults>>
UnlinkRetired(p) ==
    /\ At(p, "unlink") /\ snaps' = Cleaned(snaps) /\ Goto(p, "snapshot")
    /\ UNCHANGED <<job, local, outputVars, leaseVars, faults>>

PublishGeneration(p) ==
    /\ At(p, "copied") /\ snaps' = [snaps EXCEPT ![Len(snaps)].stage = "manifest"]
    /\ Goto(p, "published")
    /\ UNCHANGED <<job, local, outputVars, leaseVars, faults>>
SealGeneration(p) ==
    /\ At(p, "published") /\ snaps' = [snaps EXCEPT ![Len(snaps)].stage = "complete"]
    /\ Goto(p, IF procs[p].leaving /\ ~Handoff THEN "promote"
               ELSE IF procs[p].leaving \/ procs[p].final THEN "release" ELSE "work")
    /\ UNCHANGED <<job, local, outputVars, leaseVars, faults>>

(* promote_latest: the canonical database becomes the newest snapshot, if  *)
(* every published one is valid.  The link it keeps to the old one until   *)
(* its receipt is written is left out.                                     *)
Promote(p) ==
    /\ At(p, "promote")
    /\ IF Corrupt = {} /\ Recoverable # {} THEN canonical' = snaps[Newest].db ELSE UNCHANGED canonical
    /\ Goto(p, "release")
    /\ UNCHANGED <<job, local, snaps, decisions, manifest, leaseVars, faults>>

-----------------------------------------------------------------------------
(* A killed process leaves its lease and its half-done step; its pod's     *)
(* disk may go with it.                                                    *)
Kill(p) ==
    /\ ~At(p, "off") /\ faults > 0 /\ faults' = faults - 1
    /\ Ended(p)
    /\ \/ UNCHANGED local
       \/ local' = [local EXCEPT ![p] = None]
    /\ UNCHANGED <<job, snaps, outputVars, leaseVars>>

Runs(p) ==
    \/ PublishClaim(p) \/ Reread(p) \/ ArchiveStale(p) \/ Link(p) \/ Open(p)
    \/ Transact(p) \/ Emit(p) \/ Finalize(p) \/ Sign(p) \/ CommitFiled(p)
    \/ Finish(p) \/ Leave(p)
    \/ Snapshot(p) \/ Retire(p) \/ UnlinkRetired(p) \/ PublishGeneration(p)
    \/ Promote(p)
Curate(p) == Runs(p) \/ SealGeneration(p) \/ Release(p)
CurationNext ==
    \E p \in Pods : Launch(p) \/ Curate(p) \/ Capture(p) \/ Stop(p) \/ Kill(p)

-----------------------------------------------------------------------------
(* PROPERTIES                                                              *)

(* The tables of every stage that is behind a database's cursor are the    *)
(* reference result for the frozen inventory, in every database there is:  *)
(* on a pod's disk, promoted, or in a snapshot.  The passes that mark      *)
(* benchmark clusters, choose copies and fill quotas in batches, resumed   *)
(* from any commit or snapshot, decide what one look at all documents      *)
(* would.                                                                  *)
Databases ==
    ({canonical} \cup {local[p] : p \in Pods} \cup {snaps[g].db : g \in DOMAIN snaps}) \ {None}
Past(db, stage) == \E i \in 1 .. db.at - 1 : Stages[i] = stage
TablesExact ==
    LET chosen == FinalChoice(job.profile, AllDocuments)
        selection == Selection(job.profile, AllDocuments)
    IN  \A db \in Databases :
            /\ Past(db, <<"phase", "inventory_complete">>) => db.documents = AllDocuments
            /\ Past(db, <<"phase", "canonicalized">>) => Clean(db) = chosen
            /\ Past(db, <<"phase", "selected">>) => db.selected = selection

(* A decision shard and the manifest, once they exist, are what the        *)
(* reference decides: every document is kept with the split and the prefix *)
(* of its selection, or rejected, and the run was not short of documents.  *)
DecidedExactly(selection, shard, report) ==
    \A k \in DOMAIN report :
        LET mine == {x \in selection : x.id = report[k].id}
        IN  /\ shard[k].id = report[k].id
            /\ shard[k].keep = (mine # {})
            /\ \A x \in mine : shard[k].split = x.split /\ shard[k].tokens = x.tokens
PublishedExact ==
    LET selection == Selection(job.profile, AllDocuments)
    IN  /\ \A n \in DOMAIN decisions :
              decisions[n] # None => DecidedExactly(selection, decisions[n], job.reports[n])
        /\ manifest # None =>
              manifest.shards = decisions /\ Supplied(job.profile, AllDocuments)

(* The exact-token lease recovery never lets two processes write to one    *)
(* output, also when two operators recover the same dead owner and the     *)
(* advisory lock is not shared between the clients; and the generations    *)
(* never hold more full recovery databases than the retention, whichever   *)
(* process was killed while it captured, promoted or retired one.  The     *)
(* link to the old database that a kill inside promote_latest leaves       *)
(* beside the new one is not a generation and is not counted.              *)
Holding(p) == procs[p].token # None
VolumeSound ==
    /\ \A p, q \in Pods : Holding(p) /\ Holding(q) => p = q
    /\ Cardinality({g \in DOMAIN snaps : snaps[g].payload}) <= Retention

(* Once a snapshot is complete, a kill never leaves the store without one  *)
(* that can be recovered.                                                  *)
SnapshotsRecoverable ==
    (\A p \in Pods : At(p, "off")) /\ (\E g \in DOMAIN snaps : snaps[g].stage = "complete") => Recoverable # {}
=============================================================================
