------------------------------- MODULE Collectors -------------------------------
(***************************************************************************)
(* The collectors: scripts/collect_stack_v3.py (one process, the legacy    *)
(* frontier), collect_stack_v3_parallel.py (a supervisor and workers that  *)
(* take over from that frontier), collect_fineweb_edu.py and               *)
(* collect_wikipedia.py, with the ledger of quota_tracker.py they share.   *)
(* Every collector fills archives from its rows, and commits them by a     *)
(* checkpoint, a rename and a quota record, in that order.                 *)
(*                                                                         *)
(* A row is a document: [id, bucket, tokens, text].                        *)
(***************************************************************************)
EXTENDS Collection

CONSTANTS
    Workers,         \* sequence of the names of the parallel workers
    CheckpointRows,  \* rows after which a checkpoint is due
    MaxFaults        \* bound: kills, failures and stop requests

WorkerSet == ToSet(Workers)
Collectors == {"stack"} \cup WorkerSet \cup Texts
SourceOf(p) == IF p \in Texts THEN p ELSE "stack"

(* A place in the scan with the archive numbers to use from there on, and  *)
(* PLAN.json: where the workers take over, and from which numbers.         *)
Cursors == [at : Nat \ {0}, row : Nat, next : [Buckets -> Nat]]
Plans == [shard : Nat \ {0}, row : Nat, base : [Buckets -> Nat], legacy : Cursors]

ASSUME CollectorsAssumption ==
    /\ CheckpointRows \in Nat \ {0} /\ MaxFaults \in Nat
    /\ Target \in [Buckets -> Nat \ {0}]
    /\ WorkerSet \cap (Texts \cup {"stack"}) = {}
    /\ Workers # <<>> /\ Workers \in Seq(WorkerSet) /\ IsInjective(Workers)
    /\ None \notin Plans

VARIABLES
    checkpoints,   \* checkpoint files of each collector, in order
    sealed,        \* archives closed and fsynced under their pending names
    plan,          \* PLAN.json of the parallel collector
    pc, local,     \* what each process does, and its memory
    supervisor,    \* the parallel collector's own process
    outcome,       \* how the last run of each source ended
    faults         \* counts faults
durable == <<checkpoints, sealed, plan, collection>>
collectorVars == <<durable, pc, local, supervisor, outcome, faults>>

-----------------------------------------------------------------------------
(* Assignments and cursors.                                                *)
Checkpointed(p) == UNION {c.archives : c \in ToSet(checkpoints[p])}

(* Worker i takes every Len(Workers)-th shard from the frontier on.        *)
WorkerId(p) == (CHOOSE k \in 1..Len(Workers) : Workers[k] = p) - 1
assigned_source_shard(p, at) ==
    IF p \in WorkerSet THEN plan.shard + WorkerId(p) + Len(Workers) * (at - 1) ELSE at
HasShard(p, at) == assigned_source_shard(p, at) <= Len(Shards[SourceOf(p)])
Shard(p, at) == Shards[SourceOf(p)][assigned_source_shard(p, at)]

NextIndices(archives) ==
    [b \in Buckets |-> Max({-1} \cup {a.index : a \in {x \in archives : x.bucket = b}}) + 1]

(* Where a collector starts without checkpoints, and where it resumes.     *)
FirstCursorFromZero(p) == [at |-> 1, row |-> 0, next |-> [b \in Buckets |-> 0]]
FirstCursor(p) ==
    [at |-> 1, row |-> IF p = Workers[1] THEN plan.row ELSE 0, next |-> [b \in Buckets |-> 0]]
Cursor(p) ==
    LET c == checkpoints[p]
    IN  IF c = <<>> THEN FirstCursor(p)
        ELSE [at |-> Last(c).at, row |-> Last(c).row, next |-> Last(c).next]

(* A worker numbers its archives in its own residue class above the plan's *)
(* base; the others take the number after the highest final name.          *)
ArchiveIndexShared(p, b) ==
    IF p \in WorkerSet THEN plan.base[b] + local[p].next[b] ELSE local[p].next[b]
ArchiveIndex(p, b) ==
    IF p \in WorkerSet
    THEN plan.base[b] + WorkerId(p) + Len(Workers) * local[p].next[b]
    ELSE local[p].next[b]

Idle == [at |-> 1, row |-> 0, next |-> [b \in Buckets |-> 0], open |-> {},
         totals |-> [b \in Buckets |-> 0], since |-> 0, halt |-> FALSE, ended |-> FALSE]

CollectorsInit ==
    /\ CollectionInit
    /\ checkpoints = [p \in Collectors |-> <<>>]
    /\ sealed = {} /\ plan = None
    /\ pc = [p \in Collectors |-> "off"] /\ local = [p \in Collectors |-> Idle]
    /\ supervisor = "off" /\ outcome = [s \in Sources |-> "none"] /\ faults = 0

Goto(p, place) == pc' = [pc EXCEPT ![p] = place]
Leave(p, how, code) ==
    /\ Goto(p, how) /\ local' = [local EXCEPT ![p] = Idle]
    /\ outcome' = IF p \in WorkerSet THEN outcome
                  ELSE [outcome EXCEPT ![SourceOf(p)] = code]

-----------------------------------------------------------------------------
(* Launches.  The operator runs one collector at a time, here the English  *)
(* ones first (they share no bucket with the others), and the serial Stack *)
(* collector never again once the parallel one has its plan.               *)
Over == {"full", "complete", "exhausted"}
Quiet == supervisor = "off" /\ \A p \in Collectors : pc[p] = "off"

Launch(p) ==
    /\ Quiet /\ p \notin WorkerSet /\ outcome[SourceOf(p)] \notin Over
    /\ p = "stack" => plan = None /\ \A t \in Texts : outcome[t] \in Over
    /\ Goto(p, "recover")
    /\ UNCHANGED <<durable, local, supervisor, outcome, faults>>

LaunchParallel ==
    /\ Quiet /\ outcome["stack"] \notin Over /\ \A t \in Texts : outcome[t] \in Over
    /\ supervisor' = "legacy"
    /\ UNCHANGED <<durable, pc, local, outcome, faults>>

-----------------------------------------------------------------------------
(* recover_checkpoints, recover_worker_checkpoints: what a checkpoint      *)
(* lists is renamed into place and recorded, after a commit and at every   *)
(* start; the plan's owner does it for all.                                *)
Pending(p) == {a \in Checkpointed(p) : a \notin raw \/ a \notin ledger}
Recovering(p) ==
    \/ pc[p] \in {"recover", "publish"}
    \/ supervisor = "legacy" /\ p = "stack"
    \/ supervisor = "workers" /\ p \in WorkerSet

recover_checkpoint_archive(a) ==
    /\ Name(a) \notin {Name(f) : f \in raw}
    /\ a \in sealed
    /\ raw' = raw \cup {a} /\ sealed' = sealed \ {a}
    /\ UNCHANGED ledger

write_recordEarly(a) ==
    /\ Name(a) \notin {Name(f) : f \in ledger}
    /\ ledger' = ledger \cup {a}
    /\ UNCHANGED <<raw, sealed>>

write_record(a) ==
    /\ Name(a) \in {Name(f) : f \in raw}
    /\ Name(a) \notin {Name(f) : f \in ledger}
    /\ ledger' = ledger \cup {a}
    /\ UNCHANGED <<raw, sealed>>

Recover(p) ==
    /\ Recovering(p)
    /\ \E a \in Pending(p) : recover_checkpoint_archive(a) \/ write_record(a)
    /\ UNCHANGED <<checkpoints, orphans, plan, markers, pc, local, supervisor, outcome, faults>>

(* Neither possible: the archive is gone, or another record is in the way. *)
Wedged(p) ==
    \E a \in Pending(p) :
        IF Name(a) \in {Name(f) : f \in raw} THEN Name(a) \in {Name(f) : f \in ledger}
        ELSE a \notin sealed

create_or_load_plan ==
    /\ supervisor = "legacy" /\ Pending("stack") = {}
    /\ LET frontier == Cursor("stack")
       IN  IF plan = None
           THEN /\ plan' = [shard |-> frontier.at, row |-> frontier.row, base |-> NextIndices(raw),
                            legacy |-> frontier]
                /\ supervisor' = "workers" /\ UNCHANGED outcome
           ELSE /\ UNCHANGED plan
                /\ IF plan.legacy = frontier THEN supervisor' = "workers" /\ UNCHANGED outcome
                   ELSE supervisor' = "off" /\ outcome' = [outcome EXCEPT !["stack"] = "refused"]
    /\ UNCHANGED <<checkpoints, sealed, orphans, raw, ledger, markers, pc, local, faults>>

StartWorkers ==
    /\ supervisor = "workers" /\ \A w \in WorkerSet : Pending(w) = {}
    /\ IF Reached(quota_status, "stack")
       THEN /\ supervisor' = "off" /\ outcome' = [outcome EXCEPT !["stack"] = "full"]
            /\ UNCHANGED pc
       ELSE /\ supervisor' = "running" /\ UNCHANGED outcome
            /\ pc' = [p \in Collectors |-> IF p \in WorkerSet THEN "recover" ELSE pc[p]]
    /\ UNCHANGED <<durable, local, faults>>

(* A worker does not ask whether the buckets are full before its first row.*)
Begin(p) ==
    /\ pc[p] = "recover" /\ Pending(p) = {}
    /\ IF p \notin WorkerSet /\ Reached(quota_status, SourceOf(p))
       THEN Leave(p, "off", "full")
       ELSE /\ Goto(p, "rows") /\ UNCHANGED outcome
            /\ local' = [local EXCEPT ![p] =
                  [Idle EXCEPT !.at = Cursor(p).at, !.row = Cursor(p).row,
                               !.next = IF p \in WorkerSet THEN Cursor(p).next ELSE NextIndices(raw),
                               !.totals = quota_status, !.halt = local[p].halt]]
    /\ UNCHANGED <<durable, supervisor, faults>>

-----------------------------------------------------------------------------
(* The loop over rows.                                                     *)
live_total(p, b) == local[p].totals[b] + Tokens(local[p].open, b)

(* A row goes to the open archive of its bucket unless the bucket is full  *)
(* as far as this process knows.                                           *)
Opened(p, r) ==
    LET mine == {a \in local[p].open : a.bucket = r.bucket}
        before == IF mine = {} THEN {} ELSE (CHOOSE a \in mine : TRUE).rows
        index == IF mine = {} THEN ArchiveIndex(p, r.bucket) ELSE (CHOOSE a \in mine : TRUE).index
    IN  [local[p] EXCEPT
           !.open = (local[p].open \ mine)
                      \cup {[bucket |-> r.bucket, index |-> index, rows |-> before \cup {r}]},
           !.next[r.bucket] = IF mine = {} THEN @ + 1 ELSE @]

TakeRow(p) ==
    /\ pc[p] = "rows" /\ HasShard(p, local[p].at)
    /\ local[p].row < Len(Shard(p, local[p].at))
    /\ \E quit \in {FALSE} \cup {faults < MaxFaults} :
         LET r == Shard(p, local[p].at)[local[p].row + 1]
             filled == IF live_total(p, r.bucket) < Target[r.bucket] THEN Opened(p, r) ELSE local[p]
             reached == \E a \in filled.open :
                           filled.totals[a.bucket] + Tokens(filled.open, a.bucket) >= Target[a.bucket]
             stop == quit \/ local[p].halt
         IN  /\ faults' = faults + (IF quit THEN 1 ELSE 0)
             /\ IF stop \/ reached \/ local[p].since + 1 >= CheckpointRows
                THEN /\ Goto(p, "commit") /\ UNCHANGED outcome
                     /\ local' = [local EXCEPT ![p] =
                          [filled EXCEPT !.row = @ + 1, !.halt = stop, !.ended = FALSE]]
                ELSE IF Reached(local[p].totals, SourceOf(p)) THEN Leave(p, "off", "stopped")
                ELSE /\ UNCHANGED <<pc, outcome>>
                     /\ local' = [local EXCEPT ![p] =
                          [filled EXCEPT !.row = @ + 1, !.since = @ + 1]]
    /\ UNCHANGED <<durable, supervisor>>

(* The end of a shard is a checkpoint of its own, without an exit test.    *)
EndShard(p) ==
    /\ pc[p] = "rows" /\ HasShard(p, local[p].at)
    /\ local[p].row = Len(Shard(p, local[p].at))
    /\ Goto(p, "commit")
    /\ local' = [local EXCEPT ![p].at = @ + 1, ![p].row = 0, ![p].ended = TRUE]
    /\ UNCHANGED <<durable, supervisor, outcome, faults>>

Exhausted(p) ==
    /\ pc[p] = "rows" /\ ~HasShard(p, local[p].at)
    /\ Leave(p, "off", "exhausted")
    /\ UNCHANGED <<durable, supervisor, faults>>

-----------------------------------------------------------------------------
(* commit_checkpoint, commit_worker_checkpoint: close the archives, write  *)
(* the checkpoint, then recover it like any other.                         *)
Seal(p) ==
    /\ pc[p] = "commit"
    /\ sealed' = sealed \cup local[p].open
    /\ Goto(p, "checkpoint")
    /\ UNCHANGED <<checkpoints, orphans, raw, ledger, plan, markers, local, supervisor, outcome, faults>>

WriteCheckpoint(p) ==
    /\ pc[p] = "checkpoint"
    /\ checkpoints' = [checkpoints EXCEPT ![p] = Append(@,
          [at |-> local[p].at, row |-> local[p].row, next |-> local[p].next,
           archives |-> local[p].open])]
    /\ Goto(p, "publish")
    /\ local' = [local EXCEPT ![p].open = {}]
    /\ UNCHANGED <<sealed, orphans, raw, ledger, plan, markers, supervisor, outcome, faults>>

CommittedStale(p) ==
    /\ pc[p] = "publish" /\ Pending(p) = {}
    /\ IF local[p].ended \/ ~(Reached(local[p].totals, SourceOf(p)) \/ local[p].halt)
       THEN Goto(p, "rows") /\ local' = [local EXCEPT ![p].since = 0] /\ UNCHANGED outcome
       ELSE Leave(p, "off", "stopped")
    /\ UNCHANGED <<durable, supervisor, faults>>

(* The totals are read again only here.                                    *)
Committed(p) ==
    /\ pc[p] = "publish" /\ Pending(p) = {}
    /\ LET complete == Reached(quota_status, SourceOf(p))
           stay == [local EXCEPT ![p].totals = quota_status, ![p].since = 0]
       IN  IF local[p].ended \/ ~(complete \/ local[p].halt)
           THEN Goto(p, "rows") /\ local' = stay /\ UNCHANGED outcome
           ELSE IF complete /\ p \notin WorkerSet
           THEN Goto(p, "mark") /\ local' = stay /\ UNCHANGED outcome
           ELSE Leave(p, "off", "stopped")
    /\ UNCHANGED <<durable, supervisor, faults>>

Mark(p) ==
    /\ pc[p] = "mark"
    /\ markers' = [markers EXCEPT ![SourceOf(p)] =
                      [b \in BucketsOf(SourceOf(p)) |-> local[p].totals[b]]]
    /\ Leave(p, "off", "complete")
    /\ UNCHANGED <<checkpoints, sealed, orphans, raw, ledger, plan, supervisor, faults>>

-----------------------------------------------------------------------------
(* parallel_main while its workers run: it asks them to stop when a signal *)
(* comes, one of them has failed or the ledger has reached both targets,   *)
(* and concludes when all have gone.                                       *)
Alive == {w \in WorkerSet : pc[w] \notin {"off", "failed"}}

Supervise ==
    /\ supervisor = "running"
    /\ \/ (Reached(quota_status, "stack") \/ \E w \in WorkerSet : pc[w] = "failed")
            /\ UNCHANGED faults
       \/ faults < MaxFaults /\ faults' = faults + 1
    /\ supervisor' = "stopping"
    /\ local' = [p \in Collectors |-> IF p \in Alive THEN [local[p] EXCEPT !.halt = TRUE] ELSE local[p]]
    /\ UNCHANGED <<durable, pc, outcome>>

Join ==
    /\ supervisor \in {"running", "stopping"} /\ Alive = {}
    /\ IF Reached(quota_status, "stack")
       THEN supervisor' = "mark" /\ UNCHANGED outcome
       ELSE supervisor' = "off" /\ outcome' = [outcome EXCEPT !["stack"] = "failed"]
    /\ pc' = [p \in Collectors |-> IF p \in WorkerSet THEN "off" ELSE pc[p]]
    /\ UNCHANGED <<durable, local, faults>>

MarkParallel ==
    /\ supervisor = "mark"
    /\ markers' = [markers EXCEPT !["stack"] = [b \in Code |-> quota_status[b]]]
    /\ supervisor' = "off" /\ outcome' = [outcome EXCEPT !["stack"] = "complete"]
    /\ UNCHANGED <<checkpoints, sealed, orphans, raw, ledger, plan, pc, local, faults>>

(* A worker fails (worker_entry), or the machine takes all with it.  Open  *)
(* archives stay behind as pending files that nothing refers to.           *)
Abandoned(ps) ==
    LET open == UNION {local[p].open : p \in ps}
    IN  /\ sealed' = sealed \ open
        /\ orphans' = orphans \cup {a.bucket : a \in open}

WorkerFails(w) ==
    /\ faults < MaxFaults /\ pc[w] = "rows" /\ faults' = faults + 1
    /\ Abandoned({w})
    /\ Goto(w, "failed") /\ local' = [local EXCEPT ![w] = Idle]
    /\ UNCHANGED <<checkpoints, raw, ledger, plan, markers, supervisor, outcome>>

(* The machine goes, and every process with it.  A supervisor killed alone *)
(* leaves workers running, which nothing keeps a relaunch from joining     *)
(* with a second set (parallel_main takes no lock): left out.              *)
KillCollectors ==
    /\ faults < MaxFaults /\ ~Quiet /\ faults' = faults + 1
    /\ Abandoned(Collectors)
    /\ pc' = [p \in Collectors |-> "off"] /\ local' = [p \in Collectors |-> Idle]
    /\ supervisor' = "off"
    /\ UNCHANGED <<checkpoints, raw, ledger, plan, markers, outcome>>

(* The operator moves abandoned files away (docs/experiment/               *)
(* experiment-log.md:384); no program does.                                *)
MoveOrphans ==
    /\ Quiet /\ orphans # {} /\ orphans' = {}
    /\ UNCHANGED <<checkpoints, sealed, raw, ledger, plan, markers, pc, local, supervisor, outcome, faults>>

Work(p) == \/ Recover(p) \/ Begin(p) \/ TakeRow(p) \/ EndShard(p) \/ Exhausted(p)
           \/ Seal(p) \/ WriteCheckpoint(p) \/ Committed(p) \/ Mark(p)
Supervision == create_or_load_plan \/ StartWorkers \/ Supervise \/ Join \/ MarkParallel
CollectorsNext ==
    \/ \E p \in Collectors : Launch(p) \/ Work(p)
    \/ LaunchParallel \/ Supervision \/ MoveOrphans
    \/ \E w \in WorkerSet : WorkerFails(w)
    \/ KillCollectors

-----------------------------------------------------------------------------
(* Properties.                                                             *)
AllCheckpointed == UNION {Checkpointed(p) : p \in Collectors}
Scanned(p) ==
    LET c == Cursor(p)
        shard(k) == Shard(p, k)
    IN  IF checkpoints[p] = <<>> THEN {}
        ELSE (UNION {ToSet(shard(k)) : k \in 1..(c.at - 1)})
               \cup (IF c.row = 0 THEN {} ELSE {shard(c.at)[i] : i \in 1..c.row})

\* Whoever is stopped, whichever worker fails, whenever the machine goes, and
\* whoever takes over from whom, the checkpointed archives are one scan of the
\* source: no document twice, none lost behind a cursor unless its bucket was
\* full, no file under two names (row_offset, assigned_source_shard,
\* worker_archive_index).
CommittedIsTheScan ==
    /\ \A a, b \in AllCheckpointed : a # b => Name(a) # Name(b) /\ a.rows \cap b.rows = {}
    /\ LET archived == UNION {a.rows : a \in AllCheckpointed}
           scanned == UNION {Scanned(p) : p \in Collectors}
       IN  /\ archived \subseteq scanned
           /\ \A r \in scanned \ archived :
                 Tokens(AllCheckpointed, r.bucket) >= Target[r.bucket]

\* A finalized archive and a quota record exist only for a checkpointed
\* archive, with its content, and a restart can always finish the pair, when
\* the processes of the last run are gone.
LedgerRecoverable ==
    /\ ledger \subseteq raw /\ raw \subseteq AllCheckpointed
    /\ \A p \in Collectors : ~Wedged(p)
    /\ \A s \in Sources : outcome[s] # "refused"

\* "aggregate quota overshoot from concurrently open workers stays bounded"
\* (docs/data/data-pipeline.md:184): without the last checkpoint each process
\* made of a bucket, the bucket is below its target, and no checkpoint is larger
\* than an interval.
LastOf(p, b) ==
    LET holding == {i \in DOMAIN checkpoints[p] :
                       \E a \in checkpoints[p][i].archives : a.bucket = b}
    IN  IF holding = {} THEN {} ELSE checkpoints[p][Max(holding)].archives
OvershootBounded ==
    /\ \A b \in Buckets :
          Tokens(AllCheckpointed \ UNION {LastOf(p, b) : p \in Collectors}, b) < Target[b]
    /\ \A p \in Collectors : \A c \in ToSet(checkpoints[p]) :
          Cardinality(UNION {a.rows : a \in c.archives}) <= CheckpointRows

\* The scan is exact, and the quota that cuts it off is overshot no further.
ScanWithinQuota == CommittedIsTheScan /\ OvershootBounded

\* Readers of the dataset root may rely on the abstract collection, through
\* stops, failures of workers, losses of the machine and takeovers.
CollectionPromised == CollectionInit /\ [][CollectionStep(raw', Buckets)]_collection
=============================================================================
