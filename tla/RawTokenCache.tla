----------------------------- MODULE RawTokenCache -----------------------------
(***************************************************************************)
(* The raw token cache (pretrain/raw_token_cache.py), its inventory        *)
(* (raw_token_cache_inventory.py) and the materializer's join over both    *)
(* (raw_token_cache_reader.py, materialize.py).  Each raw archive is       *)
(* tokenized once into a directory of tokens and offsets by a single       *)
(* process or by a pool; the inventory certifies the complete set; the     *)
(* join reads documents back out.  A token is <<tokenizer, document,       *)
(* position>>: what it must come from, not what it is.  Archive contents   *)
(* are stamps: the even ones are the bytes the preprocess report names.    *)
(***************************************************************************)
EXTENDS Integers, Sequences, FiniteSets, SequencesExt

CONSTANTS RawArchives,         \* the archives in manifest order
          Counts,              \* per archive, the tokens of each document
          Slots,               \* processes that can work at one time
          MaxBatchDocuments, MaxBatchTokens,
          MaxFaults,           \* bound on kills and on replaced files
          None

VARIABLES
    installed,   \* the tokenizer in tokenizer_root
    raw,         \* the stamp of each archive file
    cache,       \* the published cache of each archive
    stages,      \* .<target>.building-* directories: [archive, slot]
    session,     \* the holder of the output lock: the builder or the publisher
    worker,      \* the processes of a builder, orphans of a killed one included
    inventory,   \* the published inventory
    join,        \* the materializer reading through the inventory
    inherits,    \* a pool's processes share the parent's flock (start method)
    faults

All == ToSet(RawArchives)
Idle == [pc |-> "idle", tokenizer |-> None, todo |-> <<>>, pool |-> FALSE, failed |-> FALSE]
Unborn == [pc |-> "unborn"]
Rested(t) == [pc |-> "idle", tokenizer |-> t, orphan |-> FALSE]

Intact(a) == raw[a] % 2 = 0
Published == {a \in All : cache[a] # None}
ClosedWorld == stages = {} /\ Published = All
Orphans == {w \in Slots : worker[w].pc # "unborn" /\ worker[w].orphan}

(* output_lock: flock, which a forked pool keeps after its parent is gone. *)
LockFree == session.pc = "idle" /\ (inherits => Orphans = {})

CacheInit ==
    /\ installed = 0 /\ raw = [a \in All |-> 0]
    /\ cache = [a \in All |-> None] /\ stages = {}
    /\ session = Idle /\ worker = [w \in Slots |-> Unborn]
    /\ inventory = None /\ join = [pc |-> "none"]
    /\ inherits \in BOOLEAN /\ faults = 0

-----------------------------------------------------------------------------
(* run_cache_jobs.  A lone builder works in its own process, with the      *)
(* tokenizer it loaded; each process of a pool loads the tokenizer itself. *)
LaunchBuild(pool) ==
    /\ LockFree
    /\ session' = [Idle EXCEPT !.pc = "building", !.tokenizer = installed,
                               !.todo = RawArchives, !.pool = pool]
    /\ \/ pool /\ UNCHANGED worker
       \/ ~pool /\ \E w \in Slots :
                     /\ worker[w] = Unborn
                     /\ worker' = [worker EXCEPT ![w] = Rested(installed)]
    /\ UNCHANGED <<installed, raw, cache, stages, inventory, join, inherits, faults>>

Spawn(w) ==
    /\ session.pc = "building" /\ session.pool /\ worker[w] = Unborn
    /\ worker' = [worker EXCEPT ![w] = Rested(installed)]
    /\ UNCHANGED <<installed, raw, cache, stages, session, inventory, join, inherits, faults>>

(* A job that raises: the pool carries on with the others and reports the  *)
(* failure at the end, a lone builder stops there.                         *)
AfterFailure == [session EXCEPT !.failed = TRUE,
                                !.todo = IF session.pool THEN @ ELSE <<>>]
Mine(w) == {s \in stages : s.slot = w}
Fail(w) ==
    /\ stages' = stages \ Mine(w)
    /\ worker' = [worker EXCEPT ![w] = IF @.orphan THEN Unborn ELSE Rested(@.tokenizer)]
    /\ session' = IF worker[w].orphan THEN session ELSE AfterFailure
    /\ UNCHANGED cache

(* validate_completed_cache: the cache on disk is of this archive and of   *)
(* this process's tokenizer.                                               *)
Reusable(a, t) == Intact(a) /\ cache[a].tokenizer = t

(* build_archive_cache up to the staging directory: stages of the same     *)
(* target are swept, a published cache is verified and kept.               *)
TakeJob(w) ==
    /\ session.pc = "building" /\ session.todo # <<>>
    /\ worker[w].pc = "idle" /\ ~worker[w].orphan
    /\ LET a == Head(session.todo)
           swept == {s \in stages : s.archive # a}
           rest == [session EXCEPT !.todo = Tail(@)]
       IN  IF cache[a] # None
           THEN /\ stages' = swept
                /\ session' = IF Reusable(a, worker[w].tokenizer) THEN rest
                              ELSE [rest EXCEPT !.failed = TRUE,
                                                !.todo = IF rest.pool THEN @ ELSE <<>>]
                /\ UNCHANGED worker
           ELSE /\ stages' = swept \cup {[archive |-> a, slot |-> w]}
                /\ session' = rest
                /\ worker' = [worker EXCEPT ![w] =
                     [pc |-> "build", tokenizer |-> @.tokenizer, orphan |-> FALSE,
                      archive |-> a, stamp |-> raw[a], next |-> 0,
                      tokens |-> <<>>, offsets |-> <<0>>]]
    /\ UNCHANGED <<installed, raw, cache, inventory, join, inherits, faults>>

(* The tokens of the documents from + 1 .. to, counted one by one.         *)
Size(a, from, to) ==
    Cardinality(UNION {{i} \X (1 .. Counts[a][i]) : i \in from + 1 .. to})

(* The document after which pending is flushed.                            *)
FlushAt(a, from) ==
    CHOOSE k \in from + 1 .. Len(Counts[a]) :
        /\ \/ k = Len(Counts[a]) \/ k - from >= MaxBatchDocuments
           \/ Size(a, from, k) >= MaxBatchTokens
           \/ Size(a, from, k + 1) > MaxBatchTokens
        /\ \A j \in from + 1 .. k - 1 :
              /\ j - from < MaxBatchDocuments /\ Size(a, from, j) < MaxBatchTokens
              /\ Size(a, from, j + 1) <= MaxBatchTokens

(* The token IDs of the documents from + 1 .. to, one document after the   *)
(* other: the one a position falls in, and how far.                        *)
DocumentAt(a, from, to, p) ==
    CHOOSE i \in from + 1 .. to : p \in Size(a, from, i - 1) + 1 .. Size(a, from, i)
Encode(a, t, from, to) ==
    [p \in 1 .. Size(a, from, to) |->
        LET i == DocumentAt(a, from, to, p) IN <<t, i, p - Size(a, from, i - 1)>>]

(* flush_pending for documents from + 1 .. to: token IDs, then the running *)
(* total as the next offset.                                               *)
Flushed(job, to) ==
    LET a == job.archive
    IN  [job EXCEPT !.next = to,
           !.tokens = @ \o Encode(a, job.tokenizer, job.next, to),
           !.offsets = @ \o [d \in 1 .. to - job.next |->
                               Last(job.offsets) + Size(a, job.next, job.next + d)]]

Tokenize(w) ==
    /\ worker[w].pc = "build" /\ worker[w].next < Len(Counts[worker[w].archive])
    /\ IF ~Intact(worker[w].archive) THEN Fail(w)
       ELSE /\ worker' = [worker EXCEPT ![w] = Flushed(@, FlushAt(@.archive, @.next))]
            /\ UNCHANGED <<stages, session, cache>>
    /\ UNCHANGED <<installed, raw, inventory, join, inherits, faults>>

(* The end of _build_new_archive: the archive is the one that was opened,  *)
(* totals are the report's, and the stage is renamed to a target that must *)
(* not exist.                                                              *)
PublishCache(w) ==
    /\ worker[w].pc = "build" /\ worker[w].next = Len(Counts[worker[w].archive])
    /\ LET job == worker[w]
           a == job.archive
       IN  IF /\ raw[a] = job.stamp
              /\ Len(job.tokens) = Size(a, 0, Len(Counts[a]))
              /\ Mine(w) # {} /\ cache[a] = None
           THEN /\ cache' = [cache EXCEPT ![a] = [tokenizer |-> job.tokenizer,
                                tokens |-> job.tokens, offsets |-> job.offsets]]
                /\ stages' = stages \ Mine(w)
                /\ worker' = [worker EXCEPT ![w] = IF @.orphan THEN Unborn
                                                   ELSE Rested(@.tokenizer)]
                /\ UNCHANGED session
           ELSE Fail(w)
    /\ UNCHANGED <<installed, raw, inventory, join, inherits, faults>>

(* The pool has drained; the outcome (failed, or a tokenizer changed under *)
(* the run) is only a status, every published cache stays.                 *)
FinishBuild ==
    /\ session.pc = "building" /\ session.todo = <<>>
    /\ \A w \in Slots : worker[w].pc = "build" => worker[w].orphan
    /\ session' = Idle
    /\ worker' = [w \in Slots |-> IF w \in Orphans THEN worker[w] ELSE Unborn]
    /\ UNCHANGED <<installed, raw, cache, stages, inventory, join, inherits, faults>>

-----------------------------------------------------------------------------
(* RawTokenCacheReader.open: the cache is of the generation the caller's   *)
(* authority names, its sources and the installed tokenizer are those it   *)
(* was made from, and its spans line up with the fingerprints.             *)
Span(c, i) == SubSeq(c.tokens, c.offsets[i] + 1, c.offsets[i + 1])

Present(a, t) == cache[a] # None
SameGeneration(a, t) == Present(a, t) /\ cache[a].tokenizer = t
Aligned(a) == /\ Len(cache[a].offsets) = Len(Counts[a]) + 1
              /\ \A i \in DOMAIN Counts[a] : Len(Span(cache[a], i)) = Counts[a][i]
Authentic(a, t) == SameGeneration(a, t) /\ Intact(a) /\ installed = t /\ Aligned(a)

(* publish_raw_token_cache_inventory, under the builder's lock.            *)
LaunchInventory ==
    /\ LockFree /\ ClosedWorld
    /\ session' = [Idle EXCEPT !.pc = "certifying", !.tokenizer = installed, !.todo = RawArchives]
    /\ UNCHANGED <<installed, raw, cache, stages, worker, inventory, join, inherits, faults>>

Certify ==
    /\ session.pc = "certifying" /\ session.todo # <<>>
    /\ session' = IF Authentic(Head(session.todo), session.tokenizer)
                  THEN [session EXCEPT !.todo = Tail(@)] ELSE Idle
    /\ UNCHANGED <<installed, raw, cache, stages, worker, inventory, join, inherits, faults>>

PublishInventory ==
    /\ session.pc = "certifying" /\ session.todo = <<>>
    /\ inventory' = IF inventory # None THEN inventory
                    ELSE [tokenizer |-> session.tokenizer, archives |-> RawArchives,
                          entries |-> cache]
    /\ session' = Idle
    /\ UNCHANGED <<installed, raw, cache, stages, worker, join, inherits, faults>>

(* The orchestrator's _cache_status: a stage nobody is working on and a    *)
(* cache that does not authenticate are refused, an incomplete set awaits  *)
(* the builder, which the orchestrator never runs itself; a complete one   *)
(* without an inventory is handed to the publisher.                        *)
CacheStatus ==
    CASE LockFree /\ stages # {} -> "refused"
      [] \E a \in Published : ~Authentic(a, installed) -> "refused"
      [] OTHER -> IF LockFree /\ ClosedWorld THEN "complete" ELSE "waiting"
OrchestrateInventory == inventory = None /\ CacheStatus = "complete" /\ LaunchInventory

-----------------------------------------------------------------------------
(* load_raw_token_cache_inventory                                          *)
Loadable == inventory # None /\ ClosedWorld /\ inventory.entries = cache

(* The materializer's join, without the lock.  It has loaded a tokenizer   *)
(* of its own; an archive is guarded from before it is read to its commit. *)
LaunchJoin ==
    /\ join.pc \in {"none", "refused"}
    /\ join' = IF Loadable /\ inventory.archives = RawArchives /\ inventory.tokenizer = installed
               THEN [pc |-> "open", tokenizer |-> installed, todo |-> RawArchives, taken |-> <<>>,
                     guard |-> None]
               ELSE [pc |-> "refused"]
    /\ UNCHANGED <<installed, raw, cache, stages, session, worker, inventory, inherits, faults>>

OpenReader ==
    /\ join.pc = "open"
    /\ join' = IF join.todo = <<>> THEN [join EXCEPT !.pc = "joined"]
               ELSE LET a == Head(join.todo)
                    IN  IF Authentic(a, join.tokenizer)
                        THEN [join EXCEPT !.pc = "read", !.guard = <<raw[a], installed, cache[a]>>]
                        ELSE [pc |-> "refused"]
    /\ UNCHANGED <<installed, raw, cache, stages, session, worker, inventory, inherits, faults>>

CommitArchive ==
    /\ join.pc = "read"
    /\ LET a == Head(join.todo)
           spans == [i \in 1 .. Len(Counts[a]) |-> Span(cache[a], i)]
       IN  join' = IF join.guard = <<raw[a], installed, cache[a]>>
                   THEN [join EXCEPT !.pc = "open", !.todo = Tail(@), !.guard = None,
                                     !.taken = Append(@, spans)]
                   ELSE [pc |-> "refused"]
    /\ UNCHANGED <<installed, raw, cache, stages, session, worker, inventory, inherits, faults>>

-----------------------------------------------------------------------------
(* The parent of a build or the publisher is killed.  Processes of a pool  *)
(* that are at work finish their archive on their own; a lone builder dies *)
(* with its stage left behind.                                             *)
KillSession ==
    /\ session.pc # "idle"
    /\ worker' = [w \in Slots |->
                    CASE w \in Orphans -> worker[w]
                      [] session.pool /\ worker[w].pc = "build" ->
                           [worker[w] EXCEPT !.orphan = TRUE]
                      [] OTHER -> Unborn]
    /\ session' = Idle
    /\ UNCHANGED <<installed, raw, cache, stages, inventory, join, inherits>>

(* A process of a pool dies: the executor is broken and ends the others.   *)
BreakPool ==
    /\ session.pc = "building" /\ session.pool
    /\ \E w \in Slots : worker[w].pc # "unborn" /\ ~worker[w].orphan
    /\ worker' = [w \in Slots |-> IF w \in Orphans THEN worker[w] ELSE Unborn]
    /\ session' = Idle
    /\ UNCHANGED <<installed, raw, cache, stages, inventory, join, inherits>>

ReplaceArchive(a) ==
    /\ raw' = [raw EXCEPT ![a] = @ + 1]
    /\ UNCHANGED <<installed, cache, stages, session, worker, inventory, join, inherits>>

ReplaceTokenizer ==
    /\ installed' = 1 - installed
    /\ UNCHANGED <<raw, cache, stages, session, worker, inventory, join, inherits>>

CacheFault == /\ faults < MaxFaults /\ faults' = faults + 1
              /\ \/ KillSession \/ BreakPool \/ ReplaceTokenizer
                 \/ \E a \in All : ReplaceArchive(a)

CacheWork == \/ \E w \in Slots : Spawn(w) \/ TakeJob(w) \/ Tokenize(w) \/ PublishCache(w)
             \/ FinishBuild \/ Certify \/ PublishInventory
JoinWork == OpenReader \/ CommitArchive
CacheNext == \/ \E pool \in BOOLEAN : LaunchBuild(pool)
             \/ LaunchInventory \/ LaunchJoin \/ CacheWork \/ JoinWork \/ CacheFault

-----------------------------------------------------------------------------
(* A published cache and the join through the inventory give, document by  *)
(* document, the tokens of one tokenizer: the one the cache or the join    *)
(* names (flush_pending, RawTokenCacheReader.document).                    *)
Reference(a, t) == [i \in 1 .. Len(Counts[a]) |-> [j \in 1 .. Counts[a][i] |-> <<t, i, j>>]]
SpansExact ==
    /\ \A a \in Published :
          [i \in 1 .. Len(Counts[a]) |-> Span(cache[a], i)] = Reference(a, cache[a].tokenizer)
    /\ join.pc \notin {"none", "refused"} =>
          join.taken = [k \in 1 .. Len(join.taken) |-> Reference(RawArchives[k], join.tokenizer)]

(* The inventory certifies one generation: every archive, under the one    *)
(* tokenizer it names, as it is still published.                           *)
InventoryExact ==
    inventory # None => /\ inventory.entries = cache /\ Published = All
                        /\ \A a \in All : cache[a].tokenizer = inventory.tokenizer

(* The corpus was joined, or the operator has to look: an archive is not   *)
(* the one its report names, or a cache or the inventory is of another     *)
(* tokenizer than the installed one.                                       *)
Mixed == \/ \E a \in All : ~Intact(a)
         \/ \E a \in Published : cache[a].tokenizer # installed
CacheOver == join.pc = "joined" \/ Mixed
=============================================================================
