--------------------------- MODULE CheckpointLineage ---------------------------
(***************************************************************************)
(* One checkpoint lineage, `last` and `last.previous`, and the trainer     *)
(* launches that compete for it (pretrain/train.py: CheckpointLease,       *)
(* reconcile_checkpoint_temporaries, _atomic_torch_save, save_checkpoint,  *)
(* load_checkpoint and the launch checks of main).                         *)
(*                                                                         *)
(* A generation is an inode: an id in creation order and the optimizer     *)
(* step it holds.  A rename is visible at once but stable only after the   *)
(* directory is fsynced: lastOnDisk and prevOnDisk hold the generations a  *)
(* power failure may leave under the two names.                            *)
(***************************************************************************)
EXTENDS Integers, FiniteSets

CONSTANTS Trainers,       \* launches (processes of rank zero) on one lineage
          MaxSteps,       \* bound: optimizer steps of a run
          MaxGenerations, \* bound: generations ever written
          MaxFaults,      \* bound: kills, exceptions, power failures
          MaxCorruptions, \* bound: published generations that go bad in storage
          PeakGenerations,\* _CHECKPOINT_ROTATION_PEAK_GENERATIONS of the launcher
          None

ASSUME BoundsAssumption ==
    /\ MaxSteps \in Nat /\ MaxGenerations \in Nat
    /\ MaxFaults \in Nat /\ MaxCorruptions \in Nat
    /\ PeakGenerations \in Nat

Generation == [id : 1..MaxGenerations, step : 0..MaxSteps]
ASSUME NoneAssumption == None \notin Generation /\ None \notin Trainers

VARIABLES
    pc,         \* pc[t]: where launch t is
    mode,       \* mode[t]: "fresh", or the generation --resume names
    step,       \* step[t]: completed_steps in memory
    preserve,   \* preserve[t]: _preserve_previous_on_next_save
    saved,      \* saved[t]: is _last_checkpoint <<canonical path, step[t]>>?
    new,        \* new[t]: the generation t is writing
    base,       \* base[t]: generations written before t acquired the lease (ghost)
    lease,      \* who holds the flock
    last, prev, \* the two published names
    lastOnDisk, prevOnDisk,
    parts,      \* generations under a .checkpoint-part- name
    links,      \* <<id of the save, generation>> under a .previous-link- name
    whole,      \* ids of the generations written and fsynced to the end
    corrupt,    \* ids that went bad after publication
    rejected,   \* ids whose load failed
    created,    \* generations ever created
    committed,  \* id of the last save that returned (0: none, ghost)
    faults

trainer == <<pc, mode, step, preserve, saved, new, base>>
names == <<last, prev, lastOnDisk, prevOnDisk>>
vars == <<trainer, lease, names, parts, links, whole, corrupt, rejected, created,
          committed, faults>>

Init == /\ pc = [t \in Trainers |-> "down"]
        /\ mode = [t \in Trainers |-> "fresh"]
        /\ step = [t \in Trainers |-> 0]
        /\ preserve = [t \in Trainers |-> FALSE]
        /\ saved = [t \in Trainers |-> FALSE]
        /\ new = [t \in Trainers |-> None]
        /\ base = [t \in Trainers |-> 0]
        /\ lease = None
        /\ last = None /\ prev = None /\ lastOnDisk = {None} /\ prevOnDisk = {None}
        /\ parts = {} /\ links = {} /\ whole = {} /\ corrupt = {} /\ rejected = {}
        /\ created = 0 /\ committed = 0 /\ faults = 0

Move(t, from, to) == pc[t] = from /\ pc' = [pc EXCEPT ![t] = to]
SyncDirectory(l, p) == lastOnDisk' = {l} /\ prevOnDisk' = {p}
Inodes == ({last, prev} \ {None}) \cup parts \cup {l[2] : l \in links}

-----------------------------------------------------------------------------
(* Launch: the checks of main, and of the launcher before it, run before   *)
(* the lease is taken.  Resuming from previous is the operator's choice.   *)
Launch(t, m) ==
    /\ Move(t, "down", "launched")
    /\ CASE m = "fresh"    -> last = None /\ prev = None
         [] m = "latest"   -> last # None
         [] m = "previous" -> prev # None
    /\ mode' = [mode EXCEPT ![t] = m]
    /\ UNCHANGED <<step, preserve, saved, new, base, lease, names, parts, links, whole,
                   corrupt, rejected, created, committed, faults>>

(* CheckpointLease.acquire does not wait: a held lease ends the launch.    *)
AcquireWithoutLock(t) ==
    /\ Move(t, "launched", "leased")
    /\ lease' = t /\ base' = [base EXCEPT ![t] = created]
    /\ UNCHANGED <<mode, step, preserve, saved, new, names, parts, links, whole,
                   corrupt, rejected, created, committed, faults>>

Acquire(t) ==
    /\ pc[t] = "launched"
    /\ IF lease = None
       THEN /\ pc' = [pc EXCEPT ![t] = "leased"] /\ lease' = t
            /\ base' = [base EXCEPT ![t] = created]
       ELSE pc' = [pc EXCEPT ![t] = "down"] /\ UNCHANGED <<lease, base>>
    /\ UNCHANGED <<mode, step, preserve, saved, new, names, parts, links, whole,
                   corrupt, rejected, created, committed, faults>>

(* reconcile_checkpoint_temporaries, under the lease.                      *)
Reconcile(t) ==
    /\ Move(t, "leased", "loading")
    /\ parts' = {} /\ links' = {}
    /\ IF parts # {} \/ links # {} THEN SyncDirectory(last, prev)
       ELSE UNCHANGED <<lastOnDisk, prevOnDisk>>
    /\ UNCHANGED <<mode, step, preserve, saved, new, base, lease, last, prev, whole,
                   corrupt, rejected, created, committed, faults>>

(* load_checkpoint: a generation that does not load ends the launch.       *)
Source(t) == IF mode[t] = "latest" THEN last ELSE prev
LoadForgetsStep(t) ==
    /\ Move(t, "loading", "running")
    /\ step' = [step EXCEPT ![t] = 0]
    /\ saved' = [saved EXCEPT ![t] = FALSE]
    /\ preserve' = [preserve EXCEPT ![t] = (mode[t] = "previous")]
    /\ UNCHANGED <<mode, new, base, lease, names, parts, links, whole, corrupt, rejected,
                   created, committed, faults>>

Load(t) ==
    /\ pc[t] = "loading"
    /\ IF mode[t] = "fresh"
       THEN /\ pc' = [pc EXCEPT ![t] = "running"]
            /\ step' = [step EXCEPT ![t] = 0]
            /\ saved' = [saved EXCEPT ![t] = FALSE]
            /\ preserve' = [preserve EXCEPT ![t] = FALSE]
            /\ UNCHANGED <<lease, rejected>>
       ELSE IF Source(t) # None /\ Source(t).id \in whole \ corrupt
       THEN /\ pc' = [pc EXCEPT ![t] = "running"]
            /\ step' = [step EXCEPT ![t] = Source(t).step]
            /\ saved' = [saved EXCEPT ![t] = (mode[t] = "latest")]
            /\ preserve' = [preserve EXCEPT ![t] = (mode[t] = "previous")]
            /\ UNCHANGED <<lease, rejected>>
       ELSE /\ pc' = [pc EXCEPT ![t] = "down"] /\ lease' = None
            /\ rejected' = IF Source(t) = None THEN rejected
                           ELSE rejected \cup {Source(t).id}
            /\ UNCHANGED <<step, saved, preserve>>
    /\ UNCHANGED <<mode, new, base, names, parts, links, whole, corrupt, created,
                   committed, faults>>

-----------------------------------------------------------------------------
(* Training, and what makes a same-step save necessary: a validation that  *)
(* completed or a tracker id that was bound clears _last_checkpoint.       *)
Update(t) ==
    /\ pc[t] = "running" /\ step[t] < MaxSteps
    /\ step' = [step EXCEPT ![t] = @ + 1]
    /\ saved' = [saved EXCEPT ![t] = FALSE]
    /\ UNCHANGED <<pc, mode, preserve, new, base, lease, names, parts, links, whole,
                   corrupt, rejected, created, committed, faults>>

Invalidate(t) ==
    /\ pc[t] = "running" /\ saved[t]
    /\ saved' = [saved EXCEPT ![t] = FALSE]
    /\ UNCHANGED <<pc, mode, step, preserve, new, base, lease, names, parts, links, whole,
                   corrupt, rejected, created, committed, faults>>

-----------------------------------------------------------------------------
(* save_checkpoint and _atomic_torch_save, one file operation a step.      *)

CreatePart(t) ==
    /\ ~saved[t] /\ created < MaxGenerations
    /\ Move(t, "running", "writing")
    /\ LET g == [id |-> created + 1, step |-> step[t]]
       IN new' = [new EXCEPT ![t] = g] /\ parts' = parts \cup {g}
    /\ created' = created + 1
    /\ UNCHANGED <<mode, step, preserve, saved, base, lease, names, links, whole, corrupt,
                   rejected, committed, faults>>

WritePartUnsynced(t) ==
    /\ Move(t, "writing", "written")
    /\ UNCHANGED <<mode, step, preserve, saved, new, base, lease, names, parts, links, whole,
                   corrupt, rejected, created, committed, faults>>

WritePart(t) ==
    /\ Move(t, "writing", "written")
    /\ whole' = whole \cup {new[t].id}
    /\ UNCHANGED <<mode, step, preserve, saved, new, base, lease, names, parts, links, corrupt,
                   rejected, created, committed, faults>>

LinkPreviousUnchecked(t) ==
    /\ Move(t, "written", "linked")
    /\ links' = IF preserve[t] THEN links ELSE links \cup {<<new[t].id, last>>}
    /\ UNCHANGED <<mode, step, preserve, saved, new, base, lease, names, parts, whole, corrupt,
                   rejected, created, committed, faults>>

LinkPreviousMovesLast(t) ==
    /\ Move(t, "written", "linked")
    /\ IF last = None \/ preserve[t] THEN UNCHANGED <<links, last, lastOnDisk>>
       ELSE /\ links' = links \cup {<<new[t].id, last>>}
            /\ last' = None /\ lastOnDisk' = lastOnDisk \cup {None}
    /\ UNCHANGED <<mode, step, preserve, saved, new, base, lease, prev, prevOnDisk, parts, whole,
                   corrupt, rejected, created, committed, faults>>

LinkPreviousEvenRejected(t) ==
    /\ Move(t, "written", "linked")
    /\ links' = IF last = None THEN links ELSE links \cup {<<new[t].id, last>>}
    /\ UNCHANGED <<mode, step, preserve, saved, new, base, lease, names, parts, whole, corrupt,
                   rejected, created, committed, faults>>

LinkPrevious(t) ==
    /\ Move(t, "written", "linked")
    /\ links' = IF last # None /\ ~preserve[t] THEN links \cup {<<new[t].id, last>>}
                ELSE links
    /\ UNCHANGED <<mode, step, preserve, saved, new, base, lease, names, parts, whole, corrupt,
                   rejected, created, committed, faults>>

PublishLast(t) ==
    /\ Move(t, "linked", "published")
    /\ new[t] \in parts
    /\ last' = new[t] /\ lastOnDisk' = lastOnDisk \cup {new[t]}
    /\ parts' = parts \ {new[t]}
    /\ UNCHANGED <<mode, step, preserve, saved, new, base, lease, prev, prevOnDisk, links, whole,
                   corrupt, rejected, created, committed, faults>>

SyncLastSkipped(t) ==
    /\ Move(t, "published", "synced")
    /\ UNCHANGED <<mode, step, preserve, saved, new, base, lease, names, parts, links, whole,
                   corrupt, rejected, created, committed, faults>>

SyncLast(t) ==
    /\ Move(t, "published", "synced")
    /\ SyncDirectory(last, prev)
    /\ UNCHANGED <<mode, step, preserve, saved, new, base, lease, last, prev, parts, links, whole,
                   corrupt, rejected, created, committed, faults>>

Linked(t) == {l \in links : l[1] = new[t].id}
RotatePrevious(t) ==
    /\ Move(t, "synced", "rotated")
    /\ IF Linked(t) = {} THEN UNCHANGED <<prev, prevOnDisk, links>>
       ELSE /\ \E l \in Linked(t) : prev' = l[2] /\ prevOnDisk' = prevOnDisk \cup {l[2]}
            /\ links' = links \ Linked(t)
    /\ UNCHANGED <<mode, step, preserve, saved, new, base, lease, last, lastOnDisk, parts, whole,
                   corrupt, rejected, created, committed, faults>>

FinishSave(t) ==
    /\ Move(t, "rotated", "running")
    /\ SyncDirectory(last, prev)
    /\ preserve' = [preserve EXCEPT ![t] = FALSE]
    /\ saved' = [saved EXCEPT ![t] = TRUE]
    /\ committed' = new[t].id
    /\ new' = [new EXCEPT ![t] = None]
    /\ UNCHANGED <<mode, step, base, lease, last, prev, parts, links, whole, corrupt, rejected,
                   created, faults>>

-----------------------------------------------------------------------------
Exit(t) ==
    /\ Move(t, "running", "down")
    /\ saved[t] /\ lease' = None
    /\ UNCHANGED <<mode, step, preserve, saved, new, base, names, parts, links, whole, corrupt,
                   rejected, created, committed, faults>>

(* A hard kill leaves every temporary; an exception in the save unlinks    *)
(* this save's own.  Either way the kernel drops the lease.                *)
Die(t) ==
    /\ pc[t] # "down" /\ faults < MaxFaults /\ faults' = faults + 1
    /\ pc' = [pc EXCEPT ![t] = "down"] /\ new' = [new EXCEPT ![t] = None]
    /\ lease' = IF lease = t THEN None ELSE lease
    /\ \/ UNCHANGED <<parts, links>>
       \/ /\ new[t] # None
          /\ parts' = parts \ {new[t]} /\ links' = links \ Linked(t)
    /\ UNCHANGED <<mode, step, preserve, saved, base, names, whole, corrupt, rejected, created,
                   committed>>

PowerFailure ==
    /\ faults < MaxFaults /\ faults' = faults + 1
    /\ pc' = [t \in Trainers |-> "down"] /\ new' = [t \in Trainers |-> None]
    /\ lease' = None
    /\ last' \in lastOnDisk /\ prev' \in prevOnDisk
    /\ lastOnDisk' = {last'} /\ prevOnDisk' = {prev'}
    /\ UNCHANGED <<mode, step, preserve, saved, base, parts, links, whole, corrupt, rejected,
                   created, committed>>

(* A published generation goes bad in storage; nobody notices until a load.*)
Corrupt ==
    /\ Cardinality(corrupt) < MaxCorruptions
    /\ \E g \in {last, prev} \ {None} :
         g.id \notin corrupt /\ corrupt' = corrupt \cup {g.id}
    /\ UNCHANGED <<trainer, lease, names, parts, links, whole, rejected, created, committed,
                   faults>>

Save(t) == \/ CreatePart(t) \/ WritePart(t) \/ LinkPrevious(t) \/ PublishLast(t)
           \/ SyncLast(t) \/ RotatePrevious(t) \/ FinishSave(t)
Setup(t) == \/ \E m \in {"fresh", "latest", "previous"} : Launch(t, m)
            \/ Acquire(t) \/ Reconcile(t) \/ Load(t)
Train(t) == Update(t) \/ Invalidate(t) \/ Save(t) \/ Exit(t)

Next == \/ \E t \in Trainers : Setup(t) \/ Train(t) \/ Die(t)
        \/ PowerFailure \/ Corrupt

Spec == Init /\ [][Next]_vars

-----------------------------------------------------------------------------
(* Properties.                                                             *)

Name == Generation \cup {None}
Saving == {"writing", "written", "linked", "published", "synced", "rotated"}
\* What the two names may hold after a power failure in this very state.
Outcomes == lastOnDisk \X prevOnDisk

\* The shape of every variable.
TypeOK ==
    /\ pc \in [Trainers -> {"down", "launched", "leased", "loading", "running"} \cup Saving]
    /\ mode \in [Trainers -> {"fresh", "latest", "previous"}]
    /\ step \in [Trainers -> 0..MaxSteps]
    /\ preserve \in [Trainers -> BOOLEAN] /\ saved \in [Trainers -> BOOLEAN]
    /\ new \in [Trainers -> Name] /\ base \in [Trainers -> 0..MaxGenerations]
    /\ lease \in Trainers \cup {None}
    /\ last \in Name /\ prev \in Name
    /\ lastOnDisk \subseteq Name /\ prevOnDisk \subseteq Name
    /\ parts \subseteq Generation /\ links \subseteq (1..MaxGenerations) \X Generation
    /\ whole \subseteq 1..MaxGenerations /\ corrupt \subseteq 1..MaxGenerations
    /\ rejected \subseteq 1..MaxGenerations
    /\ created \in 0..MaxGenerations /\ committed \in 0..MaxGenerations
    /\ faults \in 0..MaxFaults

\* Neither published name ever shows a partly written generation, whatever a
\* crash leaves (_atomic_torch_save: fsync before os.replace).
PublishedWhole ==
    \A g \in ({last, prev} \cup lastOnDisk \cup prevOnDisk) \ {None} : g.id \in whole

\* The two names never denote one inode, so one bad file never takes both
\* generations ("never destroys the only known-good previous before latest is
\* durable", _atomic_torch_save).
TwoGenerations ==
    \A o \in Outcomes \cup {<<last, prev>>} :
      o[1] # None /\ o[2] # None => o[1].id # o[2].id

\* A save that returned survives: any crash leaves it, or a later generation,
\* under the latest name (save_checkpoint: "synchronously commit").
CommitSurvives ==
    committed # 0 => \A g \in lastOnDisk \cup {last} : g # None /\ g.id >= committed

\* Once two generations exist, one file going bad leaves a generation to resume
\* from, also when a power failure follows at once.
KnownGoodKept ==
    Cardinality(corrupt) <= 1 =>
      \A o \in Outcomes \cup {<<last, prev>>} :
        o[2] # None => \E i \in {1, 2} : o[i] # None /\ o[i].id \in whole \ corrupt

\* A generation that failed to load is never made the rollback generation
\* (preserve_previous of _atomic_torch_save: "the current last is the rejected
\* generation, so it must not replace the known-good rollback checkpoint").
RetainsReadable == prev' # None /\ prev' \notin prevOnDisk => prev'.id \notin rejected
RejectedNeverRetained == [][RetainsReadable]_vars

\* The rollback generation is never ahead of the latest one, and a save never
\* holds more generations than the launcher reserves disk for, whatever an
\* earlier crash left behind (_atomic_torch_save; inspect_storage_and_checkpoint,
\* additional_generation_slots).
RotationBounded ==
    /\ (\E t \in Trainers : pc[t] \in Saving) => Cardinality(Inodes) <= PeakGenerations
    /\ \A o \in Outcomes \cup {<<last, prev>>} :
         o[1] # None /\ o[2] # None => o[2].step <= o[1].step

\* A writing trainer's part file is never reclaimed by another launch, and only
\* the holder of the lease has one (reconcile_checkpoint_temporaries).
LivePartKept ==
    \A t \in Trainers :
      /\ pc[t] \in Saving => lease = t
      /\ pc[t] \in {"writing", "written", "linked"} => new[t] \in parts

\* A run that was not opened through --resume never overwrites a generation
\* that is not its own.
FreshNeverOverwrites ==
    \A t \in Trainers :
      pc[t] = "linked" /\ mode[t] = "fresh" /\ last # None => last.id > base[t]
=============================================================================
