------------------------ MODULE CheckpointLineage_proofs ------------------------
(***************************************************************************)
(* Proofs about CheckpointLineage, for any set of launches and any bounds. *)
(*                                                                         *)
(* Everything follows from two facts.  The lease makes the launch that     *)
(* saves the only one that touches the directory, so nothing newer than    *)
(* its own generation can appear under it.  And ids only grow from the     *)
(* rollback name to the latest name, under every pair of names a power     *)
(* failure may leave.                                                      *)
(***************************************************************************)
EXTENDS MCCheckpointLineage, FiniteSetTheorems, TLAPS

Holding == {"leased", "loading", "running"} \cup Saving
Unpublished == {"writing", "written", "linked"}
LatestNames == lastOnDisk \cup {last}
PreviousNames == prevOnDisk \cup {prev}

(* Who holds the lease, and what the generation being saved is.            *)
Exclusive == \A t \in Trainers : pc[t] \in Holding => lease = t
Idle == \A t \in Trainers : pc[t] \notin Saving => new[t] = None
Newest == \A t \in Trainers :
            pc[t] \in Saving => new[t] \in Generation /\ new[t].id = created
InPart == \A t \in Trainers : pc[t] \in Unpublished => new[t] \in parts
Flushed == \A t \in Trainers : pc[t] \in Saving \ {"writing"} => new[t].id \in whole
Replaced == \A t \in Trainers :
              /\ pc[t] \in {"published", "synced", "rotated"} => last = new[t]
              /\ pc[t] \in {"synced", "rotated"} => lastOnDisk = {last}

(* The directory.                                                          *)
OnDisk == last \in lastOnDisk /\ prev \in prevOnDisk
Known == \A g \in LatestNames \cup PreviousNames : g # None => g.id \in whole /\ g.id <= created
Below == \A t \in Trainers : pc[t] \in Unpublished =>
           \A g \in LatestNames \cup PreviousNames : g # None => g.id < new[t].id
LinksKnown == \A l \in links : l[1] <= created /\ l[2].id < l[1] /\ l[2].id \in whole
Ordered == \A g \in LatestNames, h \in PreviousNames :
             h # None => g # None /\ h.id < g.id
Committed == /\ committed <= created
             /\ committed # 0 => \A g \in LatestNames : g # None /\ g.id >= committed

IInv == /\ TypeOK /\ Exclusive /\ Idle /\ Newest /\ InPart /\ Flushed /\ Replaced
        /\ OnDisk /\ Known /\ Below /\ LinksKnown /\ Ordered /\ Committed

-----------------------------------------------------------------------------
(* Each action keeps the invariant.                                         *)

\* Launching changes nothing on disk.
LEMMA LaunchStep ==
    ASSUME IInv, NEW t \in Trainers, NEW m \in {"fresh", "latest", "previous"}, Launch(t, m)
    PROVE  IInv'
<1>1. TypeOK' /\ Exclusive' /\ Idle' /\ Newest' /\ InPart' /\ Flushed' /\ Replaced'
     /\ OnDisk' /\ Known' /\ Below' /\ LinksKnown' /\ Ordered' /\ Committed'
  BY DEF Launch, Move, IInv, TypeOK, Name, Generation, Saving, Exclusive, Holding, Idle,
       Newest, InPart, Unpublished, Flushed, Replaced, OnDisk, Known, LatestNames,
       PreviousNames, Below, LinksKnown, Ordered, Committed, trainer, names
<1> QED BY <1>1 DEF IInv

\* The lease is free, so no other launch is holding it or saving.
LEMMA AcquireStep == ASSUME IInv, NEW t \in Trainers, Acquire(t) PROVE IInv'
<1>1. TypeOK' /\ OnDisk' /\ Known' /\ LinksKnown' /\ Ordered' /\ Committed'
  BY DEF Acquire, IInv, TypeOK, Name, Generation, Saving, OnDisk, Known, LatestNames,
       PreviousNames, LinksKnown, Ordered, Committed, trainer, names
<1>2. Exclusive'
  BY BoundsAssumption, NoneAssumption DEF Acquire, IInv, Exclusive, Holding, Saving, TypeOK,
       Name, Generation, trainer, names
<1>3. Idle'
  BY BoundsAssumption, NoneAssumption DEF Acquire, IInv, Idle, Saving, TypeOK, Name,
       Generation, trainer, names
<1>4. Newest'
  BY BoundsAssumption, NoneAssumption DEF Acquire, IInv, Newest, Saving, TypeOK, Name,
       Generation, trainer, names
<1>5. InPart'
  BY BoundsAssumption, NoneAssumption DEF Acquire, IInv, InPart, Unpublished, TypeOK, Name,
       Generation, trainer, names
<1>6. Flushed'
  BY BoundsAssumption, NoneAssumption DEF Acquire, IInv, Flushed, Saving, TypeOK, Name,
       Generation, trainer, names
<1>7. Replaced'
  BY BoundsAssumption, NoneAssumption DEF Acquire, IInv, Replaced, TypeOK, Name, Generation,
       trainer, names
<1>8. Below'
  BY BoundsAssumption, NoneAssumption DEF Acquire, IInv, Below, Unpublished, LatestNames,
       PreviousNames, TypeOK, Name, Generation, trainer, names
<1> QED BY <1>1, <1>2, <1>3, <1>4, <1>5, <1>6, <1>7, <1>8 DEF IInv

\* No launch is saving: the swept temporaries are nobody's.
LEMMA ReconcileStep == ASSUME IInv, NEW t \in Trainers, Reconcile(t) PROVE IInv'
<1>1. TypeOK' /\ Exclusive' /\ Idle' /\ Newest' /\ Flushed' /\ Replaced' /\ OnDisk'
     /\ Known' /\ Below' /\ Ordered' /\ Committed'
  BY DEF Reconcile, Move, SyncDirectory, IInv, TypeOK, Name, Generation, Saving, Exclusive,
       Holding, Idle, Newest, Flushed, Replaced, OnDisk, Known, LatestNames, PreviousNames,
       Below, Unpublished, Ordered, Committed, trainer, names
<1>2. InPart'
  BY BoundsAssumption, NoneAssumption DEF Reconcile, Move, SyncDirectory, IInv, InPart,
       Unpublished, Exclusive, Holding, Saving, trainer, names
<1>3. LinksKnown'
  BY BoundsAssumption, NoneAssumption DEF Reconcile, Move, SyncDirectory, IInv, LinksKnown,
       TypeOK, Name, Generation, trainer, names
<1> QED BY <1>1, <1>2, <1>3 DEF IInv

\* A launch that cannot load gives the lease back.
LEMMA LoadStep == ASSUME IInv, NEW t \in Trainers, Load(t) PROVE IInv'
<1>1. TypeOK'
  <2>1. Source(t) # None => Source(t).id \in 1..MaxGenerations /\ Source(t).step \in 0..MaxSteps
    BY DEF IInv, TypeOK, Name, Source, Generation
  <2>2. /\ pc' \in [Trainers -> {"down", "launched", "leased", "loading", "running"} \cup Saving]
        /\ lease' \in Trainers \cup {None}
    BY DEF IInv, TypeOK, Load
  <2>3. step' \in [Trainers -> 0..MaxSteps]
    <3>1. step \in [Trainers -> 0..MaxSteps]
      BY DEF IInv, TypeOK
    <3> QED BY <2>1, <3>1, BoundsAssumption DEF Load
  <2>6. rejected' \subseteq 1..MaxGenerations
    <3>1. rejected \subseteq 1..MaxGenerations
      BY DEF IInv, TypeOK
    <3> QED BY <2>1, <3>1 DEF Load
  <2>4. saved' \in [Trainers -> BOOLEAN] /\ preserve' \in [Trainers -> BOOLEAN]
    BY DEF IInv, TypeOK, Load
  <2>5. UNCHANGED <<mode, new, base, names, parts, links, whole, corrupt, created, committed, faults>>
    BY DEF Load
  <2> QED BY <2>2, <2>3, <2>4, <2>5, <2>6 DEF IInv, TypeOK, names
<1>2. OnDisk' /\ Known' /\ LinksKnown' /\ Ordered' /\ Committed'
  BY DEF Load, Source, IInv, OnDisk, Known, LatestNames, PreviousNames, LinksKnown, Ordered,
       Committed, trainer, names
<1>3. Exclusive'
  BY BoundsAssumption, NoneAssumption, SMTT(30) DEF Load, Source, IInv, Exclusive, Holding,
       Saving, TypeOK, Name, Generation, trainer, names
<1>4. Idle'
  BY BoundsAssumption, NoneAssumption, SMTT(30) DEF Load, Source, IInv, Idle, Saving, TypeOK,
       Name, Generation, trainer, names
<1>5. Newest'
  BY BoundsAssumption, NoneAssumption, SMTT(30) DEF Load, Source, IInv, Newest, Saving, TypeOK,
       Name, Generation, trainer, names
<1>6. InPart'
  BY BoundsAssumption, NoneAssumption, SMTT(30) DEF Load, Source, IInv, InPart, Unpublished,
       TypeOK, Name, Generation, trainer, names
<1>7. Flushed'
  BY BoundsAssumption, NoneAssumption, SMTT(30) DEF Load, Source, IInv, Flushed, Saving,
       TypeOK, Name, Generation, trainer, names
<1>8. Replaced'
  BY BoundsAssumption, NoneAssumption, SMTT(30) DEF Load, Source, IInv, Replaced, TypeOK, Name,
       Generation, trainer, names
<1>9. Below'
  BY BoundsAssumption, NoneAssumption, SMTT(30) DEF Load, Source, IInv, Below, Unpublished,
       LatestNames, PreviousNames, TypeOK, Name, Generation, trainer, names
<1> QED BY <1>1, <1>2, <1>3, <1>4, <1>5, <1>6, <1>7, <1>8, <1>9 DEF IInv

\* Training touches no file.
LEMMA UpdateStep == ASSUME IInv, NEW t \in Trainers, Update(t) PROVE IInv'
<1>1. Exclusive' /\ Idle' /\ Newest' /\ InPart' /\ Flushed' /\ Replaced' /\ OnDisk'
     /\ Known' /\ Below' /\ LinksKnown' /\ Ordered' /\ Committed'
  BY DEF Update, IInv, Exclusive, Holding, Saving, Idle, Newest, InPart, Unpublished, Flushed,
       Replaced, OnDisk, Known, LatestNames, PreviousNames, Below, LinksKnown, Ordered,
       Committed, trainer, names
<1>2. TypeOK'
  BY BoundsAssumption, NoneAssumption DEF Update, IInv, TypeOK, Name, Generation, Saving,
       trainer, names
<1> QED BY <1>1, <1>2 DEF IInv

\* Nor does clearing the same-step cache.
LEMMA InvalidateStep == ASSUME IInv, NEW t \in Trainers, Invalidate(t) PROVE IInv'
<1>1. TypeOK' /\ Exclusive' /\ Idle' /\ Newest' /\ InPart' /\ Flushed' /\ Replaced'
     /\ OnDisk' /\ Known' /\ Below' /\ LinksKnown' /\ Ordered' /\ Committed'
  BY DEF Invalidate, IInv, TypeOK, Name, Generation, Saving, Exclusive, Holding, Idle, Newest,
       InPart, Unpublished, Flushed, Replaced, OnDisk, Known, LatestNames, PreviousNames,
       Below, LinksKnown, Ordered, Committed, trainer, names
<1> QED BY <1>1 DEF IInv

\* The new generation is the newest anywhere.
LEMMA CreatePartStep == ASSUME IInv, NEW t \in Trainers, CreatePart(t) PROVE IInv'
<1>1. Exclusive' /\ Flushed' /\ Replaced' /\ OnDisk' /\ Ordered'
  BY DEF CreatePart, Move, IInv, Exclusive, Holding, Saving, Flushed, Replaced, OnDisk,
       Ordered, LatestNames, PreviousNames, trainer, names
<1>2. TypeOK'
  BY BoundsAssumption, NoneAssumption DEF CreatePart, Move, IInv, TypeOK, Name, Generation,
       Saving, trainer, names
<1>3. Idle'
  BY BoundsAssumption, NoneAssumption DEF CreatePart, Move, IInv, Idle, Saving, TypeOK, Name,
       Generation, trainer, names
<1>4. Newest'
  BY BoundsAssumption, NoneAssumption DEF CreatePart, Move, IInv, Newest, Saving, TypeOK, Name,
       Generation, Exclusive, Holding, trainer, names
<1>5. InPart'
  BY BoundsAssumption, NoneAssumption DEF CreatePart, Move, IInv, InPart, Unpublished, TypeOK,
       Name, Generation, trainer, names
<1>6. Known'
  BY BoundsAssumption, NoneAssumption DEF CreatePart, Move, IInv, Known, LatestNames,
       PreviousNames, TypeOK, Name, Generation, trainer, names
<1>7. Below'
  BY BoundsAssumption, NoneAssumption, SMTT(30) DEF CreatePart, Move, IInv, Below, Unpublished,
       LatestNames, PreviousNames, Exclusive, Holding, Saving, Newest, OnDisk, Replaced, Known,
       TypeOK, Name, Generation, trainer, names
<1>8. LinksKnown'
  BY BoundsAssumption, NoneAssumption DEF CreatePart, Move, IInv, LinksKnown, TypeOK, Name,
       Generation, trainer, names
<1>9. Committed'
  BY BoundsAssumption, NoneAssumption DEF CreatePart, Move, IInv, Committed, LatestNames,
       TypeOK, Name, Generation, trainer, names
<1> QED BY <1>1, <1>2, <1>3, <1>4, <1>5, <1>6, <1>7, <1>8, <1>9 DEF IInv

\* Its id is whole from here on.
LEMMA WritePartStep == ASSUME IInv, NEW t \in Trainers, WritePart(t) PROVE IInv'
<1>1. TypeOK'
  <2>1. new[t].id \in 1..MaxGenerations
    BY DEF IInv, Newest, WritePart, Move, Saving, Generation
  <2> QED
    BY <2>1 DEF IInv, TypeOK, WritePart, Move, Saving, names
<1>2. Exclusive' /\ Idle' /\ Newest' /\ InPart' /\ Flushed' /\ Replaced' /\ OnDisk'
     /\ Below' /\ LinksKnown' /\ Ordered' /\ Committed'
  BY DEF WritePart, Move, IInv, Exclusive, Holding, Saving, Idle, Newest, InPart, Unpublished,
       Flushed, Replaced, OnDisk, Below, LatestNames, PreviousNames, LinksKnown, Ordered,
       Committed, trainer, names
<1>3. Known'
  BY BoundsAssumption, NoneAssumption DEF WritePart, Move, IInv, Known, LatestNames,
       PreviousNames, TypeOK, Name, Generation, trainer, names
<1> QED BY <1>1, <1>2, <1>3 DEF IInv

\* The link names an older, whole generation.
LEMMA LinkPreviousStep == ASSUME IInv, NEW t \in Trainers, LinkPrevious(t) PROVE IInv'
<1>1. Exclusive' /\ Idle' /\ Newest' /\ InPart' /\ Flushed' /\ Replaced' /\ OnDisk'
     /\ Known' /\ Below' /\ Ordered' /\ Committed'
  BY DEF LinkPrevious, Move, IInv, Exclusive, Holding, Saving, Idle, Newest, InPart,
       Unpublished, Flushed, Replaced, OnDisk, Known, LatestNames, PreviousNames, Below,
       Ordered, Committed, trainer, names
<1>2. TypeOK'
  BY BoundsAssumption, NoneAssumption, SMTT(30) DEF LinkPrevious, Move, IInv, TypeOK, Name,
       Generation, Saving, Exclusive, Holding, Newest, OnDisk, trainer, names
<1>3. LinksKnown'
  BY BoundsAssumption, NoneAssumption, SMTT(30) DEF LinkPrevious, Move, IInv, LinksKnown,
       Exclusive, Holding, Saving, Newest, OnDisk, Replaced, Unpublished, Flushed, Below,
       InPart, Idle, Known, LatestNames, PreviousNames, TypeOK, Name, Generation, trainer, names
<1> QED BY <1>1, <1>2, <1>3 DEF IInv

\* Only whole, newest generations reach the latest name.
LEMMA PublishLastStep == ASSUME IInv, NEW t \in Trainers, PublishLast(t) PROVE IInv'
<1>1. TypeOK' /\ Exclusive' /\ Idle' /\ Newest' /\ Flushed' /\ OnDisk' /\ LinksKnown'
  BY DEF PublishLast, Move, IInv, TypeOK, Name, Generation, Saving, Exclusive, Holding, Idle,
       Newest, Flushed, OnDisk, LinksKnown, trainer, names
<1>2. InPart'
  BY BoundsAssumption, NoneAssumption DEF PublishLast, Move, IInv, InPart, Unpublished, TypeOK,
       Name, Generation, Exclusive, Holding, Saving, trainer, names
<1>3. Replaced'
  BY BoundsAssumption, NoneAssumption DEF PublishLast, Move, IInv, Replaced, Exclusive,
       Holding, Saving, trainer, names
<1>4. Known'
  BY BoundsAssumption, NoneAssumption, SMTT(30) DEF PublishLast, Move, IInv, Known,
       LatestNames, PreviousNames, Exclusive, Holding, Saving, Newest, OnDisk, Replaced,
       Unpublished, Flushed, Below, InPart, LinksKnown, Idle, TypeOK, Name, Generation,
       trainer, names
<1>5. Below'
  BY BoundsAssumption, NoneAssumption DEF PublishLast, Move, IInv, Below, Unpublished,
       LatestNames, PreviousNames, TypeOK, Name, Generation, Exclusive, Holding, Saving,
       trainer, names
<1>6. Ordered'
  BY BoundsAssumption, NoneAssumption, SMTT(30) DEF PublishLast, Move, IInv, Ordered,
       LatestNames, PreviousNames, Exclusive, Holding, Saving, Newest, OnDisk, Replaced,
       Unpublished, Known, TypeOK, Name, Generation, trainer, names
<1>7. Committed'
  BY BoundsAssumption, NoneAssumption, SMTT(30) DEF PublishLast, Move, IInv, Committed,
       LatestNames, Exclusive, Holding, Saving, Newest, OnDisk, trainer, names
<1> QED BY <1>1, <1>2, <1>3, <1>4, <1>5, <1>6, <1>7 DEF IInv

\* After the directory sync only the new generation can be latest, so the old
\* one may become previous.
LEMMA SyncLastStep == ASSUME IInv, NEW t \in Trainers, SyncLast(t) PROVE IInv'
<1>1. TypeOK'
  BY DEF SyncLast, Move, SyncDirectory, IInv, TypeOK, Name, Generation, Saving, trainer, names
<1>2. Exclusive'
  BY DEF SyncLast, Move, SyncDirectory, IInv, Exclusive, Holding, Saving, trainer, names
<1>3. Idle'
  BY DEF SyncLast, Move, SyncDirectory, IInv, Idle, Saving, trainer, names
<1>4. Newest'
  BY DEF SyncLast, Move, SyncDirectory, IInv, Newest, Saving, trainer, names
<1>5. Flushed'
  BY DEF SyncLast, Move, SyncDirectory, IInv, Flushed, Saving, trainer, names
<1>6. OnDisk'
  BY DEF SyncLast, Move, SyncDirectory, IInv, OnDisk, trainer, names
<1>7. Known'
  BY DEF SyncLast, Move, SyncDirectory, IInv, Known, LatestNames, PreviousNames, trainer, names
<1>8. Below'
  BY DEF SyncLast, Move, SyncDirectory, IInv, Below, Unpublished, LatestNames, PreviousNames,
       trainer, names
<1>9. LinksKnown'
  BY DEF SyncLast, Move, SyncDirectory, IInv, LinksKnown, trainer, names
<1>10. Ordered'
  BY DEF SyncLast, Move, SyncDirectory, IInv, Ordered, LatestNames, PreviousNames, trainer,
       names
<1>11. InPart'
  BY BoundsAssumption, NoneAssumption DEF SyncLast, Move, SyncDirectory, IInv, InPart,
       Unpublished, TypeOK, Name, Generation, trainer, names
<1>12. Replaced'
  BY BoundsAssumption, NoneAssumption DEF SyncLast, Move, SyncDirectory, IInv, Replaced,
       TypeOK, Name, Generation, trainer, names
<1>13. Committed'
  BY BoundsAssumption, NoneAssumption DEF SyncLast, Move, SyncDirectory, IInv, Committed,
       LatestNames, TypeOK, Name, Generation, trainer, names
<1> QED BY <1>1, <1>2, <1>3, <1>4, <1>5, <1>6, <1>7, <1>8, <1>9, <1>10, <1>11, <1>12, <1>13 DEF IInv

\* The link is older than the one name latest can have.
LEMMA RotatePreviousStep == ASSUME IInv, NEW t \in Trainers, RotatePrevious(t) PROVE IInv'
<1>1. TypeOK' /\ Exclusive' /\ Idle' /\ Newest' /\ InPart' /\ Flushed' /\ Replaced'
     /\ OnDisk' /\ LinksKnown' /\ Committed'
  BY DEF RotatePrevious, Move, Linked, IInv, TypeOK, Name, Generation, Saving, Exclusive,
       Holding, Idle, Newest, InPart, Unpublished, Flushed, Replaced, OnDisk, LinksKnown,
       Committed, LatestNames, trainer, names
<1>2. Known'
  BY BoundsAssumption, NoneAssumption, SMTT(30) DEF RotatePrevious, Move, Linked, IInv, Known,
       LatestNames, PreviousNames, Exclusive, Holding, Saving, Newest, OnDisk, Replaced,
       Unpublished, Flushed, Below, InPart, LinksKnown, Idle, TypeOK, Name, Generation,
       trainer, names
<1>3. Below'
  BY BoundsAssumption, NoneAssumption DEF RotatePrevious, Move, Linked, IInv, Below,
       Unpublished, LatestNames, PreviousNames, Exclusive, Holding, Saving, trainer, names
<1>4. Ordered'
  BY BoundsAssumption, NoneAssumption, SMTT(30) DEF RotatePrevious, Move, Linked, IInv,
       Ordered, LatestNames, PreviousNames, Exclusive, Holding, Saving, Newest, OnDisk,
       Replaced, Unpublished, Flushed, Below, InPart, LinksKnown, Idle, Known, TypeOK, Name,
       Generation, trainer, names
<1> QED BY <1>1, <1>2, <1>3, <1>4 DEF IInv

\* The save that returns is the newest generation.
LEMMA FinishSaveStep == ASSUME IInv, NEW t \in Trainers, FinishSave(t) PROVE IInv'
<1>1. Exclusive' /\ InPart' /\ OnDisk' /\ Known' /\ Below' /\ LinksKnown' /\ Ordered'
  BY DEF FinishSave, Move, SyncDirectory, IInv, Exclusive, Holding, Saving, InPart,
       Unpublished, OnDisk, Known, LatestNames, PreviousNames, Below, LinksKnown, Ordered,
       trainer, names
<1>2. TypeOK'
  BY BoundsAssumption, NoneAssumption, SMTT(30) DEF FinishSave, Move, SyncDirectory, IInv,
       TypeOK, Name, Generation, Saving, Exclusive, Holding, Newest, OnDisk, trainer, names
<1>3. Idle'
  BY BoundsAssumption, NoneAssumption DEF FinishSave, Move, SyncDirectory, IInv, Idle, Saving,
       TypeOK, Name, Generation, trainer, names
<1>4. Newest'
  BY BoundsAssumption, NoneAssumption DEF FinishSave, Move, SyncDirectory, IInv, Newest,
       Saving, TypeOK, Name, Generation, trainer, names
<1>5. Flushed'
  BY BoundsAssumption, NoneAssumption DEF FinishSave, Move, SyncDirectory, IInv, Flushed,
       Saving, TypeOK, Name, Generation, trainer, names
<1>6. Replaced'
  BY BoundsAssumption, NoneAssumption DEF FinishSave, Move, SyncDirectory, IInv, Replaced,
       TypeOK, Name, Generation, trainer, names
<1>7. Committed'
  BY BoundsAssumption, NoneAssumption, SMTT(30) DEF FinishSave, Move, SyncDirectory, IInv,
       Committed, LatestNames, Exclusive, Holding, Saving, Newest, OnDisk, Replaced,
       Unpublished, Known, PreviousNames, TypeOK, Name, Generation, trainer, names
<1> QED BY <1>1, <1>2, <1>3, <1>4, <1>5, <1>6, <1>7 DEF IInv

\* The lease goes with the process.
LEMMA ExitStep == ASSUME IInv, NEW t \in Trainers, Exit(t) PROVE IInv'
<1>1. TypeOK' /\ Idle' /\ Newest' /\ InPart' /\ Flushed' /\ Replaced' /\ OnDisk' /\ Known'
     /\ Below' /\ LinksKnown' /\ Ordered' /\ Committed'
  BY DEF Exit, Move, IInv, TypeOK, Name, Generation, Saving, Idle, Newest, InPart, Unpublished,
       Flushed, Replaced, OnDisk, Known, LatestNames, PreviousNames, Below, LinksKnown,
       Ordered, Committed, trainer, names
<1>2. Exclusive'
  BY BoundsAssumption, NoneAssumption DEF Exit, Move, IInv, Exclusive, Holding, Saving, TypeOK,
       Name, Generation, trainer, names
<1> QED BY <1>1, <1>2 DEF IInv

\* A launch that dies removes at most its own temporaries.
LEMMA DieStep == ASSUME IInv, NEW t \in Trainers, Die(t) PROVE IInv'
<1>1. OnDisk'
  BY DEF Die, Linked, IInv, OnDisk, trainer, names
<1>2. Known'
  BY DEF Die, Linked, IInv, Known, LatestNames, PreviousNames, trainer, names
<1>3. LinksKnown'
  BY DEF Die, Linked, IInv, LinksKnown, trainer, names
<1>4. Ordered'
  BY DEF Die, Linked, IInv, Ordered, LatestNames, PreviousNames, trainer, names
<1>5. Committed'
  BY DEF Die, Linked, IInv, Committed, LatestNames, trainer, names
<1>6. TypeOK'
  BY BoundsAssumption, NoneAssumption, SMTT(30) DEF Die, Linked, IInv, TypeOK, Name,
       Generation, Saving, trainer, names
<1>7. Exclusive'
  BY BoundsAssumption, NoneAssumption, SMTT(30) DEF Die, Linked, IInv, Exclusive, Holding,
       Saving, TypeOK, Name, Generation, trainer, names
<1>8. Idle'
  BY BoundsAssumption, NoneAssumption, SMTT(30) DEF Die, Linked, IInv, Idle, Saving, TypeOK,
       Name, Generation, trainer, names
<1>9. Newest'
  BY BoundsAssumption, NoneAssumption, SMTT(30) DEF Die, Linked, IInv, Newest, Saving, TypeOK,
       Name, Generation, trainer, names
<1>10. InPart'
  BY BoundsAssumption, NoneAssumption, SMTT(30) DEF Die, Linked, IInv, InPart, Unpublished,
       Exclusive, Holding, Saving, Newest, OnDisk, Replaced, Flushed, Below, LinksKnown, Idle,
       Known, LatestNames, PreviousNames, TypeOK, Name, Generation, trainer, names
<1>11. Flushed'
  BY BoundsAssumption, NoneAssumption, SMTT(30) DEF Die, Linked, IInv, Flushed, Saving, TypeOK,
       Name, Generation, trainer, names
<1>12. Replaced'
  BY BoundsAssumption, NoneAssumption, SMTT(30) DEF Die, Linked, IInv, Replaced, TypeOK, Name,
       Generation, trainer, names
<1>13. Below'
  BY BoundsAssumption, NoneAssumption, SMTT(30) DEF Die, Linked, IInv, Below, Unpublished,
       LatestNames, PreviousNames, TypeOK, Name, Generation, trainer, names
<1> QED BY <1>1, <1>2, <1>3, <1>4, <1>5, <1>6, <1>7, <1>8, <1>9, <1>10, <1>11, <1>12, <1>13 DEF IInv

\* The survivors of a power failure are names that were possible before.
LEMMA PowerFailureStep == ASSUME IInv, PowerFailure PROVE IInv'
<1>1. Exclusive' /\ Idle' /\ Newest' /\ InPart' /\ Flushed' /\ Replaced' /\ OnDisk'
     /\ Known' /\ Below' /\ LinksKnown' /\ Ordered' /\ Committed'
  BY DEF PowerFailure, IInv, Exclusive, Holding, Saving, Idle, Newest, InPart, Unpublished,
       Flushed, Replaced, OnDisk, Known, LatestNames, PreviousNames, Below, LinksKnown,
       Ordered, Committed, trainer, names
<1>2. TypeOK'
  BY BoundsAssumption, NoneAssumption DEF PowerFailure, IInv, TypeOK, Name, Generation, Saving,
       trainer, names
<1> QED BY <1>1, <1>2 DEF IInv

\* Corruption changes no name.
LEMMA CorruptStep == ASSUME IInv, Corrupt PROVE IInv'
<1>1. TypeOK'
  BY DEF Corrupt, IInv, TypeOK, Name, Generation, Saving, trainer, names
<1>2. Exclusive'
  BY DEF Corrupt, IInv, Exclusive, Holding, Saving, trainer, names
<1>3. Idle'
  BY DEF Corrupt, IInv, Idle, Saving, trainer, names
<1>4. Newest'
  BY DEF Corrupt, IInv, Newest, Saving, trainer, names
<1>5. InPart'
  BY DEF Corrupt, IInv, InPart, Unpublished, trainer, names
<1>6. Flushed'
  BY DEF Corrupt, IInv, Flushed, Saving, trainer, names
<1>7. Replaced'
  BY DEF Corrupt, IInv, Replaced, trainer, names
<1>8. OnDisk'
  BY DEF Corrupt, IInv, OnDisk, trainer, names
<1>9. Known'
  BY DEF Corrupt, IInv, Known, LatestNames, PreviousNames, trainer, names
<1>10. Below'
  BY DEF Corrupt, IInv, Below, Unpublished, LatestNames, PreviousNames, trainer, names
<1>11. LinksKnown'
  BY DEF Corrupt, IInv, LinksKnown, trainer, names
<1>12. Ordered'
  BY DEF Corrupt, IInv, Ordered, LatestNames, PreviousNames, trainer, names
<1>13. Committed'
  BY DEF Corrupt, IInv, Committed, LatestNames, trainer, names
<1> QED BY <1>1, <1>2, <1>3, <1>4, <1>5, <1>6, <1>7, <1>8, <1>9, <1>10, <1>11, <1>12, <1>13 DEF IInv

-----------------------------------------------------------------------------
(* The theorems.                                                           *)

LEMMA InitInv == Init => IInv
<1> SUFFICES ASSUME Init PROVE IInv
  OBVIOUS
<1>1. TypeOK
  BY BoundsAssumption DEF Init, TypeOK, Name
<1>2. Exclusive /\ Idle /\ Newest /\ InPart /\ Flushed /\ Replaced /\ Below
  BY DEF Init, Exclusive, Idle, Newest, InPart, Flushed, Replaced, Below, Holding, Saving,
         Unpublished
<1>3. OnDisk /\ Known /\ LinksKnown /\ Ordered /\ Committed
  BY DEF Init, OnDisk, Known, LinksKnown, Ordered, Committed, LatestNames, PreviousNames
<1> QED BY <1>1, <1>2, <1>3 DEF IInv

LEMMA StutterInv == ASSUME IInv, UNCHANGED vars PROVE IInv'
<1>1. TypeOK' /\ Exclusive' /\ Idle' /\ Newest' /\ InPart' /\ Flushed' /\ Replaced'
  BY DEF vars, trainer, names, IInv, TypeOK, Exclusive, Idle, Newest, InPart, Flushed, Replaced
<1>2. OnDisk' /\ Known' /\ Below' /\ LinksKnown' /\ Ordered' /\ Committed'
  BY DEF vars, trainer, names, IInv, OnDisk, Known, Below, LinksKnown, Ordered, Committed,
         LatestNames, PreviousNames
<1> QED BY <1>1, <1>2 DEF IInv

LEMMA NextInv == IInv /\ [Next]_vars => IInv'
<1> SUFFICES ASSUME IInv, [Next]_vars PROVE IInv'
  OBVIOUS
<1>1. ASSUME NEW t \in Trainers, Setup(t) PROVE IInv'
  BY <1>1, LaunchStep, AcquireStep, ReconcileStep, LoadStep DEF Setup
<1>2. ASSUME NEW t \in Trainers, Train(t) PROVE IInv'
  <2>1. ASSUME Save(t) PROVE IInv'
    BY <2>1, CreatePartStep, WritePartStep, LinkPreviousStep, PublishLastStep, SyncLastStep,
       RotatePreviousStep, FinishSaveStep DEF Save
  <2> QED BY <1>2, <2>1, UpdateStep, InvalidateStep, ExitStep DEF Train
<1>3. ASSUME NEW t \in Trainers, Die(t) PROVE IInv'
  BY <1>3, DieStep
<1>4. CASE PowerFailure
  BY <1>4, PowerFailureStep
<1>5. CASE Corrupt
  BY <1>5, CorruptStep
<1>6. CASE UNCHANGED vars
  BY <1>6, StutterInv
<1> QED BY <1>1, <1>2, <1>3, <1>4, <1>5, <1>6 DEF Next

\* The invariant holds in every reachable state.
THEOREM Invariance == Spec => []IInv
  BY InitInv, NextInv, PTL DEF Spec

\* Every variable keeps its shape (CheckpointLineage, whole state).
THEOREM TypeCorrect == Spec => []TypeOK
<1>1. IInv => TypeOK
  BY DEF IInv
<1> QED BY <1>1, Invariance, PTL

\* No crash or power failure ever shows a partly written generation under a
\* published name (_atomic_torch_save).
THEOREM AlwaysPublishedWhole == Spec => []PublishedWhole
<1>1. IInv => PublishedWhole
  BY DEF IInv, Known, LatestNames, PreviousNames, PublishedWhole
<1> QED BY <1>1, Invariance, PTL

\* Latest and previous are never one inode, also right after a power failure
\* (_atomic_torch_save).
THEOREM AlwaysTwoGenerations == Spec => []TwoGenerations
<1>1. IInv => TwoGenerations
  <2> SUFFICES ASSUME IInv, NEW g \in LatestNames, NEW h \in PreviousNames,
                      g # None, h # None
               PROVE  g.id # h.id
    BY DEF TwoGenerations, Outcomes, LatestNames, PreviousNames
  <2>1. g \in Generation /\ h \in Generation
    BY DEF IInv, TypeOK, Name, LatestNames, PreviousNames
  <2>2. h.id < g.id
    BY DEF IInv, Ordered
  <2> QED BY <2>1, <2>2 DEF Generation
<1> QED BY <1>1, Invariance, PTL

\* A save that returned is never lost to a crash or a power failure
\* (save_checkpoint).
THEOREM AlwaysCommitSurvives == Spec => []CommitSurvives
<1>1. IInv => CommitSurvives
  BY DEF IInv, Committed, LatestNames, CommitSurvives
<1> QED BY <1>1, Invariance, PTL

\* Of two ids at most one is corrupt when at most one generation is.
LEMMA OneCorrupt ==
    ASSUME TypeOK, Cardinality(corrupt) <= 1, NEW a \in corrupt, NEW b \in corrupt
    PROVE  a = b
<1>1. IsFiniteSet(corrupt)
  <2>1. IsFiniteSet(1..MaxGenerations)
    BY FS_Interval, BoundsAssumption
  <2>2. corrupt \in SUBSET (1..MaxGenerations)
    BY DEF TypeOK
  <2> QED BY ONLY <2>1, <2>2, FS_Subset
<1>2. Cardinality(corrupt) \in Nat /\ Cardinality(corrupt \ {a}) = Cardinality(corrupt) - 1
  BY <1>1, FS_CardinalityType, FS_RemoveElement
<1>3. IsFiniteSet(corrupt \ {a}) /\ Cardinality(corrupt \ {a}) \in Nat
  BY <1>1, FS_RemoveElement, FS_CardinalityType
<1>4. corrupt \ {a} = {}
  BY <1>2, <1>3, FS_EmptySet
<1> QED BY <1>4

\* While at most one generation went bad, a lineage that has a rollback
\* generation keeps a whole and readable one under one of the two names, also
\* after a power failure (_atomic_torch_save, "it never destroys the only
\* known-good previous before latest is durable").
THEOREM AlwaysKnownGoodKept == Spec => []KnownGoodKept
<1>1. IInv => KnownGoodKept
  <2> SUFFICES ASSUME IInv, Cardinality(corrupt) <= 1,
                      NEW o \in Outcomes \cup {<<last, prev>>}, o[2] # None
               PROVE  \E i \in {1, 2} : o[i] # None /\ o[i].id \in whole \ corrupt
    BY DEF KnownGoodKept
  <2>1. o[1] \in LatestNames /\ o[2] \in PreviousNames
    BY DEF Outcomes, LatestNames, PreviousNames
  <2>2. o[1] # None /\ o[2].id < o[1].id
    BY <2>1 DEF IInv, Ordered
  <2>3. o[1].id \in whole /\ o[2].id \in whole
    BY <2>1, <2>2 DEF IInv, Known
  <2>4. o[1].id \in Int /\ o[2].id \in Int
    BY <2>1, <2>2 DEF IInv, TypeOK, Name, Generation, LatestNames, PreviousNames
  <2>5. ~(o[1].id \in corrupt /\ o[2].id \in corrupt)
    BY <2>2, <2>4, OneCorrupt DEF IInv
  <2> QED BY <2>2, <2>3, <2>5
<1> QED BY <1>1, Invariance, PTL

\* However many launches compete for one lineage, only the holder of the lease
\* saves and nobody sweeps its part file away (CheckpointLease,
\* reconcile_checkpoint_temporaries).
THEOREM AlwaysLivePartKept == Spec => []LivePartKept
<1>1. IInv => LivePartKept
  BY DEF IInv, Exclusive, InPart, Holding, Unpublished, LivePartKept
<1> QED BY <1>1, Invariance, PTL
-----------------------------------------------------------------------------
(* Launches that do not overlap.  The steps of the generations then grow    *)
(* with their ids, except over a latest generation that did not load; and   *)
(* the directory of a launch at work holds no temporary but its own.        *)

Sole == \A t, u \in Trainers : pc[t] # "down" /\ pc[u] # "down" => t = u
NotAfter(h, s) == h # None => h.step <= s

Rejects == rejected \subseteq corrupt /\ \A i \in rejected : i <= created
Stable == /\ last = None => lastOnDisk = {None}
          /\ \A h \in prevOnDisk : h # None => prev # None /\ h.step <= prev.step
StepOrder == \A g \in LatestNames, h \in PreviousNames : NotAfter(h, g.step)

Starting(t) == pc[t] \in {"launched", "leased", "loading"} /\ mode[t] = "fresh" =>
                  last = None /\ prev = None
Ahead(t) == pc[t] \in {"running"} \cup Unpublished =>
               /\ \A h \in PreviousNames : NotAfter(h, step[t])
               /\ ~preserve[t] /\ last # None => last.step <= step[t] /\ last.id \notin rejected
Written(t) == pc[t] \in Saving => new[t].step = step[t] /\ new[t].id \notin rejected
Tidy(t) == /\ pc[t] \in {"loading", "running", "writing", "written", "rotated"} => links = {}
           /\ pc[t] \in {"loading", "running", "published", "synced", "rotated"} => parts = {}
           /\ pc[t] \in Unpublished => parts = {new[t]}
Retains(t) == pc[t] \in {"linked", "published", "synced"} =>
                 links = {} \/ \E g \in Generation :
                    /\ links = {<<new[t].id, g>>}
                    /\ g.step <= step[t] /\ g.id \notin rejected
                    /\ \A h \in PreviousNames : NotAfter(h, g.step)
                    /\ pc[t] = "linked" => g = last
Own(t) == Starting(t) /\ Ahead(t) /\ Written(t) /\ Tidy(t) /\ Retains(t)

SInv == Rejects /\ Stable /\ StepOrder /\ \A t \in Trainers : Own(t)

\* Where the names and what loads told of them stand still, so does what is
\* said of them.
LEMMA NamesKept ==
    ASSUME IInv, SInv, UNCHANGED <<names, rejected>>, corrupt \subseteq corrupt', created <= created',
           created' \in Nat
    PROVE  Rejects' /\ Stable' /\ StepOrder'
<1>1. Rejects'
  BY DEF IInv, TypeOK, SInv, Rejects
<1>2. Stable' /\ StepOrder'
  BY DEF SInv, Stable, StepOrder, LatestNames, PreviousNames, NotAfter, names
<1> QED BY <1>1, <1>2

\* A launch is not disturbed by another that holds the lease, nor by one that
\* leaves the directory alone.
LEMMA OthersKept ==
    ASSUME IInv, SInv, NEW t \in Trainers, NEW u \in Trainers, u # t,
           pc'[u] = pc[u], mode'[u] = mode[u], step'[u] = step[u], preserve'[u] = preserve[u],
           new'[u] = new[u],
           \/ pc[t] \in Holding /\ (Sole \/ UNCHANGED <<last, prev>>)
           \/ UNCHANGED <<names, parts, links, rejected>>
    PROVE  Own(u)'
<1>1. Own(u)
  BY DEF SInv
<1>2. CASE UNCHANGED <<names, parts, links, rejected>>
  BY <1>1, <1>2 DEF Own, Starting, Ahead, Written, Tidy, Retains, PreviousNames, NotAfter, names
<1>3. CASE pc[t] \in Holding /\ (Sole \/ UNCHANGED <<last, prev>>)
  <2>1. pc[u] \notin Holding
    BY <1>3 DEF IInv, Exclusive
  <2>2. pc'[u] \notin {"leased", "loading", "running"} \cup Saving
    BY <2>1 DEF Holding
  <2>3. Starting(u)'
    <3>1. CASE Sole
      <4>1. pc[u] = "down"
        BY <1>3, <3>1 DEF Sole, Holding, Saving
      <4> QED BY <4>1 DEF Starting
    <3>2. CASE UNCHANGED <<last, prev>>
      BY <1>1, <3>2 DEF Own, Starting
    <3> QED BY <1>3, <3>1, <3>2
  <2>4. Ahead(u)' /\ Written(u)' /\ Tidy(u)' /\ Retains(u)'
    BY <2>2 DEF Ahead, Written, Tidy, Retains, Unpublished, Saving
  <2> QED BY <2>3, <2>4 DEF Own
<1> QED BY <1>2, <1>3

\* A launch is checked against the names it finds.
LEMMA LaunchOrder ==
    ASSUME IInv, SInv, NEW t \in Trainers, NEW m \in {"fresh", "latest", "previous"}, Launch(t, m)
    PROVE  SInv'
<1>1. UNCHANGED <<names, rejected, corrupt, created, parts, links, step, preserve, new>>
  BY DEF Launch
<1>2. Rejects' /\ Stable' /\ StepOrder'
  BY <1>1, NamesKept DEF IInv, TypeOK
<1>3. pc'[t] = "launched" /\ mode'[t] = m
  BY DEF Launch, Move, IInv, TypeOK
<1>4. \A u \in Trainers \ {t} : Own(u)'
  BY <1>1, OthersKept DEF Launch, Move, IInv, TypeOK
<1>5. Own(t)'
  BY <1>1, <1>3 DEF Launch, Own, Starting, Ahead, Written, Tidy, Retains, Unpublished, Saving, names
<1> QED BY <1>2, <1>4, <1>5 DEF SInv

\* Taking the lease moves nothing.
LEMMA AcquireOrder == ASSUME IInv, SInv, NEW t \in Trainers, Acquire(t) PROVE SInv'
<1>1. UNCHANGED <<names, rejected, corrupt, created, parts, links, step, preserve, new, mode>>
  BY DEF Acquire
<1>2. Rejects' /\ Stable' /\ StepOrder'
  BY <1>1, NamesKept DEF IInv, TypeOK
<1>3. pc'[t] \in {"leased", "down"} /\ pc[t] = "launched"
  BY DEF Acquire, IInv, TypeOK
<1>4. \A u \in Trainers \ {t} : Own(u)'
  BY <1>1, OthersKept DEF Acquire, IInv, TypeOK
<1>5. Own(t)'
  BY <1>1, <1>3 DEF SInv, Own, Starting, Ahead, Written, Tidy, Retains, Unpublished, Saving, names
<1> QED BY <1>2, <1>4, <1>5 DEF SInv

\* Temporaries of earlier launches are swept, and the names become stable.
LEMMA ReconcileOrder == ASSUME IInv, SInv, NEW t \in Trainers, Reconcile(t) PROVE SInv'
<1>1. /\ UNCHANGED <<last, prev, rejected, corrupt, created, step, preserve, new, mode>>
      /\ parts' = {} /\ links' = {}
      /\ lastOnDisk' \subseteq LatestNames /\ prevOnDisk' \subseteq PreviousNames
      /\ UNCHANGED <<lastOnDisk, prevOnDisk>> \/ (lastOnDisk' = {last} /\ prevOnDisk' = {prev})
  BY DEF Reconcile, SyncDirectory, LatestNames, PreviousNames
<1>2. Rejects'
  BY <1>1 DEF SInv, Rejects
<1>3. Stable' /\ StepOrder'
  <2>1. Stable'
    <3>1. prev \in Name
      BY DEF IInv, TypeOK
    <3>2. prev # None => prev.step \in Int
      BY <3>1 DEF Name, Generation
    <3> QED BY <1>1, <3>2 DEF SInv, Stable
  <2>2. StepOrder'
    BY <1>1 DEF SInv, StepOrder, LatestNames, PreviousNames, NotAfter
  <2> QED BY <2>1, <2>2
<1>4. pc[t] = "leased" /\ pc'[t] = "loading"
  BY DEF Reconcile, Move, IInv, TypeOK
<1>5. \A u \in Trainers \ {t} : Own(u)'
  BY <1>1, <1>4, OthersKept DEF Reconcile, Move, IInv, TypeOK, Holding
<1>6. Own(t)'
  BY <1>1, <1>4 DEF SInv, Own, Starting, Ahead, Written, Tidy, Retains, Unpublished, Saving
<1> QED BY <1>2, <1>3, <1>5, <1>6 DEF SInv

\* A launch goes on from the generation that loads; one that does not load is
\* bad, and its id is known.
LEMMA LoadOrder == ASSUME IInv, SInv, NEW t \in Trainers, Load(t) PROVE SInv'
<1>1. /\ UNCHANGED <<names, corrupt, created, parts, links, mode, new>>
      /\ pc[t] = "loading" /\ pc'[t] \in {"running", "down"}
  BY DEF Load, IInv, TypeOK
<1>2. \A u \in Trainers \ {t} : Own(u)'
  <2>1. pc[t] \in Holding /\ UNCHANGED <<last, prev>>
    BY <1>1 DEF Holding, names
  <2>2. \A u \in Trainers \ {t} : /\ pc'[u] = pc[u] /\ mode'[u] = mode[u] /\ step'[u] = step[u]
                                  /\ preserve'[u] = preserve[u] /\ new'[u] = new[u]
    BY DEF Load, IInv, TypeOK
  <2> QED BY <2>1, <2>2, OthersKept
<1>3. Stable' /\ StepOrder'
  BY <1>1 DEF SInv, Stable, StepOrder, LatestNames, PreviousNames, NotAfter, names
<1>4. last \in LatestNames /\ prev \in PreviousNames /\ last \in Name /\ prev \in Name
  BY DEF LatestNames, PreviousNames, IInv, TypeOK
<1>5. Source(t) \in {last, prev}
  BY DEF Source
<1>6. Rejects'
  <2>1. CASE rejected' = rejected
    BY <1>1, <2>1 DEF SInv, Rejects
  <2>2. CASE rejected' # rejected
    <3>1. Source(t) # None /\ Source(t).id \notin whole \ corrupt
          /\ rejected' = rejected \cup {Source(t).id}
      BY <2>2 DEF Load
    <3>2. Source(t).id \in whole /\ Source(t).id <= created
      BY <1>4, <1>5, <3>1 DEF IInv, Known
    <3> QED BY <1>1, <3>1, <3>2 DEF SInv, Rejects
  <2> QED BY <2>1, <2>2
<1>7. CASE pc'[t] = "down"
  <2>1. Own(t)'
    BY <1>7 DEF Own, Starting, Ahead, Written, Tidy, Retains, Unpublished, Saving
  <2> QED BY <1>2, <1>3, <1>6, <2>1 DEF SInv
<1>8. CASE pc'[t] = "running"
  <2>1. Tidy(t)' /\ Starting(t)' /\ Written(t)' /\ Retains(t)'
    BY <1>1, <1>8 DEF SInv, Own, Tidy, Starting, Written, Retains, Unpublished, Saving
  <2>2. PreviousNames' = PreviousNames /\ UNCHANGED <<last, prev>>
    BY <1>1 DEF PreviousNames, names
  <2>3. CASE mode[t] = "fresh"
    <3>1. last = None /\ prev = None
      BY <1>1, <2>3 DEF SInv, Own, Starting
    <3>2. \A h \in PreviousNames : h = None
      BY <3>1 DEF SInv, Stable, PreviousNames
    <3>3. Ahead(t)'
      BY <2>2, <3>1, <3>2 DEF Ahead, NotAfter
    <3> QED BY <1>2, <1>3, <1>6, <2>1, <3>3 DEF SInv, Own
  <2>4. CASE mode[t] # "fresh"
    <3>1. /\ Source(t) # None /\ Source(t).id \in whole \ corrupt
          /\ step'[t] = Source(t).step /\ preserve'[t] = (mode[t] = "previous")
          /\ rejected' = rejected
      BY <1>1, <1>8, <2>4 DEF Load, IInv, TypeOK
    <3>2. Source(t).id \notin rejected'
      BY <3>1 DEF SInv, Rejects
    <3>3. mode[t] \in {"latest", "previous"}
      BY <2>4 DEF IInv, TypeOK
    <3>4. CASE mode[t] = "latest"
      <4>1. Source(t) = last /\ step'[t] = last.step /\ last.id \notin rejected'
        BY <3>1, <3>2, <3>4 DEF Source
      <4>2. \A h \in PreviousNames : NotAfter(h, last.step)
        BY <1>4 DEF SInv, StepOrder
      <4>3. last.step \in Int
        BY <1>4, <3>1, <4>1 DEF Name, Generation
      <4>4. Ahead(t)'
        BY <2>2, <4>1, <4>2, <4>3 DEF Ahead, NotAfter
      <4> QED BY <1>2, <1>3, <1>6, <2>1, <4>4 DEF SInv, Own
    <3>5. CASE mode[t] = "previous"
      <4>1. Source(t) = prev /\ step'[t] = prev.step /\ preserve'[t]
        BY <3>1, <3>5 DEF Source
      <4>2. prev.step \in Int
        BY <1>4, <3>1, <4>1 DEF Name, Generation
      <4>3. \A h \in PreviousNames : NotAfter(h, prev.step)
        BY <4>2 DEF SInv, Stable, PreviousNames, NotAfter
      <4>4. Ahead(t)'
        BY <2>2, <4>1, <4>3 DEF Ahead, NotAfter
      <4> QED BY <1>2, <1>3, <1>6, <2>1, <4>4 DEF SInv, Own
    <3> QED BY <3>3, <3>4, <3>5
  <2> QED BY <2>3, <2>4
<1> QED BY <1>1, <1>7, <1>8

\* Training only moves the step on.
LEMMA TrainOrder ==
    ASSUME IInv, SInv, NEW t \in Trainers, Update(t) \/ Invalidate(t)
    PROVE  SInv'
<1>1. UNCHANGED <<names, rejected, corrupt, created, parts, links, preserve, new, mode, pc>>
  BY DEF Update, Invalidate
<1>2. Rejects' /\ Stable' /\ StepOrder'
  BY <1>1, NamesKept DEF IInv, TypeOK
<1>3. pc[t] = "running" /\ step'[t] \in {step[t], step[t] + 1} /\ step[t] \in Nat
  BY DEF Update, Invalidate, IInv, TypeOK
<1>4. \A u \in Trainers \ {t} : Own(u)'
  BY <1>1, OthersKept DEF Update, Invalidate, IInv, TypeOK
<1>5. \A h \in PreviousNames : h # None => h.step \in Int
  BY DEF IInv, TypeOK, Name, Generation, PreviousNames
<1>6. last # None => last.step \in Int
  BY DEF IInv, TypeOK, Name, Generation
<1>7. Ahead(t)'
  BY <1>1, <1>3, <1>5, <1>6 DEF SInv, Own, Ahead, NotAfter, PreviousNames, names
<1>8. Starting(t)' /\ Written(t)' /\ Tidy(t)' /\ Retains(t)'
  BY <1>1, <1>3 DEF SInv, Own, Starting, Written, Tidy, Retains, Unpublished, Saving
<1> QED BY <1>2, <1>4, <1>7, <1>8 DEF SInv, Own

\* A new generation holds the step of its launch, and no load has told on it.
LEMMA CreatePartOrder == ASSUME IInv, SInv, NEW t \in Trainers, CreatePart(t) PROVE SInv'
<1>1. /\ UNCHANGED <<names, rejected, corrupt, links, preserve, step, mode>>
      /\ pc[t] = "running" /\ pc'[t] = "writing" /\ created' = created + 1
      /\ new'[t] = [id |-> created + 1, step |-> step[t]] /\ parts' = parts \cup {new'[t]}
  BY DEF CreatePart, Move, IInv, TypeOK
<1>2. Rejects' /\ Stable' /\ StepOrder'
  BY <1>1, NamesKept DEF IInv, TypeOK
<1>3. \A u \in Trainers \ {t} : Own(u)'
  <2>1. pc[t] \in Holding /\ UNCHANGED <<last, prev>>
    BY <1>1 DEF Holding, names
  <2>2. \A u \in Trainers \ {t} : pc'[u] = pc[u] /\ new'[u] = new[u]
    BY DEF CreatePart, Move, IInv, TypeOK
  <2> QED BY <1>1, <2>1, <2>2, OthersKept
<1>4. created + 1 \notin rejected
  BY DEF SInv, Rejects, IInv, TypeOK
<1>5. Starting(t)' /\ Retains(t)' /\ Tidy(t)'
  BY <1>1 DEF SInv, Own, Starting, Retains, Tidy, Unpublished, Saving
<1>6. Written(t)'
  BY <1>1, <1>4 DEF Written
<1>7. Ahead(t)'
  BY <1>1 DEF SInv, Own, Ahead, NotAfter, PreviousNames, names
<1> QED BY <1>2, <1>3, <1>5, <1>6, <1>7 DEF SInv, Own

\* The file is written to the end.
LEMMA WritePartOrder == ASSUME IInv, SInv, NEW t \in Trainers, WritePart(t) PROVE SInv'
<1>1. /\ UNCHANGED <<names, rejected, corrupt, created, parts, links, preserve, step, mode, new>>
      /\ pc[t] = "writing" /\ pc'[t] = "written"
  BY DEF WritePart, Move, IInv, TypeOK
<1>2. Rejects' /\ Stable' /\ StepOrder'
  BY <1>1, NamesKept DEF IInv, TypeOK
<1>3. \A u \in Trainers \ {t} : Own(u)'
  BY <1>1, OthersKept DEF WritePart, Move, IInv, TypeOK
<1>4. Own(t)'
  BY <1>1 DEF SInv, Own, Starting, Ahead, Written, Tidy, Retains, Unpublished, Saving, NotAfter,
       PreviousNames, names
<1> QED BY <1>2, <1>3, <1>4 DEF SInv

\* The latest generation is kept for the rollback name unless it was rejected.
LEMMA LinkPreviousOrder == ASSUME IInv, SInv, NEW t \in Trainers, LinkPrevious(t) PROVE SInv'
<1>1. /\ UNCHANGED <<names, rejected, corrupt, created, parts, preserve, step, mode, new>>
      /\ pc[t] = "written" /\ pc'[t] = "linked"
  BY DEF LinkPrevious, Move, IInv, TypeOK
<1>2. Rejects' /\ Stable' /\ StepOrder'
  BY <1>1, NamesKept DEF IInv, TypeOK
<1>3. \A u \in Trainers \ {t} : Own(u)'
  <2>1. pc[t] \in Holding /\ UNCHANGED <<last, prev>>
    BY <1>1 DEF Holding, Saving, names
  <2>2. \A u \in Trainers \ {t} : pc'[u] = pc[u]
    BY DEF LinkPrevious, Move, IInv, TypeOK
  <2> QED BY <1>1, <2>1, <2>2, OthersKept
<1>4. Starting(t)' /\ Ahead(t)' /\ Written(t)' /\ Tidy(t)'
  BY <1>1 DEF SInv, Own, Starting, Ahead, Written, Tidy, Unpublished, Saving, NotAfter,
       PreviousNames, names
<1>5. Retains(t)'
  <2>1. links = {}
    BY <1>1 DEF SInv, Own, Tidy
  <2>2. CASE links' = links
    BY <2>1, <2>2 DEF Retains
  <2>3. CASE links' # links
    <3>1. last # None /\ ~preserve[t] /\ links' = {<<new[t].id, last>>}
      BY <2>1, <2>3 DEF LinkPrevious
    <3>2. last \in Generation /\ last \in LatestNames
      BY <3>1 DEF IInv, TypeOK, Name, LatestNames
    <3>3. last.step <= step[t] /\ last.id \notin rejected
      BY <1>1, <3>1 DEF SInv, Own, Ahead, Unpublished
    <3>4. \A h \in PreviousNames : NotAfter(h, last.step)
      BY <3>2 DEF SInv, StepOrder
    <3>5. PreviousNames' = PreviousNames /\ last' = last
      BY <1>1 DEF PreviousNames, names
    <3> QED BY <1>1, <3>1, <3>2, <3>3, <3>4, <3>5 DEF Retains, NotAfter
  <2> QED BY <2>2, <2>3
<1> QED BY <1>2, <1>3, <1>4, <1>5 DEF SInv, Own

\* The new generation takes the latest name; nobody else is starting.
LEMMA PublishLastOrder == ASSUME IInv, SInv, Sole, NEW t \in Trainers, PublishLast(t) PROVE SInv'
<1>1. /\ UNCHANGED <<prev, prevOnDisk, rejected, corrupt, created, links, preserve, step, mode, new>>
      /\ pc[t] = "linked" /\ pc'[t] = "published"
      /\ last' = new[t] /\ lastOnDisk' = lastOnDisk \cup {new[t]} /\ parts' = parts \ {new[t]}
  BY DEF PublishLast, Move, IInv, TypeOK
<1>2. new[t] \in Generation /\ new[t] # None /\ new[t].step = step[t] /\ new[t].id \notin rejected
  BY <1>1, NoneAssumption DEF IInv, Newest, SInv, Own, Written, Saving
<1>3. \A u \in Trainers \ {t} : Own(u)'
  <2>1. pc[t] \in Holding
    BY <1>1 DEF Holding, Saving
  <2>2. \A u \in Trainers \ {t} : pc'[u] = pc[u]
    BY DEF PublishLast, Move, IInv, TypeOK
  <2> QED BY <1>1, <2>1, <2>2, OthersKept
<1>4. Rejects'
  BY <1>1 DEF SInv, Rejects
<1>5. Stable'
  BY <1>1, <1>2 DEF SInv, Stable
<1>6. \A h \in PreviousNames : NotAfter(h, step[t])
  BY <1>1 DEF SInv, Own, Ahead, Unpublished
<1>7. StepOrder'
  <2>1. LatestNames' \subseteq LatestNames \cup {new[t]} /\ PreviousNames' = PreviousNames
    BY <1>1 DEF LatestNames, PreviousNames
  <2>2. \A g \in LatestNames \cup {new[t]}, h \in PreviousNames : NotAfter(h, g.step)
    BY <1>2, <1>6 DEF SInv, StepOrder
  <2> QED BY <2>1, <2>2 DEF StepOrder, NotAfter
<1>8. Own(t)'
  <2>1. Starting(t)' /\ Ahead(t)' /\ Written(t)' /\ Tidy(t)'
    BY <1>1, <1>2 DEF SInv, Own, Starting, Ahead, Written, Tidy, Unpublished, Saving
  <2>2. Retains(t)'
    BY <1>1 DEF SInv, Own, Retains, PreviousNames, NotAfter
  <2> QED BY <2>1, <2>2 DEF Own
<1> QED BY <1>3, <1>4, <1>5, <1>7, <1>8 DEF SInv

\* The names become stable as they are.
LEMMA SyncLastOrder == ASSUME IInv, SInv, NEW t \in Trainers, SyncLast(t) PROVE SInv'
<1>1. /\ UNCHANGED <<last, prev, rejected, corrupt, created, links, parts, preserve, step, mode, new>>
      /\ pc[t] = "published" /\ pc'[t] = "synced"
      /\ lastOnDisk' = {last} /\ prevOnDisk' = {prev}
  BY DEF SyncLast, SyncDirectory, Move, IInv, TypeOK
<1>2. \A u \in Trainers \ {t} : Own(u)'
  <2>1. pc[t] \in Holding /\ UNCHANGED <<last, prev>>
    BY <1>1 DEF Holding, Saving
  <2>2. \A u \in Trainers \ {t} : pc'[u] = pc[u]
    BY DEF SyncLast, Move, IInv, TypeOK
  <2> QED BY <1>1, <2>1, <2>2, OthersKept
<1>3. Rejects'
  BY <1>1 DEF SInv, Rejects
<1>4. Stable'
  <2>1. prev # None => prev.step \in Int
    BY DEF IInv, TypeOK, Name, Generation
  <2> QED BY <1>1, <2>1 DEF Stable
<1>5. StepOrder'
  <2>1. LatestNames' \subseteq LatestNames /\ PreviousNames' \subseteq PreviousNames
    BY <1>1 DEF LatestNames, PreviousNames
  <2> QED BY <2>1 DEF SInv, StepOrder, NotAfter
<1>6. Own(t)'
  <2>1. PreviousNames' \subseteq PreviousNames
    BY <1>1 DEF PreviousNames
  <2>2. Starting(t)' /\ Ahead(t)' /\ Written(t)' /\ Tidy(t)'
    BY <1>1 DEF SInv, Own, Starting, Ahead, Written, Tidy, Unpublished, Saving
  <2>3. Retains(t)'
    BY <1>1, <2>1 DEF SInv, Own, Retains, NotAfter
  <2> QED BY <2>2, <2>3 DEF Own
<1> QED BY <1>2, <1>3, <1>4, <1>5, <1>6 DEF SInv

\* What was latest when the save began becomes the rollback generation.
LEMMA RotatePreviousOrder ==
    ASSUME IInv, SInv, Sole, NEW t \in Trainers, RotatePrevious(t)
    PROVE  SInv' /\ RetainsReadable
<1>1. /\ UNCHANGED <<last, lastOnDisk, rejected, corrupt, created, parts, preserve, step, mode, new>>
      /\ pc[t] = "synced" /\ pc'[t] = "rotated"
  BY DEF RotatePrevious, Move, IInv, TypeOK
<1>2. last = new[t] /\ lastOnDisk = {last} /\ new[t] # None /\ new[t].step = step[t]
      /\ new[t].id \notin rejected
  BY <1>1, NoneAssumption DEF IInv, Replaced, Newest, SInv, Own, Written, Saving
<1>3. LatestNames' = {last}
  BY <1>1, <1>2 DEF LatestNames
<1>4. \A u \in Trainers \ {t} : Own(u)'
  <2>1. pc[t] \in Holding
    BY <1>1 DEF Holding, Saving
  <2>2. \A u \in Trainers \ {t} : pc'[u] = pc[u]
    BY DEF RotatePrevious, Move, IInv, TypeOK
  <2> QED BY <1>1, <2>1, <2>2, OthersKept
<1>5. Rejects'
  BY <1>1 DEF SInv, Rejects
<1>6. \A h \in PreviousNames : NotAfter(h, last.step)
  BY DEF SInv, StepOrder, LatestNames
<1>7. Starting(t)' /\ Ahead(t)' /\ Written(t)' /\ Retains(t)'
  BY <1>1, <1>2 DEF SInv, Own, Starting, Ahead, Written, Retains, Unpublished, Saving
<1>8. parts' = {}
  BY <1>1 DEF SInv, Own, Tidy
<1>9. CASE Linked(t) = {}
  <2>1. UNCHANGED <<prev, prevOnDisk, links>>
    BY <1>9 DEF RotatePrevious
  <2>2. links = {}
    BY <1>1, <1>9 DEF SInv, Own, Retains, Linked
  <2>3. Stable' /\ StepOrder'
    BY <1>1, <2>1 DEF SInv, Stable, StepOrder, LatestNames, PreviousNames, NotAfter
  <2>4. Tidy(t)'
    BY <1>1, <1>8, <2>1, <2>2 DEF Tidy, Unpublished
  <2>5. RetainsReadable
    BY <2>1 DEF RetainsReadable, IInv, OnDisk
  <2> QED BY <1>4, <1>5, <1>7, <2>3, <2>4, <2>5 DEF SInv, Own
<1>10. CASE Linked(t) # {}
  <2>1. PICK g \in Generation :
           /\ links = {<<new[t].id, g>>} /\ g.step <= step[t] /\ g.id \notin rejected
           /\ \A h \in PreviousNames : NotAfter(h, g.step)
    BY <1>1, <1>10 DEF SInv, Own, Retains, Linked
  <2>2. Linked(t) = {<<new[t].id, g>>}
    BY <2>1 DEF Linked
  <2>3. prev' = g /\ prevOnDisk' = prevOnDisk \cup {g} /\ links' = {}
    <3>1. PICK l \in Linked(t) : prev' = l[2] /\ prevOnDisk' = prevOnDisk \cup {l[2]}
      BY <1>10 DEF RotatePrevious
    <3>2. l[2] = g
      BY <2>2, <3>1
    <3>3. links' = links \ Linked(t)
      BY <1>10 DEF RotatePrevious
    <3> QED BY <2>1, <2>2, <3>1, <3>2, <3>3
  <2>4. g # None /\ g.step \in Int
    BY NoneAssumption DEF Generation
  <2>5. PreviousNames' \subseteq PreviousNames \cup {g}
    BY <2>3 DEF PreviousNames
  <2>6. Stable'
    <3>1. \A h \in prevOnDisk \cup {g} : h # None => h.step <= g.step
      BY <2>1, <2>4 DEF PreviousNames, NotAfter
    <3> QED BY <1>1, <1>2, <2>3, <2>4, <3>1 DEF Stable
  <2>7. StepOrder'
    <3>1. \A h \in PreviousNames \cup {g} : NotAfter(h, last.step)
      BY <1>2, <1>6, <2>1 DEF NotAfter
    <3> QED BY <1>1, <1>3, <2>5, <3>1 DEF StepOrder, NotAfter
  <2>8. Tidy(t)'
    BY <1>1, <1>8, <2>3 DEF Tidy, Unpublished
  <2>9. RetainsReadable
    BY <2>1, <2>3 DEF RetainsReadable
  <2> QED BY <1>4, <1>5, <1>7, <2>6, <2>7, <2>8, <2>9 DEF SInv, Own
<1> QED BY <1>9, <1>10

\* The launch goes on ahead of the generation it saved.
LEMMA FinishSaveOrder == ASSUME IInv, SInv, NEW t \in Trainers, FinishSave(t) PROVE SInv'
<1>1. /\ UNCHANGED <<last, prev, rejected, corrupt, created, links, parts, step, mode>>
      /\ pc[t] = "rotated" /\ pc'[t] = "running"
      /\ lastOnDisk' = {last} /\ prevOnDisk' = {prev}
  BY DEF FinishSave, SyncDirectory, Move, IInv, TypeOK
<1>2. last = new[t] /\ new[t].step = step[t] /\ new[t].id \notin rejected
  BY <1>1 DEF IInv, Replaced, SInv, Own, Written, Saving
<1>3. \A u \in Trainers \ {t} : Own(u)'
  <2>1. pc[t] \in Holding /\ UNCHANGED <<last, prev>>
    BY <1>1 DEF Holding, Saving
  <2>2. \A u \in Trainers \ {t} : pc'[u] = pc[u] /\ preserve'[u] = preserve[u] /\ new'[u] = new[u]
    BY DEF FinishSave, Move, IInv, TypeOK
  <2> QED BY <1>1, <2>1, <2>2, OthersKept
<1>4. Rejects'
  BY <1>1 DEF SInv, Rejects
<1>5. Stable'
  <2>1. prev # None => prev.step \in Int
    BY DEF IInv, TypeOK, Name, Generation
  <2> QED BY <1>1, <2>1 DEF Stable
<1>6. LatestNames' \subseteq LatestNames /\ PreviousNames' \subseteq PreviousNames
      /\ last \in LatestNames
  BY <1>1 DEF LatestNames, PreviousNames
<1>7. StepOrder'
  BY <1>6 DEF SInv, StepOrder, NotAfter
<1>8. Own(t)'
  <2>1. Starting(t)' /\ Written(t)' /\ Tidy(t)' /\ Retains(t)'
    BY <1>1 DEF SInv, Own, Starting, Written, Tidy, Retains, Unpublished, Saving
  <2>2. Ahead(t)'
    <3>1. \A h \in PreviousNames : NotAfter(h, step[t])
      BY <1>2, <1>6 DEF SInv, StepOrder
    <3>2. step[t] \in Int
      BY DEF IInv, TypeOK
    <3> QED BY <1>1, <1>2, <1>6, <3>1, <3>2 DEF Ahead, NotAfter
  <2> QED BY <2>1, <2>2 DEF Own
<1> QED BY <1>3, <1>4, <1>5, <1>7, <1>8 DEF SInv

\* A launch that ends leaves its temporaries to the next one.
LEMMA EndOrder ==
    ASSUME IInv, SInv, NEW t \in Trainers, Exit(t) \/ Die(t)
    PROVE  SInv'
<1>1. /\ UNCHANGED <<names, rejected, corrupt, created, step, preserve, mode>>
      /\ pc'[t] = "down" /\ pc[t] # "down"
  BY DEF Exit, Die, Move, IInv, TypeOK
<1>2. Rejects' /\ Stable' /\ StepOrder'
  BY <1>1, NamesKept DEF IInv, TypeOK
<1>3. \A u \in Trainers \ {t} : Own(u)'
  <2>1. \A u \in Trainers \ {t} : pc'[u] = pc[u] /\ new'[u] = new[u]
    BY DEF Exit, Die, Move, IInv, TypeOK
  <2>2. pc[t] \in Holding \/ UNCHANGED <<parts, links>>
    <3>1. pc[t] \in Saving \/ new[t] = None
      BY DEF IInv, Idle
    <3> QED BY <3>1 DEF Exit, Die, Holding
  <2>3. UNCHANGED <<last, prev>>
    BY <1>1 DEF names
  <2> QED BY <1>1, <2>1, <2>2, <2>3, OthersKept
<1>4. Own(t)'
  BY <1>1 DEF Own, Starting, Ahead, Written, Tidy, Retains, Unpublished, Saving
<1> QED BY <1>2, <1>3, <1>4 DEF SInv

\* A power failure leaves names that were stable, and no launch.
LEMMA PowerFailureOrder == ASSUME IInv, SInv, PowerFailure PROVE SInv' /\ RetainsReadable
<1>1. /\ UNCHANGED <<rejected, corrupt, created>> /\ \A t \in Trainers : pc'[t] = "down"
      /\ last' \in lastOnDisk /\ prev' \in prevOnDisk /\ lastOnDisk' = {last'} /\ prevOnDisk' = {prev'}
  BY DEF PowerFailure
<1>2. Rejects'
  BY <1>1 DEF SInv, Rejects
<1>3. Stable'
  <2>1. prev' # None => prev'.step \in Int
    BY <1>1 DEF IInv, TypeOK, Name, Generation
  <2> QED BY <1>1, <2>1 DEF Stable
<1>4. StepOrder'
  <2>1. LatestNames' \subseteq LatestNames /\ PreviousNames' \subseteq PreviousNames
    BY <1>1 DEF LatestNames, PreviousNames
  <2> QED BY <2>1 DEF SInv, StepOrder, NotAfter
<1>5. \A t \in Trainers : Own(t)'
  BY <1>1 DEF Own, Starting, Ahead, Written, Tidy, Retains, Unpublished, Saving
<1>6. RetainsReadable
  BY <1>1 DEF RetainsReadable
<1> QED BY <1>2, <1>3, <1>4, <1>5, <1>6 DEF SInv

\* A generation goes bad: nothing was rejected by it yet.
LEMMA CorruptOrder == ASSUME IInv, SInv, Corrupt PROVE SInv'
<1>1. /\ UNCHANGED <<names, rejected, created, parts, links, step, preserve, mode, new, pc>>
      /\ corrupt \subseteq corrupt'
  BY DEF Corrupt, trainer
<1>2. Rejects' /\ Stable' /\ StepOrder'
  BY <1>1, NamesKept DEF IInv, TypeOK
<1>3. \A t \in Trainers : Own(t)'
  BY <1>1 DEF SInv, Own, Starting, Ahead, Written, Tidy, Retains, PreviousNames, NotAfter, names
<1> QED BY <1>2, <1>3 DEF SInv

\* Nothing is said of the first state that it does not hold.
LEMMA InitOrder == Init => SInv
<1> SUFFICES ASSUME Init PROVE SInv
  OBVIOUS
<1>1. LatestNames = {None} /\ PreviousNames = {None} /\ \A t \in Trainers : pc[t] = "down"
  BY DEF Init, LatestNames, PreviousNames
<1> QED BY <1>1 DEF Init, SInv, Rejects, Stable, StepOrder, NotAfter, Own, Starting, Ahead,
             Written, Tidy, Retains, Unpublished, Saving

\* Every step of launches that do not overlap keeps the order of the steps, and
\* retains no generation that a load rejected.
LEMMA NextOrder ==
    ASSUME IInv, SInv, Sole, [Next]_vars
    PROVE  SInv' /\ (UNCHANGED vars \/ RetainsReadable)
<1>1. ASSUME NEW t \in Trainers, Setup(t) \/ (Train(t) /\ ~RotatePrevious(t)) \/ Die(t)
      PROVE  SInv' /\ RetainsReadable
  <2>1. SInv'
    BY <1>1, LaunchOrder, AcquireOrder, ReconcileOrder, LoadOrder, TrainOrder, CreatePartOrder,
       WritePartOrder, LinkPreviousOrder, PublishLastOrder, SyncLastOrder, FinishSaveOrder, EndOrder
       DEF Setup, Train, Save
  <2>2. prev' = prev
    <3>1. CASE Setup(t)
      BY <3>1 DEF Setup, Launch, Acquire, Reconcile, Load, names
    <3>2. CASE Train(t) /\ ~RotatePrevious(t)
      BY <3>2 DEF Train, Update, Invalidate, Exit, Save, CreatePart, WritePart, LinkPrevious,
           PublishLast, SyncLast, FinishSave, names
    <3>3. CASE Die(t)
      BY <3>3 DEF Die, names
    <3> QED BY <1>1, <3>1, <3>2, <3>3
  <2>3. RetainsReadable
    BY <2>2 DEF RetainsReadable, IInv, OnDisk
  <2> QED BY <2>1, <2>3
<1>2. ASSUME NEW t \in Trainers, RotatePrevious(t)
      PROVE  SInv' /\ RetainsReadable
  BY <1>2, RotatePreviousOrder
<1>3. CASE PowerFailure
  BY <1>3, PowerFailureOrder
<1>4. CASE Corrupt
  <2>1. prev' = prev
    BY <1>4 DEF Corrupt, names
  <2> QED BY <1>4, <2>1, CorruptOrder DEF RetainsReadable, IInv, OnDisk
<1>5. CASE UNCHANGED vars
  <2>1. UNCHANGED <<pc, mode, step, preserve, new, names, parts, links, rejected, corrupt, created>>
    BY <1>5 DEF vars, trainer
  <2>2. Rejects' /\ Stable' /\ StepOrder'
    BY <2>1, NamesKept DEF IInv, TypeOK
  <2>3. \A t \in Trainers : Own(t)'
    BY <2>1 DEF SInv, Own, Starting, Ahead, Written, Tidy, Retains, PreviousNames, NotAfter, names
  <2> QED BY <1>5, <2>2, <2>3 DEF SInv
<1> QED BY <1>1, <1>2, <1>3, <1>4, <1>5 DEF Next

\* Three inodes at most.
LEMMA ThreeOfThem ==
    ASSUME NEW a, NEW b, NEW c, NEW S, S \subseteq {a, b, c}
    PROVE  Cardinality(S) \in Nat /\ Cardinality(S) <= 3
<1>1. IsFiniteSet({a}) /\ Cardinality({a}) = 1
  BY FS_Singleton
<1>2. IsFiniteSet({a} \cup {b}) /\ Cardinality({a} \cup {b}) \in {1, 2}
  BY <1>1, FS_AddElement
<1>3. IsFiniteSet({a} \cup {b} \cup {c}) /\ Cardinality({a} \cup {b} \cup {c}) \in {1, 2, 3}
  BY <1>2, FS_AddElement
<1>4. S \in SUBSET ({a} \cup {b} \cup {c})
  OBVIOUS
<1>5. IsFiniteSet(S) /\ Cardinality(S) <= Cardinality({a} \cup {b} \cup {c})
  BY <1>3, <1>4, FS_Subset
<1>6. Cardinality(S) \in Nat
  BY <1>5, FS_CardinalityType
<1> QED BY <1>3, <1>5, <1>6

\* What a launch that saves leaves on the disk at a time.
LEMMA PeakOfSave ==
    ASSUME IInv, SInv, NEW t \in Trainers, pc[t] \in Saving
    PROVE  Cardinality(Inodes) \in Nat /\ Cardinality(Inodes) <= 3
<1>1. CASE pc[t] \in {"writing", "written"}
  <2>1. parts = {new[t]} /\ links = {}
    BY <1>1 DEF SInv, Own, Tidy, Unpublished
  <2>2. Inodes \subseteq {last, prev, new[t]}
    BY <2>1 DEF Inodes
  <2> QED BY <2>2, ThreeOfThem
<1>2. CASE pc[t] = "linked"
  <2>1. parts = {new[t]}
    BY <1>2 DEF SInv, Own, Tidy, Unpublished
  <2>2. {l[2] : l \in links} \subseteq {last}
    BY <1>2 DEF SInv, Own, Retains
  <2>3. Inodes \subseteq {last, prev, new[t]}
    BY <2>1, <2>2 DEF Inodes
  <2> QED BY <2>3, ThreeOfThem
<1>3. CASE pc[t] \in {"published", "synced"}
  <2>1. parts = {}
    BY <1>3 DEF SInv, Own, Tidy
  <2>2. \E g : {l[2] : l \in links} \subseteq {g}
    BY <1>3 DEF SInv, Own, Retains
  <2>3. PICK g : {l[2] : l \in links} \subseteq {g}
    BY <2>2
  <2>4. Inodes \subseteq {last, prev, g}
    BY <2>1, <2>3 DEF Inodes
  <2> QED BY <2>4, ThreeOfThem
<1>4. CASE pc[t] = "rotated"
  <2>1. parts = {} /\ links = {}
    BY <1>4 DEF SInv, Own, Tidy
  <2>2. Inodes \subseteq {last, prev, prev}
    BY <2>1 DEF Inodes
  <2> QED BY <2>2, ThreeOfThem
<1> QED BY <1>1, <1>2, <1>3, <1>4 DEF Saving

\* The order of the steps is what the bound on a rotation says.
LEMMA OrderBounds ==
    ASSUME IInv, SInv, PeakGenerations >= 3
    PROVE  RotationBounded
<1>1. ASSUME NEW t \in Trainers, pc[t] \in Saving
      PROVE  Cardinality(Inodes) <= PeakGenerations
  BY <1>1, PeakOfSave, BoundsAssumption
<1>2. ASSUME NEW o \in Outcomes \cup {<<last, prev>>}, o[1] # None, o[2] # None
      PROVE  o[2].step <= o[1].step
  <2>1. o[1] \in LatestNames /\ o[2] \in PreviousNames
    BY DEF Outcomes, LatestNames, PreviousNames
  <2> QED BY <1>2, <2>1 DEF SInv, StepOrder, NotAfter
<1> QED BY <1>1, <1>2 DEF RotationBounded

\* Launches that do not overlap keep the rollback generation behind the latest
\* one and never hold more generations than the launcher reserves disk for
\* (_CHECKPOINT_ROTATION_PEAK_GENERATIONS, 3), whatever earlier crashes left.
THEOREM RotationStaysBounded ==
    ASSUME PeakGenerations >= 3
    PROVE  Spec /\ []Sole => []RotationBounded
<1>1. IInv /\ SInv => RotationBounded
  BY OrderBounds
<1>2. IInv /\ SInv /\ Sole /\ [Next]_vars => SInv'
  BY NextOrder
<1> QED BY <1>1, <1>2, InitOrder, Invariance, PTL DEF Spec

\* Launches that do not overlap never make a generation that failed to load the
\* rollback generation (_atomic_torch_save, preserve_previous).
THEOREM RejectedIsNeverRetained == Spec /\ []Sole => RejectedNeverRetained
<1>1. IInv /\ SInv /\ Sole /\ [Next]_vars => SInv' /\ [RetainsReadable]_vars
  BY NextOrder
<1> QED BY <1>1, InitOrder, Invariance, PTL DEF Spec, RejectedNeverRetained

\* The launches of a scene are those of its crew.
Staffed == crew \subseteq Trainers /\ \A t \in Trainers \ crew : pc[t] = "down"

\* A crew of one does not overlap with itself.
LEMMA AloneIsSole ==
    ASSUME IsFiniteSet(Trainers), Staffed, Alone
    PROVE  Sole
<1>1. IsFiniteSet(crew)
  BY FS_Subset DEF Staffed
<1>2. PICK x : crew = {x}
  BY <1>1, FS_Singleton DEF Alone
<1> QED BY <1>2 DEF Staffed, Sole

\* Both hold of one launch after another on a lineage of its own, however many
\* other launches there might be.
THEOREM SoleLaunches ==
    ASSUME IsFiniteSet(Trainers), PeakGenerations >= 3
    PROVE  MCSpec => SoleRotation
<1> DEFINE MCInv == IInv /\ Staffed /\ (Alone => SInv)
<1>1. MCInit => MCInv
  BY InitInv, InitOrder DEF MCInit, Staffed, Init
<1>2. ASSUME MCInv, [MCNext]_<<vars, crew>>
      PROVE  MCInv' /\ [Alone => RetainsReadable]_<<vars, crew>>
  <2>1. [Next]_vars /\ crew' = crew
    BY <1>2 DEF MCNext
  <2>2. IInv'
    BY <1>2, <2>1, NextInv
  <2>3. Staffed'
    BY <1>2, <2>1 DEF MCNext, Staffed, vars, trainer
  <2>4. Alone' <=> Alone
    BY <2>1 DEF Alone
  <2>5. Alone => SInv' /\ (UNCHANGED vars \/ RetainsReadable)
    BY <1>2, <2>1, AloneIsSole, NextOrder
  <2> QED BY <2>1, <2>2, <2>3, <2>4, <2>5
<1>3. MCInv => (Alone => RotationBounded)
  BY OrderBounds
<1> QED BY <1>1, <1>2, <1>3, PTL DEF MCSpec, SoleRotation
=================================================================================
