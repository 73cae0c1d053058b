----------------------------- MODULE Delivery_proofs -----------------------------
(***************************************************************************)
(* Proofs about what is done with a packed corpus: its training geometry   *)
(* is qualified, for any geometries, measurement lengths, rates, kills and *)
(* edits, and a run is launched with authority, for any orders, any room   *)
(* and any number of saves and troubles.                                   *)
(*                                                                         *)
(* A directory whose torchrun may outlive its supervisor is one no later   *)
(* command measures in: its log is there without a journal, or that of the *)
(* second phase is.  What is measured is therefore written by one trainer  *)
(* at a time, and evidence once it is there never changes.                 *)
(*                                                                         *)
(* A certificate is believed for the files it names: a content that        *)
(* changes gets another identity, so what was valid when it was looked at  *)
(* is valid as long as its name is that of the files in place.  From its   *)
(* look at the mount on a launch relies on a root that nobody writes to,   *)
(* and the room it admitted is that of a whole rotation.                   *)
(***************************************************************************)
EXTENDS Qualification, LaunchAuthority, FiniteSetTheorems, WellFoundedInduction, TLAPS

(* Qualification.                                                          *)

Checkpoints == [step : Nat, inputs : Generations \cup {"none"}, boot : Nat]
Journals == [seen : Nat, save : Checkpoints, boot : Nat]
Results == [pass : BOOLEAN, rate : Nat]
Files(V) == {Absent} \cup [at : {"bare", "sealed"}, v : V]
Rooms ==
    [log1 : BOOLEAN, log2 : BOOLEAN, stop : BOOLEAN, last : Checkpoints, prev : Checkpoints,
     journal : Files(Journals), result : Files(Results), failure : Files({"failed"})]
Places ==
    {"off", "plan", "verify", "orders", "candidate", "launch_one", "phase_one", "journal", "resume",
     "launch_two", "phase_two", "abort", "result", "fail", "failure", "summary", "seal"}
Torchruns ==
    [alive : BOOLEAN, m : Modes \cup {"none"}, c : Names \cup {"none"}, step : Nat,
     inputs : Generations \cup {"none"}, end : {"none", "crash", "graceful", "complete"}]

QualificationTypeOK ==
    /\ inputs \in Generations /\ boot \in Nat
    /\ plan \in [Modes -> Files([inputs : Generations, roster : Seq(Names)])]
    /\ root \in [Modes -> [Names -> Rooms]]
    /\ summary \in [Modes -> Files([rec : Seq(Results), accepted : Nat])]
    /\ sup \in [pc : Places, m : Modes \cup {"none"}, i : Nat, seen : Nat, asked : BOOLEAN,
                rec : Seq(Results)]
    /\ train \in Torchruns /\ orphans \subseteq Torchruns

(* Each plan binds the inputs of the one before it.                        *)
Chained ==
    /\ \A m \in {"baselines", "grid"} : plan[m] # Absent => plan[m].v.roster = Geometries
    /\ plan["grid"] # Absent =>
          plan["baselines"] # Absent /\ plan["grid"].v.inputs = plan["baselines"].v.inputs
    /\ plan["final"] # Absent =>
          /\ plan["grid"] # Absent /\ plan["final"].v.inputs = plan["grid"].v.inputs
          /\ summary["grid"] # Absent /\ summary["grid"].v.accepted \in DOMAIN Geometries
          /\ plan["final"].v.roster = <<Geometries[summary["grid"].v.accepted]>>

(* What the files of a candidate say of each other.                        *)
Coherent(m, d) ==
    /\ d.journal # Absent =>
          /\ d.log1 /\ Warmup < d.journal.v.seen
          /\ d.journal.v.save.step = d.journal.v.seen /\ d.journal.v.save.boot = d.journal.v.boot
    /\ d.log2 => IsSealed(d.journal)
    /\ d.result # Absent => d.log2 /\ plan[m] # Absent
    /\ d.result # Absent /\ d.result.v.pass =>
          /\ d.prev = d.journal.v.save
          /\ d.last.boot = d.journal.v.boot
          /\ d.prev.inputs = plan[m].v.inputs /\ d.last.inputs = plan[m].v.inputs
          /\ d.prev.step < d.last.step /\ d.last.step - Warmup >= MinimumSoak

(* What a recorded verdict rests on.                                       *)
Entry(e, d) ==
    \/ e = Fails /\ d.failure # Absent
    \/ d.result # Absent /\ e = d.result.v
Entries(rec, m) == \A k \in 1..Len(rec) : Entry(rec[k], root[m][plan[m].v.roster[k]])
Summarised ==
    \A m \in Modes : summary[m] # Absent =>
        LET s == summary[m].v
        IN  /\ plan[m] # Absent /\ Len(s.rec) = Len(plan[m].v.roster)
            /\ s.accepted = Fastest(s.rec) /\ Entries(s.rec, m)
            /\ m # "grid" => Passing(s.rec) = DOMAIN s.rec

Preparing == {"plan", "verify", "orders"}
Concluding == {"summary", "seal"}
Commanded ==
    sup.pc # "off" =>
      /\ sup.m \in Modes /\ plan[sup.m] # Absent
      /\ sup.pc = "seal" <=> summary[sup.m] # Absent
      /\ sup.pc \in {"plan", "verify"} => sup.i = 1
      /\ sup.pc \in Preparing => sup.rec = <<>>
      /\ sup.pc \notin Concluding => sup.i \in 1..Len(Roster)
      /\ sup.pc \in Concluding => sup.i = Len(Roster) + 1
      /\ sup.pc \notin Preparing => Len(sup.rec) = sup.i - 1
      /\ Entries(sup.rec, sup.m)

(* Nobody measures in a directory with such a log any more.                *)
Tainted(d) == d.result = Absent /\ d.log1 /\ (d.log2 \/ d.journal = Absent)
Trainers ==
    /\ train.alive =>
          /\ sup.pc \in {"phase_one", "phase_two", "abort"} /\ train.end = "none"
          /\ train.m = sup.m /\ train.c = Here /\ Tainted(Room)
    /\ \A o \in orphans : o.m \in Modes /\ o.c \in Names /\ Tainted(root[o.m][o.c])
    /\ sup.pc \in {"phase_one", "phase_two"} => \A o \in orphans : ~(o.m = sup.m /\ o.c = Here)

(* What the command relies on in the candidate's directory.                *)
Resumed == IsSealed(Room.journal) /\ Room.result = Absent /\ Room.journal.v.boot = boot
Measuring ==
    /\ sup.pc = "launch_one" => ~Room.log1
    /\ sup.pc = "phase_one" =>
          /\ Tainted(Room) /\ ~Room.log2
          /\ train.end = "graceful" => Room.last.step = train.step /\ Room.last.boot = boot
    /\ sup.pc = "journal" =>
          /\ Room.journal.at = "bare" /\ Room.result = Absent
          /\ Room.journal.v.boot = boot /\ Room.last = Room.journal.v.save
    /\ sup.pc = "resume" => Resumed /\ (~Room.log2 => Room.last = Room.journal.v.save)
    /\ sup.pc = "launch_two" => Resumed /\ ~Room.log2 /\ Room.last = Room.journal.v.save
    /\ sup.pc = "phase_two" =>
          /\ Resumed /\ Room.log2
          /\ train.alive => Room.last = Room.journal.v.save
          /\ train.end = "graceful" =>
                /\ Room.prev = Room.journal.v.save
                /\ Room.last.step = train.step /\ Room.last.boot = boot
    /\ sup.pc = "result" => Room.result # Absent
    /\ sup.pc = "failure" => Room.failure # Absent

QualificationIInv ==
    /\ QualificationTypeOK /\ Chained /\ (\A m \in Modes : \A c \in Names : Coherent(m, root[m][c]))
    /\ Summarised /\ Commanded /\ Trainers /\ Measuring
-----------------------------------------------------------------------------
(* The fastest.                                                             *)

\* The fastest of the passing results exists, whatever was measured: among
\* finitely many results one has no better one.
LEMMA FastestIsBest ==
    ASSUME NEW rec \in Seq(Results), Passing(rec) # {}
    PROVE  /\ Fastest(rec) \in Passing(rec)
           /\ \A j \in Passing(rec) : \/ rec[j].rate < rec[Fastest(rec)].rate
                                      \/ rec[j].rate = rec[Fastest(rec)].rate /\ Fastest(rec) <= j
<1> DEFINE S == Passing(rec)
           Best(i) == \A j \in S : rec[j].rate < rec[i].rate \/ (rec[j].rate = rec[i].rate /\ i <= j)
           Better(i) == {j \in S : ~(rec[j].rate < rec[i].rate \/ (rec[j].rate = rec[i].rate /\ i <= j))}
           T == {Better(i) : i \in S}
           R == StrictSubsetOrdering(S)
<1>1. S \subseteq 1..Len(rec) /\ Len(rec) \in Nat /\ \A i \in S : i \in Nat /\ rec[i].rate \in Nat
  <2>1. Len(rec) \in Nat /\ DOMAIN rec = 1..Len(rec) /\ \A i \in 1..Len(rec) : rec[i] \in Results
    OBVIOUS
  <2>2. \A i \in 1..Len(rec) : rec[i].rate \in Nat
    BY <2>1 DEF Results
  <2> QED BY <2>1, <2>2 DEF Passing
<1>2. IsFiniteSet(S)
  <2>1. IsFiniteSet(1..Len(rec))
    BY <1>1, FS_Interval
  <2> QED BY <1>1, <2>1, FS_Subset
<1>3. IsWellFoundedOn(R, SUBSET S)
  BY <1>2, FS_StrictSubsetOrderingWellFounded, FS_FiniteSubsetsOfFinite
<1>4. T \subseteq SUBSET S /\ T # {}
  OBVIOUS
<1>5. \E x \in T : \A y \in T : <<y, x>> \notin R
  <2> HIDE DEF R, T, S
  <2> QED BY <1>3, <1>4, WFMin
<1>6. PICK i \in S : \A j \in S : <<Better(j), Better(i)>> \notin R
  BY <1>5
<1>7. Better(i) = {}
  <2> SUFFICES ASSUME NEW j \in Better(i) PROVE FALSE
    OBVIOUS
  <2>1. j \in S /\ ~(rec[j].rate < rec[i].rate \/ (rec[j].rate = rec[i].rate /\ i <= j))
    OBVIOUS
  <2>2. Better(j) \subseteq Better(i)
    BY <1>1, <2>1
  <2>3. j \notin Better(j)
    BY <1>1, <2>1
  <2>4. <<Better(j), Better(i)>> \in R
    BY <2>2, <2>3 DEF StrictSubsetOrdering
  <2> QED BY <1>6, <2>1, <2>4
<1>8. Best(i)
  BY <1>7
<1>9. Fastest(rec) = CHOOSE k \in S : Best(k)
  BY DEF Fastest
<1> HIDE DEF Best
<1>10. Fastest(rec) \in S /\ Best(Fastest(rec))
  BY <1>8, <1>9
<1> QED BY <1>10 DEF Best

-----------------------------------------------------------------------------
(* Files and candidates' directories.                                       *)

\* What a file can hold.
LEMMA FileFacts ==
    ASSUME NEW V, NEW f \in Files(V)
    PROVE  /\ f # Absent => f.v \in V /\ f.at \in {"bare", "sealed"} /\ Sealed(f.v) \in Files(V)
           /\ IsSealed(f) => f # Absent
           /\ f.at = "bare" => f # Absent
           /\ \A v \in V : /\ Bare(v) \in Files(V) /\ Bare(v) # Absent /\ Bare(v).v = v
                           /\ ~IsSealed(Bare(v)) /\ Bare(v).at = "bare"
                           /\ Sealed(v) \in Files(V) /\ Sealed(v) # Absent /\ Sealed(v).v = v
                           /\ IsSealed(Sealed(v))
  BY DEF Files, Absent, Bare, Sealed, IsSealed

\* What a directory can hold.
LEMMA RoomFacts ==
    ASSUME NEW d \in Rooms
    PROVE  /\ d.journal \in Files(Journals) /\ d.result \in Files(Results)
           /\ d.failure \in Files({"failed"})
           /\ d.last \in Checkpoints /\ d.prev \in Checkpoints
           /\ IsSealed(d.journal) => d.journal # Absent
           /\ IsSealed(d.result) => d.result # Absent
           /\ IsSealed(d.failure) => d.failure # Absent
           /\ d.journal.at = "bare" => d.journal # Absent
           /\ d.journal # Absent => /\ d.journal.v \in Journals /\ d.journal.v.seen \in Nat
                                    /\ d.journal.v.save \in Checkpoints
           /\ d.result # Absent => d.result.v \in Results
<1>1. /\ d.journal \in Files(Journals) /\ d.result \in Files(Results)
      /\ d.failure \in Files({"failed"})
      /\ d.last \in Checkpoints /\ d.prev \in Checkpoints
  BY DEF Rooms
<1>2. d.journal # Absent => d.journal.v \in Journals
  BY <1>1, FileFacts
<1>3. d.journal # Absent => d.journal.v.seen \in Nat /\ d.journal.v.save \in Checkpoints
  BY <1>2 DEF Journals
<1>4. d.result # Absent => d.result.v \in Results
  BY <1>1, FileFacts
<1>5. /\ IsSealed(d.journal) => d.journal # Absent
      /\ IsSealed(d.result) => d.result # Absent
      /\ IsSealed(d.failure) => d.failure # Absent
      /\ d.journal.at = "bare" => d.journal # Absent
  BY DEF IsSealed, Absent
<1> QED BY <1>1, <1>2, <1>3, <1>4, <1>5

\* Every entry of the roster of a plan is a candidate.
LEMMA HereIsNamed ==
    ASSUME QualificationTypeOK, NEW m \in Modes, plan[m] # Absent
    PROVE  /\ plan[m].v \in [inputs : Generations, roster : Seq(Names)]
           /\ Len(plan[m].v.roster) \in Nat
           /\ \A k \in 1..Len(plan[m].v.roster) : plan[m].v.roster[k] \in Names
<1>1. plan[m] \in Files([inputs : Generations, roster : Seq(Names)])
  BY DEF QualificationTypeOK
<1>2. plan[m].v \in [inputs : Generations, roster : Seq(Names)]
  BY <1>1, FileFacts
<1>3. plan[m].v.roster \in Seq(Names)
  BY <1>2
<1> QED BY <1>2, <1>3

-----------------------------------------------------------------------------
(* What a step leaves standing.                                             *)

(* Evidence that is there stays, with what it says.                        *)
Grows(d, e) ==
    /\ d.failure # Absent => e.failure # Absent
    /\ d.result # Absent => e.result # Absent /\ e.result.v = d.result.v

(* One directory becomes d, the plans and receipts stay.                   *)
RoomBecomes(m, c, d) ==
    /\ UNCHANGED <<plan, summary>>
    /\ root' \in [Modes -> [Names -> Rooms]]
    /\ root'[m][c] = d
    /\ \A k \in Modes : \A e \in Names : ~(k = m /\ e = c) => root'[k][e] = root[k][e]

\* What was recorded of a candidate stays true of it.
LEMMA EntriesKept ==
    ASSUME QualificationTypeOK, NEW m \in Modes, plan[m] # Absent, plan'[m].v = plan[m].v,
           \A k \in Modes : \A e \in Names : Grows(root[k][e], root'[k][e]),
           NEW rec, Entries(rec, m)
    PROVE  \A k \in 1..Len(rec) : k \in 1..Len(plan[m].v.roster) =>
               Entry(rec[k], root'[m][plan'[m].v.roster[k]])
<1>1. ASSUME NEW k \in 1..Len(rec), k \in 1..Len(plan[m].v.roster)
      PROVE  Entry(rec[k], root'[m][plan'[m].v.roster[k]])
  <2>1. plan[m].v.roster[k] \in Names
    BY <1>1, HereIsNamed
  <2>2. Entry(rec[k], root[m][plan[m].v.roster[k]])
    BY <1>1 DEF Entries
  <2>3. Grows(root[m][plan[m].v.roster[k]], root'[m][plan[m].v.roster[k]])
    BY <2>1
  <2> QED BY <2>2, <2>3 DEF Entry, Grows
<1> QED BY <1>1

\* Receipts stay true while evidence only grows.
LEMMA SummariesKept ==
    ASSUME QualificationIInv, UNCHANGED <<plan, summary>>,
           \A k \in Modes : \A e \in Names : Grows(root[k][e], root'[k][e])
    PROVE  Chained' /\ Summarised'
<1>1. Chained'
  BY DEF QualificationIInv, Chained
<1>2. ASSUME NEW m \in Modes, summary'[m] # Absent
      PROVE  LET s == summary'[m].v
             IN  /\ plan'[m] # Absent /\ Len(s.rec) = Len(plan'[m].v.roster)
                 /\ s.accepted = Fastest(s.rec)
                 /\ \A k \in 1..Len(s.rec) : Entry(s.rec[k], root'[m][plan'[m].v.roster[k]])
                 /\ m # "grid" => Passing(s.rec) = DOMAIN s.rec
  <2> DEFINE s == summary[m].v
  <2>1. /\ plan[m] # Absent /\ Len(s.rec) = Len(plan[m].v.roster) /\ s.accepted = Fastest(s.rec)
        /\ Entries(s.rec, m) /\ (m # "grid" => Passing(s.rec) = DOMAIN s.rec)
    BY <1>2 DEF QualificationIInv, Summarised
  <2> HIDE DEF s
  <2>2. \A k \in 1..Len(s.rec) : Entry(s.rec[k], root'[m][plan'[m].v.roster[k]])
    BY <2>1, EntriesKept DEF QualificationIInv
  <2> QED BY <1>2, <2>1, <2>2 DEF s
<1>3. Summarised'
  BY <1>2 DEF Summarised, Entries
<1> QED BY <1>1, <1>3

\* A directory that stays coherent and keeps its evidence.
LEMMA RoomStep ==
    ASSUME QualificationIInv, NEW m \in Modes, NEW c \in Names, NEW d \in Rooms,
           RoomBecomes(m, c, d), Grows(root[m][c], d), Coherent(m, d)
    PROVE  /\ \A k \in Modes : \A e \in Names : Grows(root[k][e], root'[k][e])
           /\ \A k \in Modes : \A e \in Names : Coherent(k, root[k][e])'
           /\ Chained' /\ Summarised'
<1>1. ASSUME NEW k \in Modes, NEW e \in Names PROVE Grows(root[k][e], root'[k][e])
  <2>1. CASE k = m /\ e = c
    BY <2>1 DEF RoomBecomes
  <2>2. CASE ~(k = m /\ e = c)
    BY <2>2 DEF RoomBecomes, Grows
  <2> QED BY <2>1, <2>2
<1>2. ASSUME NEW k \in Modes, NEW e \in Names PROVE Coherent(k, root[k][e])'
  <2>1. UNCHANGED plan /\ (root'[k][e] = root[k][e] \/ (k = m /\ root'[k][e] = d))
    BY DEF RoomBecomes
  <2>2. Coherent(k, root[k][e])
    BY DEF QualificationIInv
  <2> QED BY <2>1, <2>2 DEF Coherent
<1>3. Chained' /\ Summarised'
  BY <1>1, SummariesKept DEF RoomBecomes
<1> QED BY <1>1, <1>2, <1>3

-----------------------------------------------------------------------------
(* What a command leaves standing.                                          *)

Looping == Places \ (Preparing \cup Concluding \cup {"off"})

\* Where a command is working.
LEMMA HereFacts ==
    ASSUME QualificationIInv, sup.pc \notin Concluding \cup {"off"}
    PROVE  /\ sup.m \in Modes /\ plan[sup.m] # Absent /\ summary[sup.m] = Absent
           /\ sup.i \in 1..Len(Roster) /\ Len(Roster) \in Nat /\ Roster \in Seq(Names)
           /\ Here \in Names /\ Room \in Rooms /\ Planned \in Generations /\ Coherent(sup.m, Room)
<1>1. /\ sup.m \in Modes /\ plan[sup.m] # Absent /\ summary[sup.m] = Absent
      /\ sup.i \in 1..Len(Roster)
  BY DEF QualificationIInv, Commanded, Concluding
<1>2. /\ plan[sup.m].v \in [inputs : Generations, roster : Seq(Names)]
      /\ Len(Roster) \in Nat /\ Here \in Names
  BY <1>1, HereIsNamed DEF QualificationIInv, Roster, Here
<1>3. Room \in Rooms /\ Coherent(sup.m, Room)
  BY <1>1, <1>2 DEF QualificationIInv, QualificationTypeOK, Room
<1> QED BY <1>1, <1>2, <1>3 DEF Roster, Planned

(* A command that goes on with its candidate.                              *)
Proceeds ==
    /\ sup' \in [pc : Looping, m : Modes \cup {"none"}, i : Nat, seen : Nat, asked : BOOLEAN,
                 rec : Seq(Results)]
    /\ sup'.m = sup.m /\ sup'.i = sup.i /\ sup'.rec = sup.rec

\* A command moves on.
LEMMA ToProceeds ==
    ASSUME QualificationIInv, NEW pc \in Looping, NEW seen \in Nat, NEW asked \in BOOLEAN,
           \/ sup' = [sup EXCEPT !.pc = pc]
           \/ sup' = [sup EXCEPT !.pc = pc, !.seen = seen]
           \/ sup' = [sup EXCEPT !.pc = pc, !.asked = asked]
           \/ sup' = [sup EXCEPT !.seen = seen, !.asked = asked] /\ pc = sup.pc
    PROVE  Proceeds /\ sup'.pc = pc
  BY DEF Proceeds, QualificationIInv, QualificationTypeOK

(* What it keeps, and what its candidate's directory becomes.              *)
HereKept(d) ==
    /\ QualificationTypeOK' /\ Chained' /\ Summarised' /\ Commanded'
    /\ \A m \in Modes : \A c \in Names : Coherent(m, root[m][c])'
    /\ \A o \in orphans' : o.m \in Modes /\ o.c \in Names /\ Tainted(root'[o.m][o.c])
    /\ Here' = Here /\ Room' = d

\* What a step of a command keeps that goes on with its candidate and writes to
\* its directory only.
LEMMA HereStep ==
    ASSUME QualificationIInv, sup.pc \in Looping, Proceeds, NEW d \in Rooms, RoomBecomes(sup.m, Here, d),
           Grows(Room, d), Coherent(sup.m, d),
           \/ Tainted(Room) => Tainted(d)
           \/ \A o \in orphans : ~(o.m = sup.m /\ o.c = Here),
           UNCHANGED orphans, inputs' \in Generations, boot' \in Nat, train' \in Torchruns
    PROVE  HereKept(d)
<1>0. /\ sup.m \in Modes /\ plan[sup.m] # Absent /\ summary[sup.m] = Absent
      /\ sup.i \in 1..Len(Roster) /\ Here \in Names /\ Len(Roster) \in Nat
  BY HereFacts DEF Looping
<1>1. Here' = Here /\ Roster' = Roster /\ Room' = d
  BY DEF Proceeds, RoomBecomes, Here, Roster, Room
<1>2. /\ \A k \in Modes : \A e \in Names : Grows(root[k][e], root'[k][e])
      /\ \A m \in Modes : \A c \in Names : Coherent(m, root[m][c])'
      /\ Chained' /\ Summarised'
  BY <1>0, RoomStep DEF Room
<1>3. QualificationTypeOK'
  BY DEF QualificationIInv, QualificationTypeOK, RoomBecomes, Proceeds, Looping
<1>4. Commanded'
  <2>1. Len(sup.rec) = sup.i - 1 /\ Entries(sup.rec, sup.m)
    BY DEF QualificationIInv, Commanded, Looping, Concluding
  <2>2. \A k \in 1..Len(sup.rec) : Entry(sup.rec[k], root'[sup.m][plan'[sup.m].v.roster[k]])
    <3>1. \A k \in 1..Len(sup.rec) : k \in 1..Len(plan[sup.m].v.roster)
      BY <1>0, <2>1 DEF Roster
    <3> QED BY <1>0, <1>2, <2>1, <3>1, EntriesKept DEF QualificationIInv, RoomBecomes
  <2>3. sup'.pc \notin Preparing \cup Concluding /\ sup'.pc # "seal" /\ sup'.pc # "off"
    BY DEF Proceeds, Looping, Concluding
  <2> QED BY <1>0, <1>1, <2>1, <2>2, <2>3 DEF Commanded, Entries, Proceeds, RoomBecomes, Preparing, Concluding
<1>5. ASSUME NEW o \in orphans' PROVE o.m \in Modes /\ o.c \in Names /\ Tainted(root'[o.m][o.c])
  <2>1. o \in orphans /\ o.m \in Modes /\ o.c \in Names /\ Tainted(root[o.m][o.c])
    BY DEF QualificationIInv, Trainers
  <2>2. CASE o.m = sup.m /\ o.c = Here
    BY <2>1, <2>2 DEF RoomBecomes, Room
  <2>3. CASE ~(o.m = sup.m /\ o.c = Here)
    BY <2>1, <2>3 DEF RoomBecomes
  <2> QED BY <2>1, <2>2, <2>3
<1> QED BY <1>1, <1>2, <1>3, <1>4, <1>5 DEF HereKept

\* A command writes to its candidate's directory, or leaves it alone.
LEMMA WriteBecomes ==
    ASSUME QualificationIInv, sup.pc \notin Concluding \cup {"off"}, UNCHANGED <<plan, summary>>, NEW d \in Rooms,
           Write(d) \/ (UNCHANGED root /\ d = Room)
    PROVE  RoomBecomes(sup.m, Here, d)
<1>1. sup.m \in Modes /\ Here \in Names
  BY HereFacts
<1>2. CASE Write(d)
  <2>1. root' = [root EXCEPT ![sup.m][Here] = d]
    BY <1>2 DEF Write
  <2>2. root \in [Modes -> [Names -> Rooms]]
    BY DEF QualificationIInv, QualificationTypeOK
  <2>3. /\ root' \in [Modes -> [Names -> Rooms]] /\ root'[sup.m][Here] = d
        /\ \A k \in Modes : \A e \in Names :
              ~(k = sup.m /\ e = Here) => root'[k][e] = root[k][e]
    BY <1>1, <2>1, <2>2
  <2> QED BY <2>3 DEF RoomBecomes
<1>3. CASE UNCHANGED root /\ d = Room
  BY <1>3 DEF RoomBecomes, QualificationIInv, QualificationTypeOK, Room
<1> QED BY <1>2, <1>3

\* No trainer runs unless one is watched.
LEMMA NoTrainer ==
    ASSUME QualificationIInv, sup.pc \notin {"phase_one", "phase_two", "abort"} PROVE ~train.alive
  BY DEF QualificationIInv, Trainers

\* A command that ends.
LEMMA ExitStep ==
    ASSUME QualificationIInv, Exit,
           \A k \in Modes : \A e \in Names : Coherent(k, root[k][e])',
           \A o \in orphans' : o.m \in Modes /\ o.c \in Names /\ Tainted(root'[o.m][o.c]),
           orphans' \subseteq Torchruns, Chained' /\ Summarised',
           plan' \in [Modes -> Files([inputs : Generations, roster : Seq(Names)])],
           summary' \in [Modes -> Files([rec : Seq(Results), accepted : Nat])],
           root' \in [Modes -> [Names -> Rooms]],
           inputs' \in Generations, boot' \in Nat, train' \in Torchruns, ~train'.alive
    PROVE  QualificationIInv'
<1>1. /\ sup'.pc = "off"
      /\ sup' \in [pc : Places, m : Modes \cup {"none"}, i : Nat, seen : Nat, asked : BOOLEAN,
                   rec : Seq(Results)]
  BY DEF Exit, Off, Places
<1>2. QualificationTypeOK'
  BY <1>1 DEF QualificationTypeOK
<1>3. Commanded' /\ Trainers' /\ Measuring'
  BY <1>1 DEF Commanded, Trainers, Measuring
<1> QED BY <1>2, <1>3 DEF QualificationIInv

\* A command that ends and wrote at most to its candidate's directory.
LEMMA HereExit ==
    ASSUME QualificationIInv, Exit, sup.pc \notin Concluding \cup {"off"}, NEW d \in Rooms,
           RoomBecomes(sup.m, Here, d), Grows(Room, d), Coherent(sup.m, d),
           \/ Tainted(Room) => Tainted(d)
           \/ \A o \in orphans : ~(o.m = sup.m /\ o.c = Here),
           UNCHANGED <<inputs, boot, orphans>>, train' \in Torchruns, ~train'.alive
    PROVE  QualificationIInv'
<1>1. sup.m \in Modes /\ Here \in Names
  BY HereFacts
<1>2. /\ \A m \in Modes : \A c \in Names : Coherent(m, root[m][c])'
      /\ Chained' /\ Summarised'
  BY <1>1, RoomStep DEF Room
<1>3. ASSUME NEW o \in orphans' PROVE o.m \in Modes /\ o.c \in Names /\ Tainted(root'[o.m][o.c])
  <2>1. o \in orphans /\ o.m \in Modes /\ o.c \in Names /\ Tainted(root[o.m][o.c])
    BY DEF QualificationIInv, Trainers
  <2>2. CASE o.m = sup.m /\ o.c = Here
    BY <2>1, <2>2 DEF RoomBecomes, Room
  <2>3. CASE ~(o.m = sup.m /\ o.c = Here)
    BY <2>1, <2>3 DEF RoomBecomes
  <2> QED BY <2>1, <2>2, <2>3
<1>4. /\ inputs' \in Generations /\ boot' \in Nat /\ orphans' \subseteq Torchruns
      /\ plan' \in [Modes -> Files([inputs : Generations, roster : Seq(Names)])]
      /\ summary' \in [Modes -> Files([rec : Seq(Results), accepted : Nat])]
      /\ root' \in [Modes -> [Names -> Rooms]]
  BY DEF QualificationIInv, QualificationTypeOK, RoomBecomes
<1> QED BY <1>2, <1>3, <1>4, ExitStep

\* A command that fails its candidate, or fails with it.
LEMMA FailStep ==
    ASSUME QualificationIInv, Fail, sup.pc \in Looping, NEW d \in Rooms,
           RoomBecomes(sup.m, Here, d), Grows(Room, d), Coherent(sup.m, d),
           \/ Tainted(Room) => Tainted(d)
           \/ \A o \in orphans : ~(o.m = sup.m /\ o.c = Here),
           UNCHANGED <<inputs, boot, orphans>>, train' \in Torchruns, ~train'.alive
    PROVE  QualificationIInv'
<1>1. CASE Exit
  BY <1>1, HereExit DEF Looping
<1>2. CASE To("fail")
  <2>1. Proceeds /\ sup'.pc = "fail"
    BY <1>2, ToProceeds DEF To, Looping, Places, Preparing, Concluding, QualificationIInv, QualificationTypeOK
  <2>2. inputs' \in Generations /\ boot' \in Nat
    BY DEF QualificationIInv, QualificationTypeOK
  <2>3. HereKept(d)
    BY <2>1, <2>2, HereStep
  <2>4. Trainers' /\ Measuring'
    BY <2>1, <2>3 DEF Trainers, Measuring, HereKept
  <2> QED BY <2>3, <2>4 DEF QualificationIInv, HereKept
<1> QED BY <1>1, <1>2 DEF Fail

\* A command that records a verdict and goes to the next candidate.
LEMMA RecordStep ==
    ASSUME QualificationIInv, sup.pc \in Looping, NEW r \in Results, Record(r), NEW d \in Rooms,
           RoomBecomes(sup.m, Here, d), Grows(Room, d), Coherent(sup.m, d), Entry(r, d),
           Tainted(Room) => Tainted(d),
           UNCHANGED <<inputs, boot, orphans>>, train' \in Torchruns, ~train'.alive
    PROVE  QualificationIInv'
<1> DEFINE n == Len(Roster)
<1>0. /\ sup.m \in Modes /\ plan[sup.m] # Absent /\ summary[sup.m] = Absent
      /\ sup.i \in 1..n /\ Here \in Names /\ n \in Nat
  BY HereFacts DEF Looping
<1>1. /\ \A k \in Modes : \A e \in Names : Grows(root[k][e], root'[k][e])
      /\ \A m \in Modes : \A c \in Names : Coherent(m, root[m][c])'
      /\ Chained' /\ Summarised'
  BY <1>0, RoomStep DEF Room
<1>2. sup \in [pc : Places, m : Modes \cup {"none"}, i : Nat, seen : Nat, asked : BOOLEAN,
               rec : Seq(Results)]
  BY DEF QualificationIInv, QualificationTypeOK
<1>3. /\ sup'.m = sup.m /\ sup'.rec = Append(sup.rec, r) /\ sup'.i = sup.i + 1
      /\ sup'.pc = IF sup.i < n THEN "candidate" ELSE "summary"
      /\ DOMAIN sup' = DOMAIN sup
  BY <1>2 DEF Record
<1>4. sup.rec \in Seq(Results) /\ Len(sup.rec) = sup.i - 1 /\ Entries(sup.rec, sup.m)
  BY <1>2 DEF QualificationIInv, Commanded, Looping, Concluding
<1>5. sup' \in [pc : Places, m : Modes \cup {"none"}, i : Nat, seen : Nat, asked : BOOLEAN,
                rec : Seq(Results)]
  <2> DEFINE rec == Append(sup.rec, r)
             pc == IF sup.i < n THEN "candidate" ELSE "summary"
             i == sup.i + 1
  <2>1. rec \in Seq(Results) /\ pc \in Places /\ i \in Nat
    BY <1>0, <1>4 DEF Places
  <2>2. sup' = [sup EXCEPT !.rec = rec, !.i = i, !.seen = 0, !.asked = FALSE, !.pc = pc]
    BY DEF Record
  <2> HIDE DEF rec, pc, i
  <2> QED BY <1>2, <2>1, <2>2
<1>6. QualificationTypeOK'
  BY <1>5 DEF QualificationIInv, QualificationTypeOK, RoomBecomes
<1>7. Roster' = Roster
  BY <1>3 DEF Roster, RoomBecomes
<1>8. Commanded'
  <2>1. \A k \in 1..Len(sup.rec) : Entry(sup.rec[k], root'[sup.m][plan'[sup.m].v.roster[k]])
    <3>1. \A k \in 1..Len(sup.rec) : k \in 1..Len(plan[sup.m].v.roster)
      BY <1>0, <1>4 DEF Roster
    <3> QED BY <1>0, <1>1, <1>4, <3>1, EntriesKept DEF QualificationIInv, RoomBecomes
  <2>2. Entry(r, root'[sup.m][plan'[sup.m].v.roster[sup.i]])
    BY <1>0 DEF RoomBecomes, Here, Roster
  <2>3. /\ Len(sup'.rec) = sup.i
        /\ \A k \in 1..sup.i : sup'.rec[k] = IF k = sup.i THEN r ELSE sup.rec[k]
    BY <1>0, <1>3, <1>4
  <2>4. \A k \in 1..Len(sup'.rec) : Entry(sup'.rec[k], root'[sup.m][plan'[sup.m].v.roster[k]])
    <3>1. ASSUME NEW k \in 1..sup.i
          PROVE  Entry(sup'.rec[k], root'[sup.m][plan'[sup.m].v.roster[k]])
      <4>1. CASE k = sup.i
        BY <2>2, <2>3, <4>1
      <4>2. CASE k # sup.i
        <5>1. k \in 1..Len(sup.rec)
          BY <1>0, <1>4, <4>2
        <5> QED BY <2>1, <2>3, <4>2, <5>1
      <4> QED BY <4>1, <4>2
    <3> QED BY <2>3, <3>1
  <2>5. Entries(sup.rec, sup.m)'
    BY <1>3, <2>4 DEF Entries
  <2>6. /\ sup'.pc \in {"candidate", "summary"} /\ (sup'.pc = "summary" <=> sup.i = n)
        /\ sup'.pc = "candidate" => sup.i + 1 \in 1..n
    BY <1>0, <1>3
  <2>7. /\ summary'[sup'.m] = Absent /\ plan'[sup'.m] # Absent /\ sup'.m \in Modes
        /\ Len(sup'.rec) = sup'.i - 1
    BY <1>0, <1>3, <2>3 DEF RoomBecomes
  <2> HIDE DEF n
  <2>8. sup'.pc = "summary" => sup'.i = Len(Roster') + 1
    BY <1>3, <1>7, <2>6 DEF n
  <2>9. sup'.pc # "summary" => sup'.i \in 1..Len(Roster')
    BY <1>3, <1>7, <2>6 DEF n
  <2> QED BY <2>5, <2>6, <2>7, <2>8, <2>9 DEF Commanded, Preparing, Concluding
<1>9. ASSUME NEW o \in orphans' PROVE o.m \in Modes /\ o.c \in Names /\ Tainted(root'[o.m][o.c])
  <2>1. o \in orphans /\ o.m \in Modes /\ o.c \in Names /\ Tainted(root[o.m][o.c])
    BY DEF QualificationIInv, Trainers
  <2>2. CASE o.m = sup.m /\ o.c = Here
    BY <2>1, <2>2 DEF RoomBecomes, Room
  <2>3. CASE ~(o.m = sup.m /\ o.c = Here)
    BY <2>1, <2>3 DEF RoomBecomes
  <2> QED BY <2>1, <2>2, <2>3
<1>10. Trainers' /\ Measuring'
  BY <1>3, <1>9 DEF Trainers, Measuring
<1> QED BY <1>1, <1>6, <1>8, <1>10 DEF QualificationIInv

-----------------------------------------------------------------------------
(* One candidate.                                                           *)

\* The places of a command that is at a candidate.
LEMMA LoopingPlaces ==
    /\ Looping = {"candidate", "launch_one", "phase_one", "journal", "resume", "launch_two",
                  "phase_two", "abort", "result", "fail", "failure"}
    /\ \A pc \in Looping : pc \notin Concluding \cup {"off"} /\ pc \in Places
  BY DEF Looping, Places, Preparing, Concluding

\* A verdict that fails is a verdict, and so is a measurement.
LEMMA Verdicts == Fails \in Results /\ \A rate \in Nat : Measured(rate) \in Results
  BY DEF Fails, Measured, Results

\* Nothing was measured, a verdict or a first phase or a journal is taken up, or
\* the directory is refused.
LEMMA CandidateStep ==
    ASSUME QualificationIInv, RecordFailure \/ ReuseResult \/ ReuseJournal \/ BeginPhaseOne \/ RefuseCandidate
    PROVE  QualificationIInv'
<1>1. /\ sup.pc = "candidate" /\ UNCHANGED <<plan, summary, root, inputs, boot, orphans, train>>
  BY DEF RecordFailure, ReuseResult, ReuseJournal, BeginPhaseOne, RefuseCandidate, pod
<1>2. sup.pc \in Looping /\ sup.pc \notin Concluding \cup {"off"} /\ ~train.alive
  BY <1>1, LoopingPlaces, NoTrainer
<1>3. /\ sup.m \in Modes /\ Here \in Names /\ Room \in Rooms /\ Coherent(sup.m, Room)
      /\ plan[sup.m] # Absent
  BY <1>2, HereFacts
<1>4. RoomBecomes(sup.m, Here, Room) /\ Grows(Room, Room)
  BY <1>1, <1>2, <1>3, WriteBecomes DEF Grows
<1>5. train' \in Torchruns /\ ~train'.alive /\ inputs' \in Generations /\ boot' \in Nat
  BY <1>1, <1>2 DEF QualificationIInv, QualificationTypeOK
<1>6. CASE Exit
  BY <1>1, <1>2, <1>3, <1>4, <1>5, <1>6, HereExit
<1>7. CASE Fail
  BY <1>1, <1>2, <1>3, <1>4, <1>5, <1>7, FailStep
<1>8. /\ Room.failure \in Files({"failed"}) /\ Room.result \in Files(Results)
      /\ Room.journal \in Files(Journals)
  BY <1>3 DEF Rooms
<1>9. CASE RecordFailure /\ ~Exit
  <2>1. Room.failure # Absent /\ Record(Fails)
    BY <1>9 DEF RecordFailure, Condemned
  <2> QED BY <1>1, <1>2, <1>3, <1>4, <1>5, <2>1, Verdicts, RecordStep DEF Entry
<1>10. CASE ReuseResult
  <2>1. Record(Room.result.v) /\ IsSealed(Room.result)
    BY <1>10 DEF ReuseResult, Reusable
  <2>2. Room.result # Absent /\ Room.result.v \in Results
    BY <1>8, <2>1, FileFacts
  <2> QED BY <1>1, <1>2, <1>3, <1>4, <1>5, <2>1, <2>2, RecordStep DEF Entry
<1>11. CASE ReuseJournal
  <2>1. /\ sup' = [sup EXCEPT !.pc = "resume", !.seen = Room.journal.v.seen]
        /\ Room.result = Absent /\ IsSealed(Room.journal) /\ Room.journal.v.boot = boot
        /\ Room.last = Room.journal.v.save
    BY <1>11 DEF ReuseJournal, Resumable, JournalHolds
  <2>2. Room.journal.v.seen \in Nat
    BY <1>3, <2>1, RoomFacts
  <2>3. Proceeds /\ sup'.pc = "resume"
    BY <2>1, <2>2, ToProceeds, LoopingPlaces
  <2>4. HereKept(Room)
    BY <1>1, <1>2, <1>3, <1>4, <1>5, <2>3, HereStep
  <2>5. Trainers'
    BY <1>5, <2>3, <2>4 DEF Trainers, HereKept
  <2>6. Measuring'
    BY <1>1, <2>1, <2>3, <2>4 DEF Measuring, Resumed, HereKept
  <2> QED BY <2>4, <2>5, <2>6 DEF QualificationIInv, HereKept
<1>12. CASE BeginPhaseOne
  <2>1. To("launch_one") /\ ~Room.log1
    BY <1>12 DEF BeginPhaseOne, Untouched
  <2>2. Proceeds /\ sup'.pc = "launch_one"
    BY <2>1, ToProceeds, LoopingPlaces DEF To, QualificationIInv, QualificationTypeOK
  <2>3. HereKept(Room)
    BY <1>1, <1>2, <1>3, <1>4, <1>5, <2>2, HereStep
  <2>4. Trainers'
    BY <1>5, <2>2, <2>3 DEF Trainers, HereKept
  <2>5. Measuring'
    BY <2>1, <2>2, <2>3 DEF Measuring, HereKept
  <2> QED BY <2>3, <2>4, <2>5 DEF QualificationIInv, HereKept
<1> QED BY <1>6, <1>7, <1>9, <1>10, <1>11, <1>12 DEF RefuseCandidate

-----------------------------------------------------------------------------
(* The two phases.                                                          *)

(* The same logs, checkpoints and evidence.                                *)
Alike(d, e) ==
    /\ e.log1 = d.log1 /\ e.log2 = d.log2 /\ e.last = d.last /\ e.prev = d.prev
    /\ e.journal = d.journal /\ e.result = d.result /\ e.failure = d.failure

\* What is alike is as coherent, and as tainted.
LEMMA AlikeFacts ==
    ASSUME NEW d, NEW e, Alike(d, e)
    PROVE  /\ Grows(d, e) /\ (Tainted(d) <=> Tainted(e))
           /\ \A m \in Modes : Coherent(m, d) => Coherent(m, e)
<1>1. Grows(d, e) /\ (Tainted(d) <=> Tainted(e))
  BY DEF Alike, Grows, Tainted
<1>2. ASSUME NEW m \in Modes, Coherent(m, d) PROVE Coherent(m, e)
  BY <1>2 DEF Alike, Coherent
<1> QED BY <1>1, <1>2

\* The stop request is no evidence.
LEMMA StopWrites ==
    ASSUME NEW d \in Rooms, NEW b \in BOOLEAN
    PROVE  [d EXCEPT !.stop = b] \in Rooms /\ Alike(d, [d EXCEPT !.stop = b])
  BY DEF Rooms, Alike

\* A torchrun starts in the command's directory, from a checkpoint.
LEMMA TorchrunFacts ==
    ASSUME QualificationIInv, sup.pc \in Looping, NEW from \in Checkpoints
    PROVE  /\ Torchrun(from) \in Torchruns
           /\ Torchrun(from).m = sup.m /\ Torchrun(from).c = Here
           /\ Torchrun(from).end \in {"none", "crash"}
           /\ Torchrun(from).alive => Torchrun(from).end = "none"
<1> DEFINE compatible == orders[sup.m][Here] = inputs /\ (from = NoSave \/ from.inputs = inputs)
<1>1. sup.m \in Modes /\ Here \in Names /\ inputs \in Generations /\ from.step \in Nat
        /\ compatible \in BOOLEAN
  BY HereFacts, LoopingPlaces DEF QualificationIInv, QualificationTypeOK, Checkpoints
<1>2. Torchrun(from) = [alive |-> compatible, m |-> sup.m, c |-> Here, step |-> from.step,
                        inputs |-> inputs, end |-> IF compatible THEN "none" ELSE "crash"]
  BY DEF Torchrun
<1> HIDE DEF compatible
<1> QED BY <1>1, <1>2 DEF Torchruns

\* The first phase starts where nothing was logged.
LEMMA LaunchPhaseOneStep == ASSUME QualificationIInv, LaunchPhaseOne PROVE QualificationIInv'
<1> DEFINE d == [Room EXCEPT !.log1 = TRUE]
<1>1. /\ sup.pc = "launch_one" /\ To("phase_one") /\ Write(d) /\ train' = Torchrun(NoSave)
      /\ UNCHANGED <<inputs, boot, plan, summary, orphans>>
  BY DEF LaunchPhaseOne, pod
<1>2. sup.pc \in Looping /\ sup.pc \notin Concluding \cup {"off"}
  BY <1>1, LoopingPlaces
<1>3. sup.m \in Modes /\ Here \in Names /\ Room \in Rooms /\ Coherent(sup.m, Room)
  BY <1>2, HereFacts
<1>4. ~Room.log1 /\ Room.journal = Absent /\ ~Room.log2 /\ Room.result = Absent
  <2>1. ~Room.log1 /\ Room.journal = Absent
    BY <1>1, <1>3 DEF QualificationIInv, Measuring, Coherent
  <2> QED BY <1>3, <2>1, RoomFacts DEF Coherent
<1>5. /\ d \in Rooms /\ d.log1 /\ d.journal = Absent /\ ~d.log2 /\ d.result = Absent
      /\ d.failure = Room.failure
  BY <1>3, <1>4 DEF Rooms
<1> HIDE DEF d
<1>6. RoomBecomes(sup.m, Here, d)
  BY <1>1, <1>2, <1>5, WriteBecomes
<1>7. Grows(Room, d) /\ Coherent(sup.m, d) /\ (Tainted(Room) => Tainted(d)) /\ Tainted(d)
  BY <1>4, <1>5 DEF Grows, Coherent, Tainted
<1>8. Proceeds /\ sup'.pc = "phase_one"
  BY <1>1, ToProceeds, LoopingPlaces DEF To, QualificationIInv, QualificationTypeOK
<1>9. NoSave \in Checkpoints
  BY DEF NoSave, Checkpoints
<1>10. /\ train' \in Torchruns /\ train'.m = sup.m /\ train'.c = Here /\ train'.end # "graceful"
       /\ train'.alive => train'.end = "none"
       /\ inputs' \in Generations /\ boot' \in Nat
  BY <1>1, <1>2, <1>9, TorchrunFacts DEF QualificationIInv, QualificationTypeOK
<1>11. HereKept(d)
  BY <1>1, <1>2, <1>5, <1>6, <1>7, <1>8, <1>10, HereStep
<1>12. \A o \in orphans' : ~(o.m = sup'.m /\ o.c = Here')
  <2>1. ASSUME NEW o \in orphans PROVE ~(o.m = sup.m /\ o.c = Here)
    BY <1>4 DEF QualificationIInv, Trainers, Tainted, Room
  <2> QED BY <1>1, <1>8, <1>11, <2>1 DEF Proceeds, HereKept
<1>13. Trainers'
  BY <1>7, <1>8, <1>10, <1>11, <1>12 DEF Trainers, HereKept, Proceeds
<1>14. Measuring'
  BY <1>5, <1>7, <1>8, <1>10, <1>11 DEF Measuring, HereKept
<1> QED BY <1>11, <1>13, <1>14 DEF QualificationIInv, HereKept

\* Before the second phase: the stop request goes, and what is of an earlier second
\* phase ends it.
LEMMA ResumeStep == ASSUME QualificationIInv, Resume PROVE QualificationIInv'
<1>1. sup.pc = "resume" /\ UNCHANGED <<inputs, boot, plan, summary, orphans, train>>
  BY DEF Resume, pod
<1>2. sup.pc \in Looping /\ sup.pc \notin Concluding \cup {"off"} /\ ~train.alive
  BY <1>1, LoopingPlaces, NoTrainer
<1>3. sup.m \in Modes /\ Here \in Names /\ Room \in Rooms /\ Coherent(sup.m, Room)
  BY <1>2, HereFacts
<1>4. train' \in Torchruns /\ ~train'.alive /\ inputs' \in Generations /\ boot' \in Nat
  BY <1>1, <1>2 DEF QualificationIInv, QualificationTypeOK
<1>5. PICK d \in Rooms :
        /\ Alike(Room, d)
        /\ \/ Write(d)
           \/ UNCHANGED root /\ d = Room
        /\ \/ Fail
           \/ To("launch_two") /\ ~Room.log2
  <2>1. CASE ~Looks
    BY <1>3, <2>1 DEF Resume, Alike
  <2>2. CASE Looks
    <3>1. [Room EXCEPT !.stop = FALSE] \in Rooms /\ Alike(Room, [Room EXCEPT !.stop = FALSE])
      BY <1>3, StopWrites
    <3> QED BY <2>2, <3>1 DEF Resume
  <2> QED BY <2>1, <2>2
<1>6. RoomBecomes(sup.m, Here, d)
  BY <1>1, <1>2, <1>5, WriteBecomes
<1>7. Grows(Room, d) /\ Coherent(sup.m, d) /\ (Tainted(Room) <=> Tainted(d))
  BY <1>3, <1>5, AlikeFacts
<1>8. CASE Fail
  BY <1>1, <1>2, <1>4, <1>6, <1>7, <1>8, FailStep
<1>9. CASE To("launch_two") /\ ~Room.log2
  <2>1. Proceeds /\ sup'.pc = "launch_two"
    BY <1>9, ToProceeds, LoopingPlaces DEF To, QualificationIInv, QualificationTypeOK
  <2>2. HereKept(d)
    BY <1>1, <1>2, <1>4, <1>6, <1>7, <2>1, HereStep
  <2>3. Trainers'
    BY <1>4, <2>1, <2>2 DEF Trainers, HereKept
  <2>4. Resumed /\ Room.last = Room.journal.v.save
    BY <1>1, <1>9 DEF QualificationIInv, Measuring
  <2>5. Measuring'
    BY <1>1, <1>5, <1>9, <2>1, <2>2, <2>4 DEF Measuring, HereKept, Resumed, Alike
  <2> QED BY <2>2, <2>3, <2>5 DEF QualificationIInv, HereKept
<1> QED BY <1>5, <1>8, <1>9

\* The second phase starts from the first's checkpoint, beside nobody.
LEMMA LaunchPhaseTwoStep == ASSUME QualificationIInv, LaunchPhaseTwo PROVE QualificationIInv'
<1> DEFINE d == [Room EXCEPT !.log2 = TRUE]
<1>1. /\ sup.pc = "launch_two" /\ sup' = [sup EXCEPT !.pc = "phase_two", !.asked = FALSE]
      /\ Write(d) /\ train' = Torchrun(Room.last)
      /\ UNCHANGED <<inputs, boot, plan, summary, orphans>>
  BY DEF LaunchPhaseTwo, pod
<1>2. sup.pc \in Looping /\ sup.pc \notin Concluding \cup {"off"}
  BY <1>1, LoopingPlaces
<1>3. sup.m \in Modes /\ Here \in Names /\ Room \in Rooms /\ Coherent(sup.m, Room)
  BY <1>2, HereFacts
<1>4. /\ IsSealed(Room.journal) /\ Room.journal # Absent /\ Room.result = Absent /\ ~Room.log2
      /\ Room.journal.v.boot = boot /\ Room.last = Room.journal.v.save /\ Room.log1
  <2>1. /\ IsSealed(Room.journal) /\ Room.result = Absent /\ ~Room.log2
        /\ Room.journal.v.boot = boot /\ Room.last = Room.journal.v.save
    BY <1>1 DEF QualificationIInv, Measuring, Resumed
  <2> QED BY <1>3, <2>1, RoomFacts DEF Coherent
<1>5. /\ d \in Rooms /\ d.log2 /\ d.log1 = Room.log1 /\ d.last = Room.last /\ d.prev = Room.prev
      /\ d.journal = Room.journal /\ d.result = Room.result /\ d.failure = Room.failure
  BY <1>3 DEF Rooms
<1> HIDE DEF d
<1>6. RoomBecomes(sup.m, Here, d)
  BY <1>1, <1>2, <1>5, WriteBecomes
<1>7. Grows(Room, d) /\ Coherent(sup.m, d) /\ Tainted(d)
  BY <1>3, <1>4, <1>5 DEF Grows, Coherent, Tainted
<1>8. Proceeds /\ sup'.pc = "phase_two"
  BY <1>1, ToProceeds, LoopingPlaces
<1>9. Room.last \in Checkpoints
  BY <1>3, RoomFacts
<1>10. /\ train' \in Torchruns /\ train'.m = sup.m /\ train'.c = Here /\ train'.end # "graceful"
       /\ train'.alive => train'.end = "none"
       /\ inputs' \in Generations /\ boot' \in Nat
  BY <1>1, <1>2, <1>9, TorchrunFacts DEF QualificationIInv, QualificationTypeOK
<1>11. ASSUME NEW o \in orphans PROVE ~(o.m = sup.m /\ o.c = Here)
  BY <1>4 DEF QualificationIInv, Trainers, Tainted, Room
<1>12. HereKept(d)
  BY <1>1, <1>2, <1>5, <1>6, <1>7, <1>8, <1>10, <1>11, HereStep
<1>13. \A o \in orphans' : ~(o.m = sup'.m /\ o.c = Here')
  BY <1>1, <1>8, <1>11, <1>12 DEF Proceeds, HereKept
<1>14. Trainers'
  BY <1>7, <1>8, <1>10, <1>12, <1>13 DEF Trainers, HereKept, Proceeds
<1>15. Measuring'
  <2>1. boot' = boot /\ Room' = d /\ sup'.pc = "phase_two" /\ train'.end # "graceful"
    BY <1>1, <1>8, <1>10, <1>12 DEF HereKept
  <2> QED BY <1>4, <1>5, <2>1 DEF Measuring, Resumed
<1> QED BY <1>12, <1>14, <1>15 DEF QualificationIInv, HereKept

\* What a supervisor sees of its trainer, at most a stop request comes of it.
LEMMA ObserveStep == ASSUME QualificationIInv, Observe PROVE QualificationIInv'
<1>1. /\ sup.pc \in {"phase_one", "phase_two"} /\ train.alive
      /\ UNCHANGED <<inputs, boot, plan, summary, orphans, train>>
  BY DEF Observe, Watching, pod
<1>2. sup.pc \in Looping /\ sup.pc \notin Concluding \cup {"off"}
  BY <1>1, LoopingPlaces
<1>3. sup.m \in Modes /\ Here \in Names /\ Room \in Rooms /\ Coherent(sup.m, Room)
  BY <1>2, HereFacts
<1>4. train \in Torchruns /\ train.step \in Nat /\ inputs' \in Generations /\ boot' \in Nat
  BY <1>1 DEF QualificationIInv, QualificationTypeOK, Torchruns
<1>5. PICK d \in Rooms :
        /\ Alike(Room, d)
        /\ \/ Write(d)
           \/ UNCHANGED root /\ d = Room
  <2>1. [Room EXCEPT !.stop = TRUE] \in Rooms /\ Alike(Room, [Room EXCEPT !.stop = TRUE])
    BY <1>3, StopWrites
  <2>2. Alike(Room, Room)
    BY DEF Alike
  <2>3. Write([Room EXCEPT !.stop = TRUE]) \/ UNCHANGED root
    BY DEF Observe
  <2> QED BY <1>3, <2>1, <2>2, <2>3
<1>6. RoomBecomes(sup.m, Here, d)
  BY <1>1, <1>2, <1>5, WriteBecomes
<1>7. Grows(Room, d) /\ Coherent(sup.m, d) /\ (Tainted(Room) <=> Tainted(d))
  BY <1>3, <1>5, AlikeFacts
<1>8. Proceeds /\ sup'.pc = sup.pc
  <2> DEFINE asked == sup.asked \/ (train.step >= Target /\ ~sup.asked)
  <2>1. sup' = [sup EXCEPT !.seen = train.step, !.asked = asked]
    BY DEF Observe
  <2>2. asked \in BOOLEAN
    BY DEF QualificationIInv, QualificationTypeOK
  <2> HIDE DEF asked
  <2> QED BY <1>2, <1>4, <2>1, <2>2, ToProceeds
<1>9. HereKept(d)
  BY <1>1, <1>2, <1>4, <1>6, <1>7, <1>8, HereStep
<1>10. Trainers'
  BY <1>1, <1>7, <1>8, <1>9 DEF QualificationIInv, Trainers, HereKept, Proceeds
<1>11. Measuring'
  <2>1. boot' = boot /\ Room' = d /\ sup'.pc = sup.pc /\ train' = train
    BY <1>1, <1>8, <1>9 DEF HereKept
  <2> QED BY <1>1, <1>5, <1>7, <2>1 DEF QualificationIInv, Measuring, Resumed, Alike
<1> QED BY <1>9, <1>10, <1>11 DEF QualificationIInv, HereKept

\* The watch fails and its trainer is stopped.
LEMMA WatchFailsStep == ASSUME QualificationIInv, WatchFails PROVE QualificationIInv'
<1> DEFINE d == [Room EXCEPT !.stop = TRUE]
<1>1. /\ sup.pc \in {"phase_one", "phase_two"} /\ train.alive /\ Write(d) /\ To("abort")
      /\ UNCHANGED <<inputs, boot, plan, summary, orphans, train>>
  BY DEF WatchFails, Watching
<1>2. sup.pc \in Looping /\ sup.pc \notin Concluding \cup {"off"}
  BY <1>1, LoopingPlaces
<1>3. sup.m \in Modes /\ Here \in Names /\ Room \in Rooms /\ Coherent(sup.m, Room)
  BY <1>2, HereFacts
<1>4. train \in Torchruns /\ inputs' \in Generations /\ boot' \in Nat
  BY <1>1 DEF QualificationIInv, QualificationTypeOK
<1>5. d \in Rooms /\ Alike(Room, d)
  BY <1>3, StopWrites
<1> HIDE DEF d
<1>6. RoomBecomes(sup.m, Here, d)
  BY <1>1, <1>2, <1>5, WriteBecomes
<1>7. Grows(Room, d) /\ Coherent(sup.m, d) /\ (Tainted(Room) <=> Tainted(d))
  BY <1>3, <1>5, AlikeFacts
<1>8. Proceeds /\ sup'.pc = "abort"
  BY <1>1, ToProceeds, LoopingPlaces DEF To, QualificationIInv, QualificationTypeOK
<1>9. HereKept(d)
  BY <1>1, <1>2, <1>4, <1>5, <1>6, <1>7, <1>8, HereStep
<1>10. Trainers'
  BY <1>1, <1>7, <1>8, <1>9 DEF QualificationIInv, Trainers, HereKept, Proceeds
<1>11. Measuring'
  BY <1>8 DEF Measuring
<1> QED BY <1>9, <1>10, <1>11 DEF QualificationIInv, HereKept

\* A stopped trainer fails its candidate.
LEMMA AbortStep == ASSUME QualificationIInv, Abort PROVE QualificationIInv'
<1>1. /\ sup.pc = "abort" /\ Fail /\ UNCHANGED <<inputs, boot, plan, summary, orphans, root>>
      /\ train' = [train EXCEPT !.alive = FALSE, !.end = "crash"]
  BY DEF Abort, pod
<1>2. sup.pc \in Looping /\ sup.pc \notin Concluding \cup {"off"}
  BY <1>1, LoopingPlaces
<1>3. sup.m \in Modes /\ Here \in Names /\ Room \in Rooms /\ Coherent(sup.m, Room)
  BY <1>2, HereFacts
<1>4. train' \in Torchruns /\ ~train'.alive
  BY <1>1 DEF QualificationIInv, QualificationTypeOK, Torchruns
<1>5. RoomBecomes(sup.m, Here, Room) /\ Grows(Room, Room)
  BY <1>1, <1>2, <1>3, WriteBecomes DEF Grows
<1> QED BY <1>1, <1>2, <1>3, <1>4, <1>5, FailStep

-----------------------------------------------------------------------------
(* What a phase and a candidate end in.                                     *)

\* No torchrun.
LEMMA IdleFacts == Idle \in Torchruns /\ ~Idle.alive /\ Idle.end = "none"
  BY DEF Idle, Torchruns

\* The first phase ends in a journal of its only checkpoint.
LEMMA PhaseOneEndsStep == ASSUME QualificationIInv, PhaseOneEnds PROVE QualificationIInv'
<1>1. /\ sup.pc = "phase_one" /\ ~train.alive /\ train' = Idle
      /\ UNCHANGED <<inputs, boot, plan, summary, orphans>>
  BY DEF PhaseOneEnds, Clean, pod
<1>2. sup.pc \in Looping /\ sup.pc \notin Concluding \cup {"off"}
  BY <1>1, LoopingPlaces
<1>3. sup.m \in Modes /\ Here \in Names /\ Room \in Rooms /\ Coherent(sup.m, Room)
  BY <1>2, HereFacts
<1>4. /\ train.step \in Nat /\ inputs' \in Generations /\ boot \in Nat /\ boot' \in Nat
      /\ train' \in Torchruns /\ ~train'.alive
  BY <1>1, IdleFacts DEF QualificationIInv, QualificationTypeOK, Torchruns
<1>5. \A o \in orphans : ~(o.m = sup.m /\ o.c = Here)
  BY <1>1 DEF QualificationIInv, Trainers
<1>6. CASE Fail /\ UNCHANGED root
  <2>1. RoomBecomes(sup.m, Here, Room) /\ Grows(Room, Room)
    BY <1>1, <1>2, <1>3, <1>6, WriteBecomes DEF Grows
  <2> QED BY <1>1, <1>2, <1>3, <1>4, <1>6, <2>1, FailStep
<1>7. CASE ~(Fail /\ UNCHANGED root)
  <2> DEFINE j == [seen |-> train.step, save |-> Room.last, boot |-> boot]
             d == [Room EXCEPT !.journal = Bare(j)]
  <2>1. /\ train.end = "graceful" /\ train.step > Warmup /\ Write(d)
        /\ sup' = [sup EXCEPT !.pc = "journal", !.seen = train.step]
    BY <1>7 DEF PhaseOneEnds, Graceful
  <2>2. /\ Room.last \in Checkpoints /\ Room.last.step = train.step /\ Room.last.boot = boot
        /\ Room.log1 /\ ~Room.log2 /\ Room.journal = Absent /\ Room.result = Absent
    BY <1>1, <1>3, <2>1, RoomFacts DEF QualificationIInv, Measuring, Tainted
  <2>3. j \in Journals /\ Bare(j) \in Files(Journals) /\ Bare(j) # Absent
        /\ Bare(j).v = j /\ Bare(j).at = "bare"
    <3>1. j \in Journals
      BY <1>4, <2>2 DEF Journals
    <3> QED BY <3>1 DEF Files, Bare, Absent
  <2>4. j.seen = train.step /\ j.save = Room.last /\ j.boot = boot
    OBVIOUS
  <2> HIDE DEF j
  <2>5. /\ d \in Rooms /\ d.journal = Bare(j) /\ d.log1 /\ ~d.log2 /\ d.result = Absent
        /\ d.failure = Room.failure /\ d.last = Room.last
    BY <1>3, <2>2, <2>3 DEF Rooms
  <2> HIDE DEF d
  <2>6. RoomBecomes(sup.m, Here, d)
    BY <1>1, <1>2, <2>1, <2>5, WriteBecomes
  <2>7. Grows(Room, d) /\ Coherent(sup.m, d)
    <3>1. Grows(Room, d)
      BY <2>2, <2>5 DEF Grows
    <3>2. Warmup < d.journal.v.seen
      BY <1>4, <2>1, <2>3, <2>4, <2>5, QualificationAssumption
    <3> QED BY <2>2, <2>3, <2>4, <2>5, <3>1, <3>2 DEF Coherent
  <2>8. Proceeds /\ sup'.pc = "journal"
    BY <1>4, <2>1, ToProceeds, LoopingPlaces
  <2>9. HereKept(d)
    BY <1>1, <1>2, <1>4, <1>5, <2>5, <2>6, <2>7, <2>8, HereStep
  <2>10. Trainers'
    BY <1>4, <2>8, <2>9 DEF Trainers, HereKept
  <2>11. Measuring'
    <3>1. boot' = boot /\ Room' = d /\ sup'.pc = "journal"
      BY <1>1, <2>8, <2>9 DEF HereKept
    <3> QED BY <2>3, <2>4, <2>5, <3>1 DEF Measuring
  <2> QED BY <2>9, <2>10, <2>11 DEF QualificationIInv, HereKept
<1> QED BY <1>6, <1>7

\* The checksum of a journal.
LEMMA SealJournalStep == ASSUME QualificationIInv, SealJournal PROVE QualificationIInv'
<1> DEFINE d == [Room EXCEPT !.journal = Sealed(@.v)]
<1>1. /\ sup.pc = "journal" /\ To("resume") /\ Write(d)
      /\ UNCHANGED <<inputs, boot, plan, summary, orphans, train>>
  BY DEF SealJournal, pod
<1>2. sup.pc \in Looping /\ sup.pc \notin Concluding \cup {"off"} /\ ~train.alive
  BY <1>1, LoopingPlaces, NoTrainer
<1>3. sup.m \in Modes /\ Here \in Names /\ Room \in Rooms /\ Coherent(sup.m, Room)
  BY <1>2, HereFacts
<1>4. train' \in Torchruns /\ ~train'.alive /\ inputs' \in Generations /\ boot' \in Nat
  BY <1>1, <1>2 DEF QualificationIInv, QualificationTypeOK
<1>5. /\ Room.journal.at = "bare" /\ Room.result = Absent
      /\ Room.journal.v.boot = boot /\ Room.last = Room.journal.v.save
      /\ Room.journal # Absent /\ Room.journal.v \in Journals /\ ~Room.log2 /\ Room.log1
  <2>1. /\ Room.journal.at = "bare" /\ Room.result = Absent
        /\ Room.journal.v.boot = boot /\ Room.last = Room.journal.v.save
    BY <1>1 DEF QualificationIInv, Measuring
  <2>2. Room.journal # Absent /\ Room.journal.v \in Journals /\ ~IsSealed(Room.journal)
    BY <1>3, <2>1, RoomFacts DEF IsSealed
  <2> QED BY <1>3, <2>1, <2>2 DEF Coherent
<1>6. /\ Sealed(Room.journal.v) \in Files(Journals) /\ Sealed(Room.journal.v) # Absent
      /\ Sealed(Room.journal.v).v = Room.journal.v /\ IsSealed(Sealed(Room.journal.v))
  BY <1>5 DEF Files, Sealed, IsSealed, Absent
<1>7. /\ d \in Rooms /\ d.journal = Sealed(Room.journal.v) /\ d.log1 = Room.log1
      /\ d.log2 = Room.log2 /\ d.result = Room.result /\ d.failure = Room.failure
      /\ d.last = Room.last /\ d.prev = Room.prev
  BY <1>3, <1>6 DEF Rooms
<1> HIDE DEF d
<1>8. RoomBecomes(sup.m, Here, d)
  BY <1>1, <1>2, <1>7, WriteBecomes
<1>9. Grows(Room, d) /\ ~Tainted(Room)
  BY <1>5, <1>7 DEF Grows, Tainted
<1>10. Coherent(sup.m, d)
  BY <1>3, <1>5, <1>6, <1>7 DEF Coherent
<1>11. Proceeds /\ sup'.pc = "resume"
  BY <1>1, ToProceeds, LoopingPlaces DEF To, QualificationIInv, QualificationTypeOK
<1>12. HereKept(d)
  BY <1>1, <1>2, <1>4, <1>7, <1>8, <1>9, <1>10, <1>11, HereStep
<1>13. Trainers'
  BY <1>4, <1>11, <1>12 DEF Trainers, HereKept
<1>14. Measuring'
  <2>1. boot' = boot /\ Room' = d /\ sup'.pc = "resume"
    BY <1>1, <1>11, <1>12 DEF HereKept
  <2> QED BY <1>5, <1>6, <1>7, <2>1 DEF Measuring, Resumed
<1> QED BY <1>12, <1>13, <1>14 DEF QualificationIInv, HereKept

\* The second phase ends in a result of one continuous measurement, or in none.
LEMMA PhaseTwoEndsStep == ASSUME QualificationIInv, PhaseTwoEnds PROVE QualificationIInv'
<1>1. /\ sup.pc = "phase_two" /\ ~train.alive /\ train' = Idle
      /\ UNCHANGED <<inputs, boot, plan, summary, orphans>>
  BY DEF PhaseTwoEnds, Clean, pod
<1>2. sup.pc \in Looping /\ sup.pc \notin Concluding \cup {"off"}
  BY <1>1, LoopingPlaces
<1>3. /\ sup.m \in Modes /\ Here \in Names /\ Room \in Rooms /\ Coherent(sup.m, Room)
      /\ plan[sup.m] # Absent
  BY <1>2, HereFacts
<1>4. /\ train.step \in Nat /\ inputs' \in Generations /\ boot \in Nat /\ boot' \in Nat
      /\ train' \in Torchruns /\ ~train'.alive
  BY <1>1, IdleFacts DEF QualificationIInv, QualificationTypeOK, Torchruns
<1>5. \A o \in orphans : ~(o.m = sup.m /\ o.c = Here)
  BY <1>1 DEF QualificationIInv, Trainers
<1>6. CASE train.end # "graceful" \/ ~sup.asked
  <2>1. Fail /\ UNCHANGED root
    BY <1>6 DEF PhaseTwoEnds, Graceful
  <2>2. RoomBecomes(sup.m, Here, Room) /\ Grows(Room, Room)
    BY <1>1, <1>2, <1>3, <2>1, WriteBecomes DEF Grows
  <2> QED BY <1>1, <1>2, <1>3, <1>4, <2>1, <2>2, FailStep
<1>7. CASE train.end = "graceful" /\ sup.asked
  <2> DEFINE d == [Room EXCEPT !.stop = FALSE]
  <2>1. d \in Rooms /\ Alike(Room, d)
    BY <1>3, StopWrites
  <2>2. /\ Room.journal # Absent /\ IsSealed(Room.journal) /\ Room.result = Absent
        /\ Room.journal.v.boot = boot /\ Room.log2
        /\ Room.prev = Room.journal.v.save /\ Room.last.step = train.step
        /\ Room.last.boot = boot
    BY <1>1, <1>3, <1>7, RoomFacts DEF QualificationIInv, Measuring, Resumed
  <2>3. \/ Fail /\ Write(d)
        \/ To("fail") /\ Write(d)
        \/ /\ Continuous(Room.prev, Room.last)
           /\ \E rate \in Nat : To("result") /\ Write([d EXCEPT !.result = Bare(Measured(rate))])
    BY <1>7, QualificationAssumption DEF PhaseTwoEnds, Graceful
  <2> HIDE DEF d
  <2>4. CASE Write(d) /\ (Fail \/ To("fail"))
    <3>1. RoomBecomes(sup.m, Here, d)
      BY <1>1, <1>2, <2>1, <2>4, WriteBecomes
    <3>2. Grows(Room, d) /\ Coherent(sup.m, d) /\ (Tainted(Room) <=> Tainted(d))
      BY <1>3, <2>1, AlikeFacts
    <3>3. CASE Fail
      BY <1>1, <1>2, <1>4, <2>1, <3>1, <3>2, <3>3, FailStep
    <3>4. CASE To("fail")
      <4>1. Proceeds /\ sup'.pc = "fail"
        BY <3>4, ToProceeds, LoopingPlaces DEF To, QualificationIInv, QualificationTypeOK
      <4>2. HereKept(d)
        BY <1>1, <1>2, <1>4, <2>1, <3>1, <3>2, <4>1, HereStep
      <4>3. Trainers' /\ Measuring'
        BY <1>4, <4>1, <4>2 DEF Trainers, Measuring, HereKept
      <4> QED BY <4>2, <4>3 DEF QualificationIInv, HereKept
    <3> QED BY <2>4, <3>3, <3>4
  <2>5. CASE /\ Continuous(Room.prev, Room.last)
             /\ \E rate \in Nat : To("result") /\ Write([d EXCEPT !.result = Bare(Measured(rate))])
    <3>1. PICK rate \in Nat : To("result") /\ Write([d EXCEPT !.result = Bare(Measured(rate))])
      BY <2>5
    <3> DEFINE e == [d EXCEPT !.result = Bare(Measured(rate))]
    <3>2. /\ Bare(Measured(rate)) \in Files(Results) /\ Bare(Measured(rate)) # Absent
      BY Verdicts DEF Files, Bare, Absent
    <3>3. /\ e \in Rooms /\ e.result = Bare(Measured(rate)) /\ e.log1 = Room.log1
          /\ e.log2 = Room.log2 /\ e.failure = Room.failure /\ e.last = Room.last
          /\ e.prev = Room.prev /\ e.journal = Room.journal
      BY <2>1, <3>2 DEF Rooms, Alike
    <3> HIDE DEF e
    <3>4. RoomBecomes(sup.m, Here, e)
      BY <1>1, <1>2, <3>1, <3>3, WriteBecomes DEF e
    <3>5. Grows(Room, e)
      BY <2>2, <3>3 DEF Grows
    <3>6. /\ Room.prev.inputs = plan[sup.m].v.inputs /\ Room.last.inputs = plan[sup.m].v.inputs
          /\ Room.prev.step < Room.last.step /\ Room.last.step - Warmup >= MinimumSoak
      BY <2>5 DEF Continuous, Planned
    <3>7. Coherent(sup.m, e)
      BY <1>3, <2>2, <3>2, <3>3, <3>6 DEF Coherent
    <3>8. Proceeds /\ sup'.pc = "result"
      BY <3>1, ToProceeds, LoopingPlaces DEF To, QualificationIInv, QualificationTypeOK
    <3>9. HereKept(e)
      BY <1>1, <1>2, <1>4, <1>5, <3>3, <3>4, <3>5, <3>7, <3>8, HereStep
    <3>10. Trainers' /\ Measuring'
      BY <1>4, <3>2, <3>3, <3>8, <3>9 DEF Trainers, Measuring, HereKept
    <3> QED BY <3>9, <3>10 DEF QualificationIInv, HereKept
  <2> QED BY <2>3, <2>4, <2>5
<1> QED BY <1>6, <1>7

\* The checksum of a result, and its verdict.
LEMMA SealResultStep == ASSUME QualificationIInv, SealResult PROVE QualificationIInv'
<1> DEFINE d == [Room EXCEPT !.result = Sealed(@.v)]
<1>1. /\ sup.pc = "result" /\ Write(d) /\ Record(Room.result.v)
      /\ UNCHANGED <<inputs, boot, plan, summary, orphans, train>>
  BY DEF SealResult, pod
<1>2. sup.pc \in Looping /\ sup.pc \notin Concluding \cup {"off"} /\ ~train.alive
  BY <1>1, LoopingPlaces, NoTrainer
<1>3. sup.m \in Modes /\ Here \in Names /\ Room \in Rooms /\ Coherent(sup.m, Room)
  BY <1>2, HereFacts
<1>4. train' \in Torchruns /\ ~train'.alive
  BY <1>1, <1>2 DEF QualificationIInv, QualificationTypeOK
<1>5. Room.result # Absent /\ Room.result.v \in Results
  BY <1>1, <1>3, RoomFacts DEF QualificationIInv, Measuring
<1>6. /\ Sealed(Room.result.v) \in Files(Results) /\ Sealed(Room.result.v) # Absent
      /\ Sealed(Room.result.v).v = Room.result.v
  BY <1>5 DEF Files, Sealed, Absent
<1>7. /\ d \in Rooms /\ d.result = Sealed(Room.result.v) /\ d.log1 = Room.log1
      /\ d.log2 = Room.log2 /\ d.journal = Room.journal /\ d.failure = Room.failure
      /\ d.last = Room.last /\ d.prev = Room.prev
  BY <1>3, <1>6 DEF Rooms
<1> HIDE DEF d
<1>8. RoomBecomes(sup.m, Here, d)
  BY <1>1, <1>2, <1>7, WriteBecomes
<1>9. Grows(Room, d) /\ Entry(Room.result.v, d) /\ ~Tainted(Room)
  BY <1>5, <1>6, <1>7 DEF Grows, Entry, Tainted
<1>10. Coherent(sup.m, d)
  BY <1>3, <1>5, <1>6, <1>7 DEF Coherent
<1> QED BY <1>1, <1>2, <1>4, <1>5, <1>7, <1>8, <1>9, <1>10, RecordStep

\* A failure of a candidate, of which only the failure's file changes.
LEMMA FailureWrites ==
    ASSUME QualificationIInv, sup.pc \in Looping, NEW f \in Files({"failed"}), f # Absent,
           Write([Room EXCEPT !.failure = f]), UNCHANGED <<plan, summary>>
    PROVE  \E d \in Rooms :
              /\ d.failure = f /\ RoomBecomes(sup.m, Here, d)
              /\ Grows(Room, d) /\ Coherent(sup.m, d) /\ (Tainted(Room) <=> Tainted(d))
<1> DEFINE d == [Room EXCEPT !.failure = f]
<1>1. sup.m \in Modes /\ Here \in Names /\ Room \in Rooms /\ Coherent(sup.m, Room)
  BY HereFacts, LoopingPlaces
<1>2. /\ d \in Rooms /\ d.failure = f /\ d.log1 = Room.log1
      /\ d.log2 = Room.log2 /\ d.journal = Room.journal /\ d.result = Room.result
      /\ d.last = Room.last /\ d.prev = Room.prev
  BY <1>1 DEF Rooms
<1>3. Write(d)
  OBVIOUS
<1> HIDE DEF d
<1>4. RoomBecomes(sup.m, Here, d)
  BY <1>2, <1>3, WriteBecomes, LoopingPlaces
<1>5. Grows(Room, d) /\ (Tainted(Room) <=> Tainted(d))
  BY <1>2 DEF Grows, Tainted
<1>6. Coherent(sup.m, d)
  BY <1>1, <1>2 DEF Coherent
<1> QED BY <1>2, <1>4, <1>5, <1>6

\* A failure is published once; one without its checksum ends the command.
LEMMA PublishFailureStep == ASSUME QualificationIInv, PublishFailure PROVE QualificationIInv'
<1>1. /\ sup.pc = "fail" /\ train' = Idle
      /\ UNCHANGED <<inputs, boot, plan, summary, orphans>>
  BY DEF PublishFailure, pod
<1>2. sup.pc \in Looping /\ sup.pc \notin Concluding \cup {"off"}
  BY <1>1, LoopingPlaces
<1>3. sup.m \in Modes /\ Here \in Names /\ Room \in Rooms /\ Coherent(sup.m, Room)
  BY <1>2, HereFacts
<1>4. train' \in Torchruns /\ ~train'.alive /\ inputs' \in Generations /\ boot' \in Nat
  BY <1>1, IdleFacts DEF QualificationIInv, QualificationTypeOK
<1>5. CASE Room.failure = Absent
  <2>1. To("failure") /\ Write([Room EXCEPT !.failure = Bare("failed")])
    BY <1>1, <1>5 DEF PublishFailure
  <2>2. Bare("failed") \in Files({"failed"}) /\ Bare("failed") # Absent
    BY DEF Files, Bare, Absent
  <2>3. PICK d \in Rooms :
              /\ d.failure = Bare("failed") /\ RoomBecomes(sup.m, Here, d)
              /\ Grows(Room, d) /\ Coherent(sup.m, d) /\ (Tainted(Room) <=> Tainted(d))
    BY <1>1, <1>2, <2>1, <2>2, FailureWrites
  <2>4. Proceeds /\ sup'.pc = "failure"
    BY <2>1, ToProceeds, LoopingPlaces DEF To, QualificationIInv, QualificationTypeOK
  <2>5. HereKept(d)
    BY <1>1, <1>2, <1>4, <2>3, <2>4, HereStep
  <2>6. Trainers' /\ Measuring'
    BY <1>4, <2>2, <2>3, <2>4, <2>5 DEF Trainers, Measuring, HereKept
  <2> QED BY <2>5, <2>6 DEF QualificationIInv, HereKept
<1>6. CASE Room.failure # Absent
  <2>1. UNCHANGED root /\ (Record(Fails) \/ Exit)
    BY <1>1, <1>6 DEF PublishFailure
  <2>2. RoomBecomes(sup.m, Here, Room) /\ Grows(Room, Room)
    BY <1>1, <1>2, <1>3, <2>1, WriteBecomes DEF Grows
  <2>3. CASE Exit
    BY <1>1, <1>2, <1>3, <1>4, <2>2, <2>3, HereExit
  <2>4. CASE Record(Fails)
    BY <1>1, <1>2, <1>3, <1>4, <1>6, <2>2, <2>4, Verdicts, RecordStep DEF Entry
  <2> QED BY <2>1, <2>3, <2>4
<1> QED BY <1>5, <1>6

\* The checksum of a failure, and its verdict.
LEMMA SealFailureStep == ASSUME QualificationIInv, SealFailure PROVE QualificationIInv'
<1>1. /\ sup.pc = "failure" /\ Record(Fails)
      /\ Write([Room EXCEPT !.failure = Sealed(Room.failure.v)])
      /\ UNCHANGED <<inputs, boot, plan, summary, orphans, train>>
  BY DEF SealFailure, pod
<1>2. sup.pc \in Looping /\ sup.pc \notin Concluding \cup {"off"} /\ ~train.alive
  BY <1>1, LoopingPlaces, NoTrainer
<1>3. Room \in Rooms /\ train' \in Torchruns /\ ~train'.alive
  BY <1>1, <1>2, HereFacts DEF QualificationIInv, QualificationTypeOK
<1>4. Sealed(Room.failure.v) \in Files({"failed"}) /\ Sealed(Room.failure.v) # Absent
  <2>1. Room.failure # Absent /\ Room.failure \in Files({"failed"})
    BY <1>1, <1>3, RoomFacts DEF QualificationIInv, Measuring
  <2>2. Room.failure.v = "failed"
    BY <2>1, FileFacts
  <2> QED BY <2>2 DEF Files, Sealed, Absent
<1>5. PICK d \in Rooms :
            /\ d.failure = Sealed(Room.failure.v) /\ RoomBecomes(sup.m, Here, d)
            /\ Grows(Room, d) /\ Coherent(sup.m, d) /\ (Tainted(Room) <=> Tainted(d))
  BY <1>1, <1>2, <1>4, FailureWrites
<1> QED BY <1>1, <1>2, <1>3, <1>4, <1>5, Verdicts, RecordStep DEF Entry

-----------------------------------------------------------------------------
(* Trainers, watched and orphaned.                                          *)

\* A trainer writes its checkpoint, and the one before it stays.
LEMMA SavedFacts ==
    ASSUME NEW d \in Rooms, NEW t \in Torchruns, boot \in Nat
    PROVE  /\ Saved(d, t) \in Rooms /\ Saved(d, t).prev = d.last
           /\ Saved(d, t).last.step = t.step /\ Saved(d, t).last.boot = boot
           /\ Saved(d, t).log1 = d.log1 /\ Saved(d, t).log2 = d.log2
           /\ Saved(d, t).journal = d.journal /\ Saved(d, t).result = d.result
           /\ Saved(d, t).failure = d.failure
           /\ Grows(d, Saved(d, t)) /\ (Tainted(d) <=> Tainted(Saved(d, t)))
           /\ \A m \in Modes : Tainted(d) /\ Coherent(m, d) => Coherent(m, Saved(d, t))
<1> DEFINE p == [step |-> t.step, inputs |-> t.inputs, boot |-> boot]
           e == Saved(d, t)
<1>1. p \in Checkpoints /\ p.step = t.step /\ p.boot = boot
  BY DEF Torchruns, Checkpoints
<1>2. e = [d EXCEPT !.prev = d.last, !.last = p]
  BY DEF Saved
<1> HIDE DEF p, e
<1>3. /\ e \in Rooms /\ e.prev = d.last /\ e.last = p /\ e.log1 = d.log1 /\ e.log2 = d.log2
      /\ e.journal = d.journal /\ e.result = d.result /\ e.failure = d.failure
  BY <1>1, <1>2 DEF Rooms
<1>4. Grows(d, e) /\ (Tainted(d) <=> Tainted(e))
  BY <1>3 DEF Grows, Tainted
<1>5. ASSUME NEW m \in Modes, Tainted(d), Coherent(m, d) PROVE Coherent(m, e)
  BY <1>3, <1>5 DEF Coherent, Tainted
<1> QED BY <1>1, <1>3, <1>4, <1>5 DEF e

\* A trainer makes a step, or is killed: nobody sees it yet.
LEMMA TrainerStepStep == ASSUME QualificationIInv, TrainerStep \/ KillTrainer PROVE QualificationIInv'
<1>1. /\ train.alive /\ UNCHANGED <<inputs, boot, plan, summary, orphans, root, sup>>
      /\ \/ train' = [train EXCEPT !.step = @ + 1]
         \/ train' = [train EXCEPT !.alive = FALSE, !.end = "crash"]
  BY DEF TrainerStep, KillTrainer, pod
<1>2. /\ train \in Torchruns /\ sup.pc \in {"phase_one", "phase_two", "abort"}
      /\ train.end = "none" /\ inputs' \in Generations /\ boot' \in Nat
  BY <1>1 DEF QualificationIInv, QualificationTypeOK, Trainers
<1>3. sup.pc \in Looping /\ sup.pc \notin Concluding \cup {"off"}
  BY <1>2, LoopingPlaces
<1>4. sup.m \in Modes /\ Here \in Names /\ Room \in Rooms /\ Coherent(sup.m, Room)
  BY <1>3, HereFacts
<1>5. /\ train' \in Torchruns /\ train'.end # "graceful" /\ train'.m = train.m /\ train'.c = train.c
      /\ train'.alive => train'.end = "none"
  <2> DEFINE n == train.step + 1
  <2>1. n \in Nat
    BY <1>2 DEF Torchruns
  <2>2. train' = [train EXCEPT !.step = n] \/ train' = [train EXCEPT !.alive = FALSE, !.end = "crash"]
    BY <1>1
  <2> HIDE DEF n
  <2> QED BY <1>2, <2>1, <2>2 DEF Torchruns
<1>6. RoomBecomes(sup.m, Here, Room) /\ Grows(Room, Room)
  BY <1>1, <1>3, <1>4, WriteBecomes DEF Grows
<1>7. Proceeds /\ sup' = sup
  BY <1>1, <1>3 DEF Proceeds, QualificationIInv, QualificationTypeOK
<1>8. HereKept(Room)
  BY <1>1, <1>2, <1>3, <1>4, <1>5, <1>6, <1>7, HereStep
<1>9. Trainers'
  BY <1>1, <1>2, <1>5, <1>7, <1>8 DEF QualificationIInv, Trainers, HereKept
<1>10. Measuring'
  BY <1>1, <1>2, <1>5, <1>7, <1>8 DEF QualificationIInv, Measuring, Resumed, HereKept
<1> QED BY <1>8, <1>9, <1>10 DEF QualificationIInv, HereKept

\* A trainer that stops in good order has saved where it stopped.
LEMMA TrainerEndsStep == ASSUME QualificationIInv, TrainerEnds PROVE QualificationIInv'
<1> DEFINE d == Saved(Room, train)
<1>1. /\ train.alive /\ UNCHANGED <<inputs, boot, plan, summary, orphans, sup>>
      /\ root' = [root EXCEPT ![train.m][train.c] = Saved(@, train)]
  BY DEF TrainerEnds, pod
<1>2. /\ train \in Torchruns /\ sup.pc \in {"phase_one", "phase_two", "abort"}
      /\ train.m = sup.m /\ train.c = Here /\ Tainted(Room)
      /\ inputs' \in Generations /\ boot \in Nat /\ boot' \in Nat
  BY <1>1 DEF QualificationIInv, QualificationTypeOK, Trainers
<1>3. sup.pc \in Looping /\ sup.pc \notin Concluding \cup {"off"}
  BY <1>2, LoopingPlaces
<1>4. sup.m \in Modes /\ Here \in Names /\ Room \in Rooms /\ Coherent(sup.m, Room)
  BY <1>3, HereFacts
<1>5. Write(d)
  BY <1>1, <1>2 DEF Write, Room
<1>6. /\ train' \in Torchruns /\ ~train'.alive /\ train'.step = train.step
  <2>1. PICK end \in {"graceful", "complete"} : train' = [train EXCEPT !.alive = FALSE, !.end = end]
    BY DEF TrainerEnds
  <2> QED BY <1>2, <2>1 DEF Torchruns
<1>7. /\ d \in Rooms /\ d.prev = Room.last /\ d.last.step = train.step /\ d.last.boot = boot
      /\ d.log1 = Room.log1 /\ d.log2 = Room.log2 /\ d.journal = Room.journal
      /\ d.result = Room.result /\ d.failure = Room.failure
      /\ Grows(Room, d) /\ Tainted(d) /\ Coherent(sup.m, d)
  BY <1>2, <1>4, SavedFacts
<1> HIDE DEF d
<1>8. RoomBecomes(sup.m, Here, d)
  BY <1>1, <1>3, <1>5, <1>7, WriteBecomes
<1>9. Proceeds /\ sup' = sup
  BY <1>1, <1>3 DEF Proceeds, QualificationIInv, QualificationTypeOK
<1>10. HereKept(d)
  BY <1>1, <1>2, <1>3, <1>6, <1>7, <1>8, <1>9, HereStep
<1>11. Trainers'
  BY <1>1, <1>6, <1>9, <1>10 DEF QualificationIInv, Trainers, HereKept
<1>12. Measuring'
  <2>1. boot' = boot /\ Room' = d /\ sup'.pc = sup.pc
    BY <1>1, <1>10 DEF HereKept
  <2> QED BY <1>1, <1>2, <1>6, <1>7, <2>1 DEF QualificationIInv, Measuring, Resumed
<1> QED BY <1>10, <1>11, <1>12 DEF QualificationIInv, HereKept

-----------------------------------------------------------------------------
(* Steps a command does not make.                                           *)

\* What was recorded of the candidates stays true while evidence only grows.
LEMMA RecordedKept ==
    ASSUME QualificationIInv, UNCHANGED <<sup, plan, summary>>,
           \A k \in Modes : \A e \in Names : Grows(root[k][e], root'[k][e])
    PROVE  Commanded' /\ Roster' = Roster
<1>1. Roster' = Roster
  BY DEF Roster
<1>2. CASE sup.pc = "off"
  BY <1>1, <1>2 DEF Commanded
<1>3. CASE sup.pc # "off"
  <2>1. /\ sup.m \in Modes /\ plan[sup.m] # Absent /\ Entries(sup.rec, sup.m)
        /\ Len(Roster) \in Nat /\ sup.i \in Nat
    BY <1>3, HereIsNamed DEF QualificationIInv, Commanded, Roster, QualificationTypeOK
  <2>2. Len(sup.rec) <= Len(Roster) /\ Len(sup.rec) \in Nat
    <3>1. CASE sup.pc \in Preparing
      BY <2>1, <3>1, <1>3 DEF QualificationIInv, Commanded
    <3>2. CASE sup.pc \notin Preparing
      BY <2>1, <3>2, <1>3 DEF QualificationIInv, Commanded
    <3> QED BY <3>1, <3>2
  <2>3. \A k \in 1..Len(sup.rec) : k \in 1..Len(plan[sup.m].v.roster)
    BY <2>1, <2>2 DEF Roster
  <2>4. \A k \in 1..Len(sup.rec) : Entry(sup.rec[k], root'[sup.m][plan'[sup.m].v.roster[k]])
    BY <2>1, <2>3, EntriesKept DEF QualificationIInv
  <2>5. Entries(sup.rec, sup.m)'
    BY <2>4 DEF Entries
  <2> QED BY <1>1, <1>3, <2>5 DEF QualificationIInv, Commanded
<1> QED BY <1>1, <1>2, <1>3

\* A torchrun without a supervisor ends, and may save, where nobody measures.
LEMMA OrphanEndsStep == ASSUME QualificationIInv, NEW o \in orphans, OrphanEnds(o) PROVE QualificationIInv'
<1>1. /\ UNCHANGED <<inputs, boot, plan, summary, train, sup>> /\ orphans' = orphans \ {o}
      /\ o.m \in Modes /\ o.c \in Names /\ o \in Torchruns /\ boot \in Nat
      /\ Tainted(root[o.m][o.c]) /\ Coherent(o.m, root[o.m][o.c]) /\ root[o.m][o.c] \in Rooms
  BY DEF OrphanEnds, pod, QualificationIInv, Trainers, QualificationTypeOK
<1>2. PICK d \in Rooms :
        /\ d = root[o.m][o.c] \/ d = Saved(root[o.m][o.c], o)
        /\ root' = [root EXCEPT ![o.m][o.c] = d]
  <2>1. root = [root EXCEPT ![o.m][o.c] = root[o.m][o.c]]
    BY <1>1 DEF QualificationIInv, QualificationTypeOK
  <2>2. Saved(root[o.m][o.c], o) \in Rooms
    BY <1>1, SavedFacts
  <2> QED BY <1>1, <2>1, <2>2 DEF OrphanEnds
<1>3. /\ Grows(root[o.m][o.c], d) /\ Tainted(d) /\ Coherent(o.m, d)
      /\ d.log1 = root[o.m][o.c].log1 /\ d.log2 = root[o.m][o.c].log2
      /\ d.journal = root[o.m][o.c].journal /\ d.result = root[o.m][o.c].result
      /\ d.failure = root[o.m][o.c].failure
  <2>1. CASE d = root[o.m][o.c]
    BY <1>1, <2>1 DEF Grows
  <2>2. CASE d = Saved(root[o.m][o.c], o)
    BY <1>1, <2>2, SavedFacts
  <2> QED BY <1>2, <2>1, <2>2
<1>4. RoomBecomes(o.m, o.c, d)
  <2>1. root \in [Modes -> [Names -> Rooms]]
    BY DEF QualificationIInv, QualificationTypeOK
  <2>2. /\ root' \in [Modes -> [Names -> Rooms]] /\ root'[o.m][o.c] = d
        /\ \A k \in Modes : \A e \in Names :
              ~(k = o.m /\ e = o.c) => root'[k][e] = root[k][e]
    BY <1>1, <1>2, <2>1
  <2> QED BY <1>1, <2>2 DEF RoomBecomes
<1>5. /\ \A k \in Modes : \A e \in Names : Grows(root[k][e], root'[k][e])
      /\ \A m \in Modes : \A c \in Names : Coherent(m, root[m][c])'
      /\ Chained' /\ Summarised'
  BY <1>1, <1>3, <1>4, RoomStep
<1>6. QualificationTypeOK'
  BY <1>1, <1>4 DEF QualificationIInv, QualificationTypeOK, RoomBecomes
<1>7. Commanded' /\ Roster' = Roster
  BY <1>1, <1>5, RecordedKept
<1>8. Here' = Here
  BY <1>1, <1>7 DEF Here
<1>9. ASSUME NEW p \in orphans'
      PROVE  p.m \in Modes /\ p.c \in Names /\ Tainted(root'[p.m][p.c])
  <2>1. p \in orphans /\ p.m \in Modes /\ p.c \in Names /\ Tainted(root[p.m][p.c])
    BY <1>1 DEF QualificationIInv, Trainers
  <2>2. CASE p.m = o.m /\ p.c = o.c
    BY <1>3, <1>4, <2>1, <2>2 DEF RoomBecomes
  <2>3. CASE ~(p.m = o.m /\ p.c = o.c)
    BY <1>4, <2>1, <2>3 DEF RoomBecomes
  <2> QED BY <2>1, <2>2, <2>3
<1>10. CASE sup.pc \notin Looping
  <2>1. sup'.pc = sup.pc /\ train' = train
    BY <1>1
  <2>2. /\ sup.pc \notin {"launch_one", "phase_one", "journal", "resume", "launch_two",
                          "phase_two", "abort", "result", "failure"}
    BY <1>10, LoopingPlaces
  <2>3. ~train.alive
    BY <2>2, NoTrainer
  <2>4. Trainers' /\ Measuring'
    BY <1>9, <2>1, <2>2, <2>3 DEF Trainers, Measuring
  <2> QED BY <1>5, <1>6, <1>7, <2>4 DEF QualificationIInv
<1>11. CASE sup.pc \in Looping
  <2>1. sup.m \in Modes /\ Here \in Names /\ Room \in Rooms /\ Coherent(sup.m, Room)
    BY <1>11, HereFacts, LoopingPlaces
  <2>2. CASE ~(sup.m = o.m /\ Here = o.c)
    <3>1. Room' = Room
      BY <1>1, <1>4, <1>8, <2>1, <2>2 DEF RoomBecomes, Room
    <3>2. Trainers'
      BY <1>1, <1>8, <1>9, <3>1 DEF QualificationIInv, Trainers
    <3>3. Measuring'
      BY <1>1, <3>1 DEF QualificationIInv, Measuring, Resumed
    <3> QED BY <1>5, <1>6, <1>7, <3>2, <3>3 DEF QualificationIInv
  <2>3. CASE sup.m = o.m /\ Here = o.c
    <3>1. /\ Room' = d /\ Tainted(Room) /\ d.log1 = Room.log1 /\ d.log2 = Room.log2
          /\ d.journal = Room.journal /\ d.result = Room.result /\ d.failure = Room.failure
      BY <1>1, <1>3, <1>4, <1>8, <2>3 DEF RoomBecomes, Room
    <3>2. sup.pc \notin {"launch_one", "phase_one", "journal", "launch_two", "phase_two", "result"}
      <4>1. sup.pc \notin {"phase_one", "phase_two"}
        BY <2>3 DEF QualificationIInv, Trainers
      <4>2. sup.pc \notin {"launch_one", "launch_two", "result"}
        BY <2>1, <3>1, RoomFacts DEF QualificationIInv, Measuring, Resumed, Tainted
      <4>3. sup.pc # "journal"
        BY <2>1, <3>1, RoomFacts DEF QualificationIInv, Measuring, Tainted, Coherent, IsSealed
      <4> QED BY <4>1, <4>2, <4>3
    <3>3. Trainers'
      BY <1>1, <1>3, <1>8, <1>9, <3>1 DEF QualificationIInv, Trainers
    <3>4. Measuring'
      <4>1. sup.pc = "resume" => Resumed /\ Room.log2
        BY <3>1 DEF QualificationIInv, Measuring, Resumed, Tainted, IsSealed, Absent
      <4> QED BY <1>1, <3>1, <3>2, <4>1 DEF QualificationIInv, Measuring, Resumed
    <3> QED BY <1>5, <1>6, <1>7, <3>3, <3>4 DEF QualificationIInv
  <2> QED BY <2>2, <2>3
<1> QED BY <1>10, <1>11

\* The supervisor dies, its torchrun goes on; the machine reboots, nothing does.
LEMMA KillStep == ASSUME QualificationIInv, KillSupervisor \/ Reboot PROVE QualificationIInv'
<1>1. /\ Exit /\ train' = Idle /\ UNCHANGED <<inputs, plan, root, summary>>
      /\ orphans' \in {orphans, {}} \/ (train.alive /\ orphans' = orphans \cup {train})
      /\ boot' \in {boot, boot + 1}
  BY DEF KillSupervisor, Reboot
<1>2. train' \in Torchruns /\ ~train'.alive /\ inputs' \in Generations /\ boot' \in Nat
  BY <1>1, IdleFacts DEF QualificationIInv, QualificationTypeOK
<1>3. orphans' \subseteq Torchruns
  BY <1>1 DEF QualificationIInv, QualificationTypeOK
<1>4. ASSUME NEW o \in orphans' PROVE o.m \in Modes /\ o.c \in Names /\ Tainted(root'[o.m][o.c])
  <2>1. CASE o \in orphans
    BY <1>1, <2>1 DEF QualificationIInv, Trainers
  <2>2. CASE o \notin orphans
    <3>1. train.alive /\ o = train
      BY <1>1, <2>2
    <3>2. sup.pc \in {"phase_one", "phase_two", "abort"} /\ o.m = sup.m /\ o.c = Here
          /\ Tainted(Room)
      BY <3>1 DEF QualificationIInv, Trainers
    <3>3. sup.m \in Modes /\ Here \in Names
      BY <3>2, HereFacts, LoopingPlaces
    <3> QED BY <1>1, <3>2, <3>3 DEF Room
  <2> QED BY <2>1, <2>2
<1>5. /\ \A k \in Modes : \A e \in Names : Grows(root[k][e], root'[k][e])
      /\ \A m \in Modes : \A c \in Names : Coherent(m, root[m][c])'
  BY <1>1 DEF QualificationIInv, Grows, Coherent
<1>6. Chained' /\ Summarised'
  BY <1>1, <1>5, SummariesKept
<1>7. /\ plan' \in [Modes -> Files([inputs : Generations, roster : Seq(Names)])]
      /\ summary' \in [Modes -> Files([rec : Seq(Results), accepted : Nat])]
      /\ root' \in [Modes -> [Names -> Rooms]]
  BY <1>1 DEF QualificationIInv, QualificationTypeOK
<1> QED BY <1>1, <1>2, <1>3, <1>4, <1>5, <1>6, <1>7, ExitStep

\* An operator replaces the inputs, puts them back, or builds the final order.
LEMMA OperatorStep == ASSUME QualificationIInv, EditInputs \/ Restore \/ BuildFinalOrder PROVE QualificationIInv'
<1>1. UNCHANGED <<boot, plan, root, summary, sup, train, orphans>>
  BY DEF EditInputs, Restore, BuildFinalOrder
<1>2. inputs' \in Generations
  <2>1. CASE EditInputs
    BY <2>1 DEF EditInputs
  <2>2. CASE Restore
    <3>1. PICK m \in Modes : plan[m] # Absent /\ inputs' = plan[m].v.inputs
      BY <2>2 DEF Restore
    <3> QED BY <3>1, HereIsNamed DEF QualificationIInv
  <2>3. CASE BuildFinalOrder
    BY <2>3 DEF BuildFinalOrder, QualificationIInv, QualificationTypeOK
  <2> QED BY <2>1, <2>2, <2>3
<1>3. QualificationTypeOK'
  BY <1>1, <1>2 DEF QualificationIInv, QualificationTypeOK
<1>4. Roster' = Roster /\ Here' = Here /\ Room' = Room
  BY <1>1 DEF Roster, Here, Room
<1>5. /\ \A k \in Modes : \A e \in Names : Grows(root[k][e], root'[k][e])
      /\ \A m \in Modes : \A c \in Names : Coherent(m, root[m][c])'
  BY <1>1 DEF QualificationIInv, Grows, Coherent
<1>6. Chained' /\ Summarised' /\ Commanded'
  BY <1>1, <1>5, SummariesKept, RecordedKept
<1>7. Trainers'
  BY <1>1, <1>4 DEF QualificationIInv, Trainers
<1>8. Measuring'
  BY <1>1, <1>4 DEF QualificationIInv, Measuring, Resumed
<1> QED BY <1>3, <1>5, <1>6, <1>7, <1>8 DEF QualificationIInv

-----------------------------------------------------------------------------
(* The command before its candidates and after them.                        *)

\* A command that is at no phase of a candidate watches no trainer and relies on no
\* directory.
LEMMA QuietStep ==
    ASSUME QualificationIInv, ~train.alive, UNCHANGED <<root, train, orphans>>,
           sup'.pc \in Preparing \cup Concluding \cup {"off", "candidate"}
    PROVE  Trainers' /\ Measuring'
<1>1. \A o \in orphans' : o.m \in Modes /\ o.c \in Names /\ Tainted(root'[o.m][o.c])
  BY DEF QualificationIInv, Trainers
<1>2. sup'.pc \notin {"launch_one", "phase_one", "journal", "resume", "launch_two",
                      "phase_two", "abort", "result", "fail", "failure"}
  BY DEF Preparing, Concluding
<1> QED BY <1>1, <1>2 DEF Trainers, Measuring

\* Plans come and are sealed, what they bind stays: evidence and receipts hold.
LEMMA PlansKept ==
    ASSUME QualificationIInv, UNCHANGED <<root, summary>>,
           \A k \in Modes : plan[k] # Absent => plan'[k] # Absent /\ plan'[k].v = plan[k].v
    PROVE  Summarised' /\ \A k \in Modes : \A c \in Names : Coherent(k, root[k][c])'
<1>1. ASSUME NEW k \in Modes, NEW c \in Names PROVE Coherent(k, root[k][c])'
  <2>1. Coherent(k, root[k][c])
    BY DEF QualificationIInv
  <2> QED BY <2>1 DEF Coherent
<1>2. ASSUME NEW m \in Modes, summary'[m] # Absent
      PROVE  LET s == summary'[m].v
             IN  /\ plan'[m] # Absent /\ Len(s.rec) = Len(plan'[m].v.roster)
                 /\ s.accepted = Fastest(s.rec)
                 /\ \A k \in 1..Len(s.rec) : Entry(s.rec[k], root'[m][plan'[m].v.roster[k]])
                 /\ m # "grid" => Passing(s.rec) = DOMAIN s.rec
  <2>1. summary[m] # Absent /\ summary'[m] = summary[m] /\ root' = root
    BY <1>2
  <2>2. plan[m] # Absent
    BY <2>1 DEF QualificationIInv, Summarised
  <2>3. plan'[m] # Absent /\ plan'[m].v = plan[m].v
    BY <2>2
  <2> QED BY <2>1, <2>3 DEF QualificationIInv, Summarised, Entries
<1> QED BY <1>1, <1>2 DEF Summarised, Entries

\* What the grid accepts is one of its candidates.
LEMMA AcceptedIsNamed ==
    ASSUME QualificationIInv, summary["grid"] # Absent, summary["grid"].v.accepted # 0
    PROVE  /\ plan["grid"] # Absent
           /\ summary["grid"].v.accepted \in DOMAIN Geometries
           /\ Geometries[summary["grid"].v.accepted] \in Names
<1> DEFINE s == summary["grid"].v
<1>1. s \in [rec : Seq(Results), accepted : Nat]
  BY FileFacts DEF QualificationIInv, QualificationTypeOK, Modes
<1>2. /\ plan["grid"] # Absent /\ Len(s.rec) = Len(plan["grid"].v.roster)
      /\ s.accepted = Fastest(s.rec)
  BY DEF QualificationIInv, Summarised, Modes
<1>3. plan["grid"].v.roster = Geometries
  BY <1>2 DEF QualificationIInv, Chained
<1>4. s.rec \in Seq(Results)
  BY <1>1
<1>5. Passing(s.rec) # {}
  BY <1>2 DEF Fastest
<1> HIDE DEF s
<1>6. s.accepted \in Passing(s.rec)
  BY <1>2, <1>4, <1>5, FastestIsBest
<1>7. s.accepted \in 1..Len(s.rec)
  BY <1>4, <1>6 DEF Passing
<1>8. DOMAIN Geometries = 1..Len(Geometries)
  BY QualificationAssumption DEF Names
<1> QED BY <1>2, <1>3, <1>7, <1>8 DEF Names, s

\* A plan that is built binds the inputs, and what the one before it bound.
LEMMA LaunchStep == ASSUME QualificationIInv, NEW m \in Modes, Launch(m) PROVE QualificationIInv'
<1> DEFINE new == NewPlan(m)
<1>1. /\ sup.pc = "off" /\ summary[m] = Absent /\ Buildable(m)
      /\ UNCHANGED <<inputs, boot, root, summary, train, orphans>>
      /\ \/ /\ plan[m] = Absent /\ plan' = [plan EXCEPT ![m] = Bare(new)]
            /\ sup' = [Off EXCEPT !.m = m, !.pc = "plan"]
         \/ /\ plan[m] = Sealed(new) /\ plan' = plan
            /\ sup' = [Off EXCEPT !.m = m, !.pc = "verify"]
  BY DEF Launch, pod, Sealed, Absent
<1>2. ~train.alive /\ inputs \in Generations
  BY <1>1, NoTrainer DEF QualificationIInv, QualificationTypeOK
<1>3. m = "final" => /\ GridHolds /\ plan["grid"] # Absent /\ summary["grid"] # Absent
                     /\ plan["grid"].v.inputs = inputs
                     /\ summary["grid"].v.accepted \in DOMAIN Geometries
                     /\ Geometries[summary["grid"].v.accepted] \in Names
  <2>1. m = "final" => GridHolds
    BY <1>1 DEF Buildable
  <2>2. m = "final" => /\ summary["grid"] # Absent /\ summary["grid"].v.accepted # 0
                       /\ plan["grid"].v.inputs = inputs
    BY <2>1 DEF GridHolds, IsSealed, Absent
  <2> QED BY <2>1, <2>2, AcceptedIsNamed
<1>4. m = "grid" => plan["baselines"] # Absent /\ plan["baselines"].v.inputs = inputs
  BY <1>1 DEF Buildable, BaselinesHold, IsSealed, Absent
<1>5. /\ new.inputs = inputs
      /\ m # "final" => new.roster = Geometries
      /\ m = "final" => new.roster = <<Geometries[summary["grid"].v.accepted]>>
  BY DEF NewPlan
<1>6. new \in [inputs : Generations, roster : Seq(Names)] /\ Len(new.roster) \in Nat \ {0}
  <2>1. new.roster \in Seq(Names) /\ Len(new.roster) \in Nat \ {0}
    <3>1. CASE m # "final"
      <4>1. Geometries \in Seq(Names) /\ Geometries # <<>>
        BY QualificationAssumption DEF Names
      <4> QED BY <1>5, <3>1, <4>1
    <3>2. CASE m = "final"
      <4> DEFINE c == Geometries[summary["grid"].v.accepted]
      <4>1. c \in Names /\ new.roster = <<c>>
        BY <1>3, <1>5, <3>2
      <4> HIDE DEF c, new
      <4>2. <<c>> \in Seq(Names) /\ Len(<<c>>) = 1
        BY <4>1
      <4> QED BY <4>1, <4>2
    <3> QED BY <3>1, <3>2
  <2>2. new = [inputs |-> new.inputs, roster |-> new.roster]
    BY DEF NewPlan
  <2> QED BY <1>2, <1>5, <2>1, <2>2
<1> HIDE DEF new
<1>7. /\ Bare(new) \in Files([inputs : Generations, roster : Seq(Names)])
      /\ Bare(new) # Absent /\ Bare(new).v = new
      /\ Sealed(new) # Absent /\ Sealed(new).v = new
  BY <1>6 DEF Files, Bare, Sealed, Absent
<1>8. plan \in [Modes -> Files([inputs : Generations, roster : Seq(Names)])]
  BY DEF QualificationIInv, QualificationTypeOK
<1>9. /\ plan' \in [Modes -> Files([inputs : Generations, roster : Seq(Names)])]
      /\ plan'[m] # Absent /\ plan'[m].v = new
      /\ \A k \in Modes : k # m => plan'[k] = plan[k]
      /\ \A k \in Modes : plan[k] # Absent => plan'[k] # Absent /\ plan'[k].v = plan[k].v
  BY <1>1, <1>7, <1>8
<1>10. /\ sup' \in [pc : Places, m : Modes \cup {"none"}, i : Nat, seen : Nat, asked : BOOLEAN,
                    rec : Seq(Results)]
       /\ sup'.m = m /\ sup'.pc \in {"plan", "verify"} /\ sup'.i = 1 /\ sup'.rec = <<>>
  <2>1. PICK pc \in {"plan", "verify"} : sup' = [Off EXCEPT !.m = m, !.pc = pc]
    BY <1>1
  <2>2. sup' = [pc |-> pc, m |-> m, i |-> 1, seen |-> 0, asked |-> FALSE, rec |-> <<>>]
    BY <2>1 DEF Off
  <2>3. pc \in Places /\ <<>> \in Seq(Results) /\ 0 \in Nat /\ 1 \in Nat
    BY DEF Places
  <2> QED BY <2>2, <2>3
<1>11. QualificationTypeOK'
  BY <1>1, <1>9, <1>10 DEF QualificationIInv, QualificationTypeOK
<1>12. Chained'
  <2>1. \A k \in {"baselines", "grid"} : plan'[k] # Absent => plan'[k].v.roster = Geometries
    BY <1>5, <1>9 DEF QualificationIInv, Chained, Modes
  <2>2. plan'["grid"] # Absent =>
          plan'["baselines"] # Absent /\ plan'["grid"].v.inputs = plan'["baselines"].v.inputs
    BY <1>4, <1>5, <1>9 DEF QualificationIInv, Chained, Modes
  <2>3. plan'["final"] # Absent =>
          /\ plan'["grid"] # Absent /\ plan'["final"].v.inputs = plan'["grid"].v.inputs
          /\ summary["grid"] # Absent /\ summary["grid"].v.accepted \in DOMAIN Geometries
          /\ plan'["final"].v.roster = <<Geometries[summary["grid"].v.accepted]>>
    BY <1>3, <1>5, <1>9 DEF QualificationIInv, Chained, Modes
  <2> QED BY <1>1, <2>1, <2>2, <2>3 DEF Chained
<1>13. Summarised' /\ \A k \in Modes : \A c \in Names : Coherent(k, root[k][c])'
  BY <1>1, <1>9, PlansKept
<1>14. Commanded'
  BY <1>1, <1>6, <1>9, <1>10 DEF Commanded, Preparing, Concluding, Roster, Entries
<1>15. Trainers' /\ Measuring'
  BY <1>1, <1>2, <1>10, QuietStep DEF Preparing
<1> QED BY <1>11, <1>12, <1>13, <1>14, <1>15 DEF QualificationIInv

\* The checksum of a plan; the plan is verified; the orders are built.
LEMMA PrepareStep == ASSUME QualificationIInv, SealPlan \/ Verify \/ EnsureOrder PROVE QualificationIInv'
<1>1. /\ sup.pc \in Preparing
      /\ UNCHANGED <<inputs, boot, root, summary, train, orphans>>
  BY DEF SealPlan, Verify, EnsureOrder, pod, Preparing
<1>2. sup.pc \notin Concluding \cup {"off"} /\ ~train.alive
  BY <1>1, NoTrainer DEF Preparing, Concluding
<1>3. /\ sup.m \in Modes /\ plan[sup.m] # Absent /\ summary[sup.m] = Absent
      /\ sup.i \in 1..Len(Roster) /\ Len(Roster) \in Nat /\ sup.rec = <<>>
      /\ sup.pc \in {"plan", "verify"} => sup.i = 1
  BY <1>1, <1>2, HereFacts DEF QualificationIInv, Commanded
<1>4. plan \in [Modes -> Files([inputs : Generations, roster : Seq(Names)])]
      /\ sup \in [pc : Places, m : Modes \cup {"none"}, i : Nat, seen : Nat, asked : BOOLEAN,
                  rec : Seq(Results)]
  BY DEF QualificationIInv, QualificationTypeOK
<1>5. /\ plan' \in [Modes -> Files([inputs : Generations, roster : Seq(Names)])]
      /\ \A k \in Modes : /\ plan'[k] # Absent <=> plan[k] # Absent
                          /\ plan[k] # Absent => plan'[k].v = plan[k].v
  <2>1. CASE plan' = plan
    BY <1>4, <2>1
  <2>2. CASE plan' # plan
    <3>1. plan' = [plan EXCEPT ![sup.m] = Sealed(plan[sup.m].v)]
      BY <2>2 DEF SealPlan, Verify, EnsureOrder
    <3>2. plan[sup.m].v \in [inputs : Generations, roster : Seq(Names)]
      BY <1>3, HereIsNamed DEF QualificationIInv
    <3>3. /\ Sealed(plan[sup.m].v) \in Files([inputs : Generations, roster : Seq(Names)])
          /\ Sealed(plan[sup.m].v) # Absent /\ Sealed(plan[sup.m].v).v = plan[sup.m].v
      BY <3>2 DEF Files, Sealed, Absent
    <3> QED BY <1>3, <1>4, <3>1, <3>3
  <2> QED BY <2>1, <2>2
<1>6. Chained'
  BY <1>1, <1>5 DEF QualificationIInv, Chained, Modes
<1>7. Summarised' /\ \A k \in Modes : \A c \in Names : Coherent(k, root[k][c])'
  BY <1>1, <1>5, PlansKept
<1>8. CASE Exit
  <2>1. \A o \in orphans' : o.m \in Modes /\ o.c \in Names /\ Tainted(root'[o.m][o.c])
    BY <1>1 DEF QualificationIInv, Trainers
  <2>2. /\ inputs' \in Generations /\ boot' \in Nat /\ orphans' \subseteq Torchruns
        /\ summary' \in [Modes -> Files([rec : Seq(Results), accepted : Nat])]
        /\ root' \in [Modes -> [Names -> Rooms]] /\ train' \in Torchruns /\ ~train'.alive
    BY <1>1, <1>2 DEF QualificationIInv, QualificationTypeOK
  <2> QED BY <1>5, <1>6, <1>7, <1>8, <2>1, <2>2, ExitStep
<1>9. CASE ~Exit
  <2>1. \/ sup.i = 1 /\ \E pc \in {"verify", "orders", "candidate"} : sup' = [sup EXCEPT !.pc = pc]
        \/ sup.pc = "orders" /\ sup.i < Len(Roster) /\ sup' = [sup EXCEPT !.i = @ + 1]
        \/ sup' = [sup EXCEPT !.pc = "candidate", !.i = 1]
    <3>1. CASE SealPlan
      BY <1>3, <3>1 DEF SealPlan, To
    <3>2. CASE Verify
      BY <1>3, <1>9, <3>2 DEF Verify, To
    <3>3. CASE EnsureOrder
      BY <1>9, <3>3 DEF EnsureOrder
    <3> QED BY <3>1, <3>2, <3>3
  <2>2. /\ sup' \in [pc : Places, m : Modes \cup {"none"}, i : Nat, seen : Nat, asked : BOOLEAN,
                     rec : Seq(Results)]
        /\ sup'.m = sup.m /\ sup'.rec = <<>> /\ sup'.i \in 1..Len(Roster)
        /\ sup'.pc \in {"verify", "orders", "candidate"}
        /\ sup'.pc \in {"verify", "candidate"} => sup'.i = 1
    <3> DEFINE n == sup.i + 1
    <3>1. CASE sup' = [sup EXCEPT !.i = n] /\ sup.pc = "orders" /\ sup.i < Len(Roster)
      <4>1. n \in Nat /\ n \in 1..Len(Roster)
        BY <1>3, <3>1
      <4> HIDE DEF n
      <4> QED BY <1>3, <1>4, <3>1, <4>1
    <3>2. CASE sup' = [sup EXCEPT !.pc = "candidate", !.i = 1]
      <4>1. 1 \in 1..Len(Roster) /\ 1 \in Nat /\ "candidate" \in Places
        BY <1>3 DEF Places
      <4> QED BY <1>3, <1>4, <3>2, <4>1
    <3>3. CASE sup.i = 1 /\ \E pc \in {"verify", "orders", "candidate"} : sup' = [sup EXCEPT !.pc = pc]
      BY <1>3, <1>4, <3>3 DEF Places
    <3> QED BY <2>1, <3>1, <3>2, <3>3
  <2>3. QualificationTypeOK'
    BY <1>1, <1>5, <2>2 DEF QualificationIInv, QualificationTypeOK
  <2>4. Roster' = Roster
    BY <1>3, <1>5, <2>2 DEF Roster
  <2>5. Commanded'
    BY <1>1, <1>3, <1>5, <2>2, <2>4 DEF Commanded, Preparing, Concluding, Entries
  <2>6. Trainers' /\ Measuring'
    BY <1>1, <1>2, <2>2, QuietStep DEF Preparing
  <2> QED BY <1>6, <1>7, <2>3, <2>5, <2>6 DEF QualificationIInv
<1> QED BY <1>8, <1>9

\* The receipt of the whole, and its checksum.
LEMMA SummariseStep == ASSUME QualificationIInv, Summarise \/ SealSummary PROVE QualificationIInv'
<1>1. /\ sup.pc \in Concluding /\ UNCHANGED <<inputs, boot, plan, root, train, orphans>>
  BY DEF Summarise, SealSummary, pod, Concluding
<1>2. ~train.alive
  BY <1>1, NoTrainer DEF Concluding
<1>3. /\ sup.m \in Modes /\ plan[sup.m] # Absent
      /\ sup.pc = "seal" <=> summary[sup.m] # Absent
      /\ sup.i = Len(Roster) + 1 /\ Len(sup.rec) = sup.i - 1 /\ Entries(sup.rec, sup.m)
  BY <1>1 DEF QualificationIInv, Commanded, Concluding, Preparing
<1>4. /\ Len(Roster) \in Nat /\ Len(sup.rec) = Len(Roster) /\ sup.rec \in Seq(Results)
  BY <1>3, HereIsNamed DEF QualificationIInv, Roster, QualificationTypeOK
<1>5. summary \in [Modes -> Files([rec : Seq(Results), accepted : Nat])]
      /\ sup \in [pc : Places, m : Modes \cup {"none"}, i : Nat, seen : Nat, asked : BOOLEAN,
                  rec : Seq(Results)]
  BY DEF QualificationIInv, QualificationTypeOK
<1>6. \A k \in Modes : \A c \in Names : Coherent(k, root[k][c])'
  BY <1>1 DEF QualificationIInv, Coherent
<1>7. \A o \in orphans' : o.m \in Modes /\ o.c \in Names /\ Tainted(root'[o.m][o.c])
  BY <1>1 DEF QualificationIInv, Trainers
<1>8. /\ inputs' \in Generations /\ boot' \in Nat /\ orphans' \subseteq Torchruns
      /\ plan' \in [Modes -> Files([inputs : Generations, roster : Seq(Names)])]
      /\ root' \in [Modes -> [Names -> Rooms]] /\ train' \in Torchruns /\ ~train'.alive
  BY <1>1, <1>2 DEF QualificationIInv, QualificationTypeOK
<1>9. CASE UNCHANGED summary /\ Exit
  <2>1. Chained' /\ Summarised'
    BY <1>1, <1>9 DEF QualificationIInv, Chained, Summarised, Entries
  <2> QED BY <1>5, <1>6, <1>7, <1>8, <1>9, <2>1, ExitStep
<1>10. CASE SealSummary
  <2> DEFINE r == summary[sup.m].v
  <2>1. /\ sup.pc = "seal" /\ Exit /\ summary' = [summary EXCEPT ![sup.m] = Sealed(r)]
    BY <1>10 DEF SealSummary
  <2>2. r \in [rec : Seq(Results), accepted : Nat]
    BY <1>3, <1>5, <2>1, FileFacts
  <2> HIDE DEF r
  <2>3. /\ Sealed(r) \in Files([rec : Seq(Results), accepted : Nat])
        /\ Sealed(r) # Absent /\ Sealed(r).v = r
    BY <2>2 DEF Files, Sealed, Absent
  <2>4. /\ summary' \in [Modes -> Files([rec : Seq(Results), accepted : Nat])]
        /\ \A k \in Modes : (summary'[k] # Absent <=> summary[k] # Absent)
                            /\ summary'[k].v = summary[k].v
    BY <1>3, <1>5, <2>1, <2>3 DEF r
  <2>5. Chained'
    BY <1>1, <2>4 DEF QualificationIInv, Chained, Modes
  <2>6. ASSUME NEW m \in Modes, summary'[m] # Absent
        PROVE  LET s == summary'[m].v
               IN  /\ plan[m] # Absent /\ Len(s.rec) = Len(plan[m].v.roster)
                   /\ s.accepted = Fastest(s.rec) /\ Entries(s.rec, m)
                   /\ m # "grid" => Passing(s.rec) = DOMAIN s.rec
    <3>1. summary[m] # Absent /\ summary'[m].v = summary[m].v
      BY <2>4, <2>6
    <3> QED BY <3>1 DEF QualificationIInv, Summarised
  <2>7. Summarised'
    BY <1>1, <2>6 DEF Summarised, Entries
  <2> QED BY <1>6, <1>7, <1>8, <2>1, <2>4, <2>5, <2>7, ExitStep
<1>11. CASE Summarise /\ ~(UNCHANGED summary /\ Exit)
  <2> DEFINE r == [rec |-> sup.rec, accepted |-> Fastest(sup.rec)]
  <2>1. /\ sup.pc = "summary" /\ sup' = [sup EXCEPT !.pc = "seal"]
        /\ summary' = [summary EXCEPT ![sup.m] = Bare(r)]
        /\ sup.m # "grid" => Passing(sup.rec) = DOMAIN sup.rec
    BY <1>11 DEF Summarise, To
  <2>2. Fastest(sup.rec) \in Nat
    <3>1. CASE Passing(sup.rec) = {}
      BY <3>1 DEF Fastest
    <3>2. CASE Passing(sup.rec) # {}
      <4>1. Fastest(sup.rec) \in Passing(sup.rec)
        BY <1>4, <3>2, FastestIsBest
      <4>2. Passing(sup.rec) \subseteq 1..Len(sup.rec)
        BY <1>4 DEF Passing
      <4> QED BY <1>4, <4>1, <4>2
    <3> QED BY <3>1, <3>2
  <2>3. /\ r \in [rec : Seq(Results), accepted : Nat]
        /\ r.rec = sup.rec /\ r.accepted = Fastest(sup.rec)
    BY <1>4, <2>2
  <2> HIDE DEF r
  <2>4. /\ Bare(r) \in Files([rec : Seq(Results), accepted : Nat])
        /\ Bare(r) # Absent /\ Bare(r).v = r
    BY <2>3 DEF Files, Bare, Absent
  <2>5. /\ summary' \in [Modes -> Files([rec : Seq(Results), accepted : Nat])]
        /\ summary'[sup.m] = Bare(r) /\ \A k \in Modes : k # sup.m => summary'[k] = summary[k]
    BY <1>3, <1>5, <2>1, <2>4
  <2>6. Chained'
    <3>1. sup.m = "grid" => plan["final"] = Absent
      BY <1>3, <2>1 DEF QualificationIInv, Chained
    <3>2. plan["final"] # Absent => summary'["grid"] = summary["grid"]
      BY <2>5, <3>1 DEF Modes
    <3> QED BY <1>1, <3>2 DEF QualificationIInv, Chained
  <2>7. ASSUME NEW m \in Modes, summary'[m] # Absent
        PROVE  LET s == summary'[m].v
               IN  /\ plan[m] # Absent /\ Len(s.rec) = Len(plan[m].v.roster)
                   /\ s.accepted = Fastest(s.rec) /\ Entries(s.rec, m)
                   /\ m # "grid" => Passing(s.rec) = DOMAIN s.rec
    <3>1. CASE m = sup.m
      BY <1>3, <1>4, <2>1, <2>3, <2>4, <2>5, <3>1 DEF Roster
    <3>2. CASE m # sup.m
      <4>1. summary'[m] = summary[m]
        BY <2>5, <3>2
      <4> QED BY <2>7, <4>1 DEF QualificationIInv, Summarised
    <3> QED BY <3>1, <3>2
  <2>8. Summarised'
    BY <1>1, <2>7 DEF Summarised, Entries
  <2>9. /\ sup' \in [pc : Places, m : Modes \cup {"none"}, i : Nat, seen : Nat, asked : BOOLEAN,
                     rec : Seq(Results)]
        /\ sup'.pc = "seal" /\ sup'.m = sup.m /\ sup'.i = sup.i /\ sup'.rec = sup.rec
    BY <1>5, <2>1 DEF Places
  <2>10. QualificationTypeOK'
    BY <1>8, <2>5, <2>9 DEF QualificationTypeOK
  <2>11. Roster' = Roster
    BY <1>1, <2>9 DEF Roster
  <2>12. Commanded'
    BY <1>1, <1>3, <2>4, <2>5, <2>9, <2>11 DEF Commanded, Preparing, Concluding, Entries
  <2>13. Trainers' /\ Measuring'
    BY <1>1, <1>2, <2>9, QuietStep DEF Concluding
  <2> QED BY <1>6, <2>6, <2>8, <2>10, <2>12, <2>13 DEF QualificationIInv
<1> QED BY <1>9, <1>10, <1>11 DEF Summarise, SealSummary

-----------------------------------------------------------------------------
(* The theorems.                                                            *)

\* Nothing is planned, measured or running.
LEMMA InitIInv == QualificationInit => QualificationIInv
<1> SUFFICES ASSUME QualificationInit PROVE QualificationIInv
  OBVIOUS
<1>1. NoSave \in Checkpoints
  BY DEF NoSave, Checkpoints
<1>2. NewRoot \in Rooms /\ NewRoot.journal = Absent /\ NewRoot.result = Absent /\ ~NewRoot.log2
  BY <1>1 DEF NewRoot, Rooms, Files
<1>3. /\ Off \in [pc : Places, m : Modes \cup {"none"}, i : Nat, seen : Nat, asked : BOOLEAN,
                  rec : Seq(Results)]
      /\ Off.pc = "off"
  BY DEF Off, Places
<1>4. QualificationTypeOK
  BY <1>2, <1>3, IdleFacts DEF QualificationInit, QualificationTypeOK, Generations, Files
<1>5. Chained /\ Summarised
  BY DEF QualificationInit, Chained, Summarised, Modes
<1>6. \A m \in Modes : \A c \in Names : Coherent(m, root[m][c])
  BY <1>2 DEF QualificationInit, Coherent
<1>7. Commanded /\ Trainers /\ Measuring
  BY <1>3, IdleFacts DEF QualificationInit, Commanded, Trainers, Measuring
<1> QED BY <1>4, <1>5, <1>6, <1>7 DEF QualificationIInv

\* Every step of the commands, their trainers and their machine keeps the invariant.
LEMMA NextIInv == QualificationIInv /\ [QualificationNext]_qualificationVars => QualificationIInv'
<1> SUFFICES ASSUME QualificationIInv, [QualificationNext]_qualificationVars PROVE QualificationIInv'
  OBVIOUS
<1>1. CASE UNCHANGED qualificationVars
  <2>1. UNCHANGED <<inputs, boot, plan, root, summary, sup, train, orphans>>
    BY <1>1 DEF qualificationVars
  <2>2. QualificationTypeOK' /\ Chained' /\ Commanded' /\ Summarised'
    BY <2>1 DEF QualificationIInv, QualificationTypeOK, Chained, Commanded, Summarised, Entries, Roster
  <2>3. \A m \in Modes : \A c \in Names : Coherent(m, root[m][c])'
    BY <2>1 DEF QualificationIInv, Coherent
  <2>4. Room' = Room /\ Here' = Here
    BY <2>1 DEF Room, Here, Roster
  <2>5. Trainers' /\ Measuring'
    BY <2>1, <2>4 DEF QualificationIInv, Trainers, Measuring, Resumed
  <2> QED BY <2>2, <2>3, <2>5 DEF QualificationIInv
<1>2. CASE \E m \in Modes : Launch(m)
  BY <1>2, LaunchStep
<1>3. CASE Supervise
  BY <1>3, PrepareStep, CandidateStep, LaunchPhaseOneStep, ResumeStep, LaunchPhaseTwoStep,
     ObserveStep, AbortStep, PhaseOneEndsStep, SealJournalStep, PhaseTwoEndsStep, SealResultStep,
     PublishFailureStep, SealFailureStep, SummariseStep DEF Supervise
<1>4. CASE Training
  BY <1>4, TrainerStepStep, TrainerEndsStep DEF Training
<1>5. CASE Fault
  BY <1>5, WatchFailsStep, KillStep, TrainerStepStep, OperatorStep DEF Fault
<1>6. CASE BuildFinalOrder \/ Restore
  BY <1>6, OperatorStep
<1>7. CASE \E o \in orphans : OrphanEnds(o)
  BY <1>7, OrphanEndsStep
<1> QED BY <1>1, <1>2, <1>3, <1>4, <1>5, <1>6, <1>7 DEF QualificationNext

\* Through any kills, reboots and edits: a directory that a torchrun may outlive its
\* supervisor in is never measured in again, files of a candidate agree with each
\* other, and every receipt rests on evidence (run_candidate, run_baseline_candidate).
THEOREM QualificationInvariant == QualificationSpec => []QualificationIInv
<1> QED BY InitIInv, NextIInv, PTL DEF QualificationSpec

\* A result that passes is one continuous measurement, for any geometries, lengths
\* and number of faults (run_candidate, run_baseline_candidate).
THEOREM ResultsAreMeasured == QualificationSpec => []QualifiedIsMeasured
<1>1. QualificationIInv => QualifiedIsMeasured
  <2> SUFFICES ASSUME QualificationIInv, NEW m \in Modes, NEW c \in Names,
                      root[m][c].result # Absent, root[m][c].result.v.pass
               PROVE  LET d == root[m][c]
                      IN  /\ d.log1 /\ d.log2 /\ IsSealed(d.journal) /\ d.prev = d.journal.v.save
                          /\ \A save \in {d.prev, d.last} :
                               save.inputs = plan[m].v.inputs /\ save.boot = d.journal.v.boot
                          /\ Warmup < d.prev.step /\ d.prev.step < d.last.step
                          /\ d.last.step - Warmup >= MinimumSoak
    BY DEF QualifiedIsMeasured
  <2>1. Coherent(m, root[m][c]) /\ root[m][c] \in Rooms
    BY DEF QualificationIInv, QualificationTypeOK
  <2>2. root[m][c].journal # Absent
    BY <2>1, RoomFacts DEF Coherent
  <2> QED BY <2>1, <2>2 DEF Coherent
<1> QED BY <1>1, QualificationInvariant, PTL

\* The grid accepts the fastest candidate whose evidence passes, and the final soak
\* measured that candidate under the inputs of every plan (run_grid, run_final_soak).
THEOREM FastestIsAccepted == QualificationSpec => []AcceptedIsFastest
<1>1. ASSUME QualificationIInv, summary["grid"] # Absent, NEW i \in DOMAIN Geometries,
             root["grid"][Geometries[i]].failure = Absent,
             root["grid"][Geometries[i]].result # Absent,
             root["grid"][Geometries[i]].result.v.pass
      PROVE  LET rate == root["grid"][Geometries[i]].result.v.rate
                 best == summary["grid"].v.accepted
                 top == root["grid"][Geometries[best]].result.v.rate
             IN  best # 0 /\ (best # i => top > rate \/ (top = rate /\ best < i))
  <2> DEFINE s == summary["grid"].v
             best == s.accepted
  <2>1. s.rec \in Seq(Results)
    <3>1. s \in [rec : Seq(Results), accepted : Nat]
      BY <1>1, FileFacts DEF QualificationIInv, QualificationTypeOK, Modes
    <3> QED BY <3>1
  <2>2. /\ plan["grid"] # Absent /\ Len(s.rec) = Len(plan["grid"].v.roster)
        /\ best = Fastest(s.rec) /\ Entries(s.rec, "grid")
    BY <1>1 DEF QualificationIInv, Summarised, Modes
  <2>3. /\ plan["grid"].v.roster = Geometries
        /\ DOMAIN Geometries = 1..Len(Geometries) /\ Len(Geometries) \in Nat
    BY <1>1, <2>2, QualificationAssumption DEF QualificationIInv, Chained, Names
  <2> HIDE DEF s
  <2>4. ASSUME NEW k \in 1..Len(s.rec)
        PROVE  Entry(s.rec[k], root["grid"][Geometries[k]]) /\ s.rec[k] \in Results
    BY <2>1, <2>2, <2>3 DEF Entries
  <2>5. i \in 1..Len(s.rec)
    BY <2>2, <2>3
  <2>6. s.rec[i] = root["grid"][Geometries[i]].result.v
    BY <1>1, <2>4, <2>5 DEF Entry
  <2>7. i \in Passing(s.rec)
    BY <1>1, <2>1, <2>5, <2>6 DEF Passing
  <2>8. /\ best \in Passing(s.rec)
        /\ \/ s.rec[i].rate < s.rec[best].rate
           \/ s.rec[i].rate = s.rec[best].rate /\ best <= i
    BY <2>1, <2>2, <2>7, FastestIsBest
  <2>9. best \in 1..Len(s.rec) /\ s.rec[best].pass
    BY <2>1, <2>8 DEF Passing
  <2>10. s.rec[best] = root["grid"][Geometries[best]].result.v
    BY <2>4, <2>9 DEF Entry, Fails
  <2>11. s.rec[i].rate \in Nat /\ s.rec[best].rate \in Nat
    BY <2>4, <2>5, <2>9 DEF Results
  <2>12. best # 0
    BY <2>1, <2>9
  <2>13. best # i => \/ s.rec[best].rate > s.rec[i].rate
                     \/ s.rec[best].rate = s.rec[i].rate /\ best < i
    <3>1. best \in Nat /\ i \in Nat
      BY <2>1, <2>5, <2>9
    <3> HIDE DEF best
    <3> QED BY <2>8, <2>11, <3>1
  <2> QED BY <2>6, <2>10, <2>12, <2>13 DEF s
<1>2. ASSUME QualificationIInv, summary["final"] # Absent
      PROVE  /\ plan["final"].v.roster = <<Geometries[summary["grid"].v.accepted]>>
             /\ root["final"][plan["final"].v.roster[1]].result.v.pass
             /\ \A m \in Modes : plan[m].v.inputs = plan["final"].v.inputs
  <2> DEFINE s == summary["final"].v
  <2>1. s.rec \in Seq(Results)
    <3>1. s \in [rec : Seq(Results), accepted : Nat]
      BY <1>2, FileFacts DEF QualificationIInv, QualificationTypeOK, Modes
    <3> QED BY <3>1
  <2>2. /\ plan["final"] # Absent /\ Len(s.rec) = Len(plan["final"].v.roster)
        /\ Entries(s.rec, "final") /\ Passing(s.rec) = DOMAIN s.rec
    BY <1>2 DEF QualificationIInv, Summarised, Modes
  <2>3. /\ plan["grid"] # Absent /\ plan["final"].v.inputs = plan["grid"].v.inputs
        /\ plan["final"].v.roster = <<Geometries[summary["grid"].v.accepted]>>
        /\ plan["grid"].v.inputs = plan["baselines"].v.inputs
    BY <1>2, <2>2 DEF QualificationIInv, Chained
  <2> HIDE DEF s
  <2>4. Len(s.rec) = 1
    BY <2>2, <2>3
  <2>5. 1 \in Passing(s.rec)
    BY <2>1, <2>2, <2>4
  <2>6. s.rec[1].pass
    BY <2>5 DEF Passing
  <2>7. Entry(s.rec[1], root["final"][plan["final"].v.roster[1]])
    BY <2>2, <2>4 DEF Entries
  <2>8. root["final"][plan["final"].v.roster[1]].result.v.pass
    <3> DEFINE d == root["final"][plan["final"].v.roster[1]]
    <3>1. s.rec[1] # Fails
      BY <2>6 DEF Fails
    <3> HIDE DEF d
    <3>2. d.result # Absent /\ s.rec[1] = d.result.v
      <4>1. Entry(s.rec[1], d)
        BY <2>7 DEF d
      <4> QED BY <3>1, <4>1 DEF Entry
    <3>3. d.result.v.pass
      BY <2>6, <3>2
    <3> QED BY <3>3 DEF d
  <2> QED BY <2>3, <2>8 DEF Modes
<1>3. QualificationIInv => AcceptedIsFastest
  BY <1>1, <1>2 DEF AcceptedIsFastest
<1> QED BY <1>3, QualificationInvariant, PTL

-----------------------------------------------------------------------------
(* The launch.                                                              *)

IsFile(f) == f.at \in {"absent", "bare", "sealed"}
JobSteps == {"none", "validate", "publish", "seal", "geometry", "storage", "orders", "authority",
             "exec"}
RunPlaces == {"off", "starting", "training", "link", "replace", "rotate"}

LaunchTypeOK ==
    /\ data \in [Splits -> [order : Orders, sound : BOOLEAN, id : Nat]]
    /\ immutable \in BOOLEAN /\ tenant \in 0..MaxTenants
    /\ DOMAIN cert = Splits /\ \A s \in Splits : IsFile(cert[s])
    /\ DOMAIN authority = Resumes /\ \A r \in Resumes : IsFile(authority[r])
    /\ job \in [kind : {"none", "certify", "qualify", "receipt", "collect", "launch"},
                step : JobSteps, arg : {job.arg}, argv : {job.argv}, saw : {job.saw}]
    /\ job.kind = "certify" => job.arg \in Splits
    /\ job.kind \in {"collect", "launch"} => job.arg \in Resumes
    /\ job.kind = "launch" => job.argv \in Resumes
    /\ lineage \in [last : Nat, prev : Nat, link : Nat, parts : Nat]
    /\ run \in [pc : RunPlaces, resume : {run.resume}, step : Nat, rollback : BOOLEAN, by : {run.by}]

(* An operator's command and a run exclude each other, and a sidecar is    *)
(* written for a file that is there.                                       *)
InTurn ==
    /\ run.pc # "off" => job.kind = "none"
    /\ At("certify", "seal") => cert[job.arg].at # "absent"
    /\ At("collect", "seal") => authority[job.arg].at # "absent"

(* What evidence says of a split's files: it saw them at one time, and     *)
(* when they are still those their content is valid.                       *)
Vouched(s, of) == of.id \in 0..data[s].id /\ (of = Metadata(s) => data[s].sound)
Vouches(certs) == \A s \in Splits : Vouched(s, certs[s].of)
Truthful ==
    /\ \A s \in Splits : cert[s].at # "absent" => Vouched(s, cert[s].v.of)
    /\ \A r \in Resumes : authority[r].at # "absent" => Vouches(authority[r].v.cert)
    /\ job.kind = "certify" =>
          /\ job.saw.of.id \in 0..data[job.arg].id
          /\ job.step # "validate" => Vouched(job.arg, job.saw.of)
    /\ job.kind \in {"collect", "launch"} => Vouches(job.saw.cert)

(* An authority that names the files in place, at its own commit.          *)
NamesFiles(by) ==
    /\ \A s \in Splits : by.cert[s] = [of |-> Metadata(s), by |-> by.code["certifier"]]
    /\ by.corpus = [of |-> [s \in Splits |-> Metadata(s)], by |-> by.code["qualifier"]]
    /\ by.receipt.orders = OrdersNow /\ by.receipt.code = by.code

Mounted == job.kind = "launch" /\ job.step # "storage"   \* the mount was looked at
Relying ==
    /\ Mounted => immutable /\ Lineage(job.argv)
    /\ At("launch", "exec") => NamesFiles(job.saw) /\ job.saw.resume = job.argv
    /\ run.pc # "off" =>
          /\ immutable /\ \A s \in Splits : data[s].sound
          /\ NamesFiles(run.by) /\ run.by.resume = run.resume /\ run.resume \in Resumes
    /\ Running("starting") => Lineage(run.resume)

(* The room of a whole rotation, and what a save in progress holds of it.  *)
Roomy ==
    /\ Mounted \/ run.pc # "off" => Capacity - tenant >= Peak
    /\ Running("training") => lineage.link = 0 /\ lineage.parts = 0
    /\ Running("link") => lineage.link = 0 /\ lineage.parts = 1
    /\ Running("replace") => lineage.parts = 1
    /\ Running("rotate") => lineage.parts = 0

LaunchIInv == LaunchTypeOK /\ InTurn /\ Truthful /\ Relying /\ Roomy
-----------------------------------------------------------------------------
(* What changes, and what that leaves as it was.                            *)

still == <<data, immutable, cert, authority, lineage, run, tenant>>

\* An operator's command that goes on or ends without publishing.
LEMMA JobMoves ==
    ASSUME LaunchIInv, UNCHANGED still, job.kind # "none", NEW to \in JobSteps,
           \/ job' = NoJob
           \/ /\ job' = [job EXCEPT !.step = to]
              /\ job.kind = "certify" /\ to # "validate" => Vouched(job.arg, job.saw.of)
              /\ job.kind \in {"certify", "collect"} => to # "seal"
              /\ job.kind = "launch" => /\ immutable /\ Lineage(job.argv)
                                        /\ Capacity - tenant >= Peak
              /\ job.kind = "launch" /\ to = "exec" =>
                    NamesFiles(job.saw) /\ job.saw.resume = job.argv
    PROVE  LaunchIInv'
<1>0. run.pc = "off" /\ run'.pc = "off"
  BY DEF LaunchIInv, InTurn, still
<1> USE <1>0 DEF still
<1>1. CASE job' = NoJob
  <2>1. job'.kind = "none" /\ job'.step = "none"
    BY <1>1 DEF NoJob
  <2>2. LaunchTypeOK'
    BY <1>1 DEF LaunchIInv, LaunchTypeOK, IsFile, NoJob, JobSteps
  <2>3. InTurn' /\ Relying' /\ Roomy'
    BY <2>1 DEF InTurn, Relying, Roomy, At, Mounted, Running
  <2>4. Truthful'
    BY <2>1 DEF LaunchIInv, Truthful, Vouches, Vouched, Metadata
  <2> QED BY <2>2, <2>3, <2>4 DEF LaunchIInv
<1>2. CASE job' # NoJob
  <2>1. /\ job'.kind = job.kind /\ job'.step = to /\ job'.arg = job.arg /\ job'.argv = job.argv
        /\ job'.saw = job.saw
    BY <1>2 DEF LaunchIInv, LaunchTypeOK
  <2>2. LaunchTypeOK'
    BY <1>2, <2>1 DEF LaunchIInv, LaunchTypeOK, IsFile
  <2>3. InTurn'
    BY <1>2, <2>1 DEF InTurn, At
  <2>4. Relying' /\ Roomy'
    BY <1>2, <2>1 DEF Relying, Roomy, At, Mounted, Running, NamesFiles, OrdersNow, Metadata, Lineage
  <2>5. Truthful'
    BY <1>2, <2>1 DEF LaunchIInv, Truthful, Vouches, Vouched, Metadata
  <2> QED BY <2>2, <2>3, <2>4, <2>5 DEF LaunchIInv
<1> QED BY <1>1, <1>2

\* An operator's command that begins, with what it has read.
LEMMA JobBegins ==
    ASSUME LaunchIInv, UNCHANGED still, run.pc = "off",
           job' \in [kind : {"certify", "qualify", "receipt", "collect", "launch"},
                     step : {"validate", "publish", "geometry", "storage"},
                     arg : {job'.arg}, argv : {job'.argv}, saw : {job'.saw}],
           job'.kind = "certify" =>
               /\ job'.step = "validate" /\ job'.arg \in Splits
               /\ job'.saw.of.id \in 0..data[job'.arg].id,
           job'.kind \in {"collect", "launch"} => job'.arg \in Resumes /\ Vouches(job'.saw.cert),
           job'.kind = "launch" => job'.step = "storage" /\ job'.argv \in Resumes
    PROVE  LaunchIInv'
<1> USE DEF still
<1>1. LaunchTypeOK'
  BY DEF LaunchIInv, LaunchTypeOK, IsFile, JobSteps
<1>2. InTurn' /\ Relying' /\ Roomy'
  BY DEF InTurn, Relying, Roomy, At, Mounted, Running
<1>3. Truthful'
  BY DEF LaunchIInv, Truthful, Vouches, Vouched, Metadata
<1> QED BY <1>1, <1>2, <1>3 DEF LaunchIInv

\* Nothing that the invariant is about changes.
LEMMA NothingMoves == ASSUME LaunchIInv, UNCHANGED <<still, job>> PROVE LaunchIInv'
<1> USE DEF still
<1>1. LaunchTypeOK'
  BY DEF LaunchIInv, LaunchTypeOK, IsFile
<1>2. InTurn' /\ Truthful'
  BY DEF LaunchIInv, InTurn, At, Truthful, Vouches, Vouched, Metadata
<1>3. Relying' /\ Roomy'
  BY DEF LaunchIInv, Relying, Roomy, At, Mounted, Running, NamesFiles, OrdersNow, Metadata, Lineage
<1> QED BY <1>1, <1>2, <1>3 DEF LaunchIInv

-----------------------------------------------------------------------------
(* Room.                                                                    *)

\* A lineage holds as many generations as it has distinct steps.
LEMMA GenerationsHeld ==
    ASSUME LaunchTypeOK
    PROVE  /\ Existing \in 0..2 /\ Held \in Nat /\ Existing <= Held
           /\ lineage.link = 0 /\ lineage.parts = 0 => Held = Existing
<1>1. /\ lineage.last \in Nat /\ lineage.prev \in Nat /\ lineage.link \in Nat
      /\ lineage.parts \in Nat
  BY DEF LaunchTypeOK
<1>2. \A a, b, c \in Nat : /\ IsFiniteSet({a, b, c}) /\ IsFiniteSet({a, b})
                            /\ Cardinality({a, b}) <= 2
  <2>1. ASSUME NEW a \in Nat, NEW b \in Nat, NEW c \in Nat
        PROVE  IsFiniteSet({a, b, c}) /\ IsFiniteSet({a, b}) /\ Cardinality({a, b}) <= 2
    <3>1. IsFiniteSet({a}) /\ Cardinality({a}) = 1
      BY FS_Singleton
    <3>2. {a, b} = {a} \cup {b} /\ {a, b, c} = {a, b} \cup {c}
      OBVIOUS
    <3>3. IsFiniteSet({a, b}) /\ Cardinality({a, b}) <= 2
      BY <3>1, <3>2, FS_AddElement
    <3>4. IsFiniteSet({a, b, c})
      BY <3>2, <3>3, FS_AddElement
    <3> QED BY <3>3, <3>4
  <2> QED BY <2>1
<1> DEFINE U == {lineage.last, lineage.prev}
           S == U \ {0}
           T == {lineage.last, lineage.prev, lineage.link} \ {0}
<1>3. IsFiniteSet(U) /\ Cardinality(U) <= 2 /\ IsFiniteSet({lineage.last, lineage.prev, lineage.link})
  BY <1>1, <1>2
<1>4. IsFiniteSet(T) /\ S \subseteq U /\ S \subseteq T /\ (lineage.link = 0 => S = T)
  BY <1>3, FS_Subset, T \subseteq {lineage.last, lineage.prev, lineage.link}
<1>5. IsFiniteSet(S) /\ Cardinality(S) <= Cardinality(U) /\ Cardinality(S) <= Cardinality(T)
  BY <1>3, <1>4, FS_Subset
<1>6. Cardinality(S) \in Nat /\ Cardinality(T) \in Nat /\ Cardinality(U) \in Nat
  BY <1>3, <1>4, <1>5, FS_CardinalityType
<1>7. Existing = Cardinality(S) /\ Held = Cardinality(T) + lineage.parts
  BY DEF Existing, Held
<1> HIDE DEF S, T, U
<1> QED BY <1>1, <1>3, <1>4, <1>5, <1>6, <1>7

\* What the launcher admits leaves a whole rotation's room beside the tenants.
LEMMA AdmissionIsEnough ==
    ASSUME LaunchTypeOK, Admitted PROVE Capacity - tenant >= Peak
<1>1. Existing \in 0..2 /\ Held \in Nat /\ Existing <= Held /\ tenant \in Nat
  BY GenerationsHeld, LaunchAssumption DEF LaunchTypeOK
<1> QED BY <1>1, LaunchAssumption DEF Admitted, Free, Slots, Peak

\* A run of which nothing is left of a save finds room for the next one.
LEMMA TrainingHasRoom ==
    ASSUME LaunchIInv, Running("training") PROVE Free # 0
<1>1. Existing \in 0..2 /\ Held = Existing /\ tenant \in Nat /\ Capacity - tenant >= Peak
  BY GenerationsHeld, LaunchAssumption DEF LaunchIInv, LaunchTypeOK, Roomy, Running
<1> QED BY <1>1, LaunchAssumption DEF Free, Peak

-----------------------------------------------------------------------------
(* The operator's commands.                                                 *)

\* What a published file names was looked at.
LEMMA SealedIsVouched ==
    ASSUME LaunchIInv
    PROVE  /\ \A s \in Splits : IsSealed(cert[s]) => Vouched(s, cert[s].v.of)
           /\ \A r \in Resumes : IsSealed(authority[r]) => Vouches(authority[r].v.cert)
  BY DEF LaunchIInv, Truthful, IsSealed

\* A command begins only when there is neither another nor a run.
LEMMA BeginStep ==
    ASSUME LaunchIInv,
           \/ \E s \in Splits : CertifyBegin(s)
           \/ QualifyBegin
           \/ \E w \in BOOLEAN : ReceiptBegin(w)
           \/ \E r \in Resumes : CollectBegin(r)
           \/ \E r, a \in Resumes : LaunchBegin(r, a)
    PROVE  LaunchIInv'
<1>1. run.pc = "off" /\ UNCHANGED still
  BY DEF CertifyBegin, QualifyBegin, ReceiptBegin, CollectBegin, LaunchBegin, Begin,
         inputsOfLaunch, evidenceOfLaunch, still
<1>2. ASSUME NEW s \in Splits, CertifyBegin(s) PROVE LaunchIInv'
  <2>1. job' = [kind |-> "certify", step |-> "validate", arg |-> s, argv |-> "none",
                saw |-> Look(s)]
    BY <1>2 DEF CertifyBegin, Begin, NoJob
  <2>2. Look(s).of.id = data[s].id /\ data[s].id \in Nat
    BY DEF Look, Metadata, LaunchIInv, LaunchTypeOK
  <2>3. job'.saw.of.id \in 0..data[s].id /\ job'.arg = s /\ job'.kind = "certify" /\ job'.step = "validate"
    BY <2>1, <2>2
  <2> QED BY <1>1, <2>1, <2>3, JobBegins
<1>3. CASE QualifyBegin
  <2>1. job' = [kind |-> "qualify", step |-> "validate", arg |-> "none", argv |-> "none",
                saw |-> LookAtAll]
    BY <1>3 DEF QualifyBegin, Begin, NoJob
  <2> QED BY <1>1, <2>1, JobBegins
<1>4. ASSUME NEW w \in BOOLEAN, ReceiptBegin(w) PROVE LaunchIInv'
  <2>1. job' = [kind |-> "receipt", step |-> "publish", arg |-> "none", argv |-> "none",
                saw |-> GeometryNow(w)]
    BY <1>4 DEF ReceiptBegin, Begin, NoJob
  <2> QED BY <1>1, <2>1, JobBegins
<1>5. ASSUME NEW r \in Resumes, CollectBegin(r) PROVE LaunchIInv'
  <2>1. job' = [kind |-> "collect", step |-> "geometry", arg |-> r, argv |-> "none",
                saw |-> Payload(r)]
    BY <1>5 DEF CollectBegin, Begin, NoJob
  <2>2. \A s \in Splits : Payload(r).cert[s] = cert[s].v
    BY DEF Payload
  <2>3. Vouches(Payload(r).cert)
    BY <1>5, <2>2, SealedIsVouched DEF CollectBegin, EvidenceSealed, Vouches
  <2>4. job'.kind = "collect" /\ job'.step = "geometry" /\ job'.arg = r /\ job'.saw = Payload(r)
    BY <2>1
  <2> QED BY <1>1, <2>1, <2>3, <2>4, JobBegins
<1>6. ASSUME NEW r \in Resumes, NEW a \in Resumes, LaunchBegin(r, a) PROVE LaunchIInv'
  <2>1. job' = [kind |-> "launch", step |-> "storage", arg |-> a, argv |-> r,
                saw |-> authority[a].v]
    BY <1>6 DEF LaunchBegin, Begin, NoJob
  <2>2. Vouches(authority[a].v.cert)
    BY <1>6, SealedIsVouched DEF LaunchBegin
  <2>3. /\ job'.kind = "launch" /\ job'.step = "storage" /\ job'.arg = a /\ job'.argv = r
        /\ job'.saw = authority[a].v
    BY <2>1
  <2> QED BY <1>1, <2>1, <2>2, <2>3, JobBegins
<1> QED BY <1>2, <1>3, <1>4, <1>5, <1>6

\* A look that finds what it must moves on, any other ends the command: the
\* certificate's look at the content, those of the launcher and of the collector.
LEMMA LookStep ==
    ASSUME LaunchIInv,
           \/ CertifyValidate \/ QualifyValidate \/ QualifyPublish \/ ReceiptPublish \/ ReceiptSeal
           \/ CollectGeometry \/ LaunchStorage \/ LaunchOrders \/ LaunchValidate \/ KillJob
    PROVE  LaunchIInv'
<1>1. job.kind # "none" /\ UNCHANGED still
  BY DEF CertifyValidate, QualifyValidate, QualifyPublish, ReceiptPublish, ReceiptSeal,
         CollectGeometry, LaunchStorage, LaunchOrders, LaunchValidate, KillJob, At, quiet,
         inputsOfLaunch, evidenceOfLaunch, still
<1>2. CASE job' = NoJob
  BY <1>1, <1>2, JobMoves DEF JobSteps
<1>3. CASE CertifyValidate /\ job' # NoJob
  <2>1. /\ job.kind = "certify" /\ job.arg \in Splits /\ data[job.arg].sound
        /\ job' = [job EXCEPT !.step = "publish"]
    BY <1>3 DEF CertifyValidate, At, Step, Done, LaunchIInv, LaunchTypeOK
  <2>2. Vouched(job.arg, job.saw.of)
    BY <2>1 DEF LaunchIInv, Truthful, Vouched
  <2> QED BY <1>1, <2>1, <2>2, JobMoves DEF JobSteps
<1>4. CASE (QualifyValidate \/ ReceiptPublish \/ CollectGeometry) /\ job' # NoJob
  <2>1. \/ job.kind = "qualify" /\ job' = [job EXCEPT !.step = "publish"]
        \/ job.kind = "receipt" /\ job' = [job EXCEPT !.step = "seal"]
        \/ job.kind = "collect" /\ job' = [job EXCEPT !.step = "publish"]
    BY <1>4 DEF QualifyValidate, ReceiptPublish, CollectGeometry, At, Step, Done
  <2> QED BY <1>1, <2>1, JobMoves DEF JobSteps
<1>5. CASE LaunchStorage /\ job' # NoJob
  <2>1. /\ job.kind = "launch" /\ immutable /\ Lineage(job.argv) /\ Admitted
        /\ job' = [job EXCEPT !.step = "orders"]
    BY <1>5 DEF LaunchStorage, At, Step, Done, ReadOnly
  <2>2. Capacity - tenant >= Peak
    BY <2>1, AdmissionIsEnough DEF LaunchIInv
  <2> QED BY <1>1, <2>1, <2>2, JobMoves DEF JobSteps
<1>6. CASE LaunchOrders /\ job' # NoJob
  <2>1. At("launch", "orders") /\ job' = [job EXCEPT !.step = "authority"]
    BY <1>6 DEF LaunchOrders, Step, Done
  <2>2. immutable /\ Lineage(job.argv) /\ Capacity - tenant >= Peak /\ job.kind = "launch"
    BY <2>1 DEF LaunchIInv, Relying, Roomy, Mounted, At
  <2> QED BY <1>1, <2>1, <2>2, JobMoves DEF JobSteps
<1>7. CASE LaunchValidate /\ job' # NoJob
  <2>1. /\ At("launch", "authority") /\ job' = [job EXCEPT !.step = "exec"]
        /\ AuthorityStands(job.saw) /\ Commands(job.saw, job.argv)
    BY <1>7 DEF LaunchValidate, Step, Done
  <2>2. immutable /\ Lineage(job.argv) /\ Capacity - tenant >= Peak /\ job.kind = "launch"
    BY <2>1 DEF LaunchIInv, Relying, Roomy, Mounted, At
  <2>3. NamesFiles(job.saw) /\ job.saw.resume = job.argv
    BY <2>1 DEF AuthorityStands, GeometryStands, OrdersStand, CorpusStands, Certifies, Look,
                LookAtAll, Commands, NamesFiles
  <2> QED BY <1>1, <2>1, <2>2, <2>3, JobMoves DEF JobSteps
<1> QED BY <1>2, <1>3, <1>4, <1>5, <1>6, <1>7 DEF QualifyPublish, ReceiptSeal, KillJob, Done

\* A certificate is published for what was looked at before and after, and sealed.
LEMMA CertifyStep == ASSUME LaunchIInv, CertifyPublish \/ CertifySeal PROVE LaunchIInv'
<1>1. /\ job.kind = "certify" /\ job.arg \in Splits /\ run.pc = "off" /\ run'.pc = "off"
      /\ UNCHANGED <<data, immutable, authority, lineage, run, tenant>>
  BY DEF CertifyPublish, CertifySeal, At, quiet, inputsOfLaunch, LaunchIInv, LaunchTypeOK, InTurn
<1> USE <1>1
<1>2. CASE CertifyPublish /\ job' = NoJob
  BY <1>2, JobMoves DEF CertifyPublish, Step, Done, still, NoJob, JobSteps, LaunchIInv, LaunchTypeOK
<1>3. CASE CertifyPublish /\ job' # NoJob
  <2>1. /\ job' = [job EXCEPT !.step = "seal"] /\ job.step = "publish"
        /\ cert' = [cert EXCEPT ![job.arg] = Bare(job.saw)]
    BY <1>3 DEF CertifyPublish, Step, Done, At
  <2>2. /\ job'.kind = "certify" /\ job'.step = "seal" /\ job'.arg = job.arg /\ job'.saw = job.saw
        /\ job'.argv = job.argv
    BY <2>1 DEF LaunchIInv, LaunchTypeOK
  <2>3. /\ DOMAIN cert' = Splits /\ cert'[job.arg].at = "bare" /\ cert'[job.arg].v = job.saw
        /\ \A s \in Splits : s # job.arg => cert'[s] = cert[s]
    BY <2>1 DEF LaunchIInv, LaunchTypeOK, Bare
  <2>4. Vouched(job.arg, job.saw.of)
    BY <2>1 DEF LaunchIInv, Truthful
  <2>5. LaunchTypeOK'
    BY <2>1, <2>2, <2>3 DEF LaunchIInv, LaunchTypeOK, IsFile, JobSteps
  <2>6. InTurn' /\ Relying' /\ Roomy'
    BY <2>2, <2>3 DEF InTurn, Relying, Roomy, At, Mounted, Running
  <2>7. Truthful'
    BY <2>2, <2>3, <2>4, SMTT(30) DEF LaunchIInv, Truthful, Vouches, Vouched, Metadata
  <2> QED BY <2>5, <2>6, <2>7 DEF LaunchIInv
<1>4. CASE CertifySeal
  <2>1. /\ job' = NoJob /\ cert' = [cert EXCEPT ![job.arg] = Sealed(cert[job.arg].v)]
        /\ cert[job.arg].at # "absent"
    BY <1>4 DEF CertifySeal, Done, LaunchIInv, InTurn
  <2>2. job'.kind = "none" /\ job'.step = "none"
    BY <2>1 DEF NoJob
  <2>3. /\ DOMAIN cert' = Splits /\ cert'[job.arg].at = "sealed" /\ cert'[job.arg].v = cert[job.arg].v
        /\ \A s \in Splits : s # job.arg => cert'[s] = cert[s]
    BY <2>1 DEF LaunchIInv, LaunchTypeOK, Sealed
  <2>4. LaunchTypeOK'
    BY <2>1, <2>2, <2>3 DEF LaunchIInv, LaunchTypeOK, IsFile, JobSteps, NoJob
  <2>5. InTurn' /\ Relying' /\ Roomy'
    BY <2>2 DEF InTurn, Relying, Roomy, At, Mounted, Running
  <2>6. Truthful'
    BY <2>1, <2>2, <2>3, SMTT(30) DEF LaunchIInv, Truthful, Vouches, Vouched, Metadata
  <2> QED BY <2>4, <2>5, <2>6 DEF LaunchIInv
<1> QED BY <1>2, <1>3, <1>4

\* A run authority is published with the evidence it was collected from, and sealed.
LEMMA CollectStep == ASSUME LaunchIInv, CollectPublish \/ CollectSeal PROVE LaunchIInv'
<1>1. /\ job.kind = "collect" /\ job.arg \in Resumes /\ run.pc = "off" /\ run'.pc = "off"
      /\ UNCHANGED <<data, immutable, cert, lineage, run, tenant>>
  BY DEF CollectPublish, CollectSeal, At, quiet, inputsOfLaunch, LaunchIInv, LaunchTypeOK, InTurn
<1> USE <1>1
<1>2. CASE CollectPublish /\ job' = NoJob
  BY <1>2, JobMoves DEF CollectPublish, Step, Done, still, NoJob, JobSteps, LaunchIInv, LaunchTypeOK
<1>3. CASE CollectPublish /\ job' # NoJob
  <2>1. /\ job' = [job EXCEPT !.step = "seal"]
        /\ authority' = [authority EXCEPT ![job.arg] = Bare(job.saw)]
    BY <1>3 DEF CollectPublish, Step, Done, At
  <2>2. /\ job'.kind = "collect" /\ job'.step = "seal" /\ job'.arg = job.arg /\ job'.saw = job.saw
        /\ job'.argv = job.argv
    BY <2>1 DEF LaunchIInv, LaunchTypeOK
  <2>3. /\ DOMAIN authority' = Resumes /\ authority'[job.arg].at = "bare"
        /\ authority'[job.arg].v = job.saw
        /\ \A r \in Resumes : r # job.arg => authority'[r] = authority[r]
    BY <2>1 DEF LaunchIInv, LaunchTypeOK, Bare
  <2>4. Vouches(job.saw.cert)
    BY <2>1 DEF LaunchIInv, Truthful
  <2>5. LaunchTypeOK'
    BY <2>1, <2>2, <2>3 DEF LaunchIInv, LaunchTypeOK, IsFile, JobSteps
  <2>6. InTurn' /\ Relying' /\ Roomy'
    BY <2>2, <2>3 DEF InTurn, Relying, Roomy, At, Mounted, Running
  <2>7. Truthful'
    BY <2>2, <2>3, <2>4 DEF LaunchIInv, Truthful, Vouches, Vouched, Metadata
  <2> QED BY <2>5, <2>6, <2>7 DEF LaunchIInv
<1>4. CASE CollectSeal
  <2>1. /\ job' = NoJob /\ authority' = [authority EXCEPT ![job.arg] = Sealed(authority[job.arg].v)]
        /\ authority[job.arg].at # "absent"
    BY <1>4 DEF CollectSeal, Done, LaunchIInv, InTurn
  <2>2. job'.kind = "none" /\ job'.step = "none"
    BY <2>1 DEF NoJob
  <2>3. /\ DOMAIN authority' = Resumes /\ authority'[job.arg].at = "sealed"
        /\ authority'[job.arg].v = authority[job.arg].v
        /\ \A r \in Resumes : r # job.arg => authority'[r] = authority[r]
    BY <2>1 DEF LaunchIInv, LaunchTypeOK, Sealed
  <2>4. LaunchTypeOK'
    BY <2>1, <2>2, <2>3 DEF LaunchIInv, LaunchTypeOK, IsFile, JobSteps, NoJob
  <2>5. InTurn' /\ Relying' /\ Roomy'
    BY <2>2 DEF InTurn, Relying, Roomy, At, Mounted, Running
  <2>6. Truthful'
    <3>1. \A r \in Resumes : authority'[r].at # "absent" => Vouches(authority'[r].v.cert)
      BY <2>1, <2>3 DEF LaunchIInv, Truthful
    <3> QED BY <2>2, <3>1 DEF LaunchIInv, Truthful, Vouches, Vouched, Metadata
  <2> QED BY <2>4, <2>5, <2>6 DEF LaunchIInv
<1> QED BY <1>2, <1>3, <1>4

\* The launcher becomes the supervisor of a run that reads what its authority names.
LEMMA ExecStep == ASSUME LaunchIInv, LaunchExec PROVE LaunchIInv'
<1>1. /\ At("launch", "exec") /\ job' = NoJob /\ job'.kind = "none" /\ job'.step = "none"
      /\ run.pc = "off"
      /\ UNCHANGED <<data, immutable, cert, authority, lineage, tenant>>
  BY DEF LaunchExec, Done, NoJob, inputsOfLaunch, evidenceOfLaunch, LaunchIInv, InTurn, At
<1>2. CASE UNCHANGED run
  BY <1>1, <1>2, JobMoves DEF still, At, JobSteps
<1>3. CASE run' = [NoRun EXCEPT !.pc = "starting", !.resume = job.argv, !.by = job.saw]
  <2>1. run' = [pc |-> "starting", resume |-> job.argv, step |-> 0, rollback |-> FALSE,
                by |-> job.saw]
    BY <1>3 DEF NoRun
  <2>2. /\ immutable /\ Lineage(job.argv) /\ NamesFiles(job.saw) /\ job.saw.resume = job.argv
        /\ job.argv \in Resumes /\ Capacity - tenant >= Peak /\ Vouches(job.saw.cert)
    BY <1>1 DEF LaunchIInv, LaunchTypeOK, Truthful, Relying, Roomy, Mounted, At
  <2>3. \A s \in Splits : data[s].sound
    <3>1. ASSUME NEW s \in Splits PROVE data[s].sound
      <4>1. job.saw.cert[s] = [of |-> Metadata(s), by |-> job.saw.code["certifier"]]
        BY <2>2 DEF NamesFiles
      <4>2. job.saw.cert[s].of = Metadata(s)
        BY <4>1
      <4> QED BY <2>2, <4>2 DEF Vouches, Vouched
    <3> QED BY <3>1
  <2>4. LaunchTypeOK'
    BY <1>1, <2>1 DEF LaunchIInv, LaunchTypeOK, IsFile, JobSteps, NoJob, RunPlaces
  <2>5. InTurn' /\ Roomy'
    BY <1>1, <2>1, <2>2 DEF InTurn, Roomy, At, Mounted, Running
  <2>6. Relying'
    BY <1>1, <2>1, <2>2, <2>3 DEF Relying, At, Mounted, Running, NamesFiles, OrdersNow, Metadata,
                                  Lineage
  <2>7. Truthful'
    BY <1>1 DEF LaunchIInv, Truthful, Vouches, Vouched, Metadata
  <2> QED BY <2>4, <2>5, <2>6, <2>7 DEF LaunchIInv
<1> QED BY <1>2, <1>3 DEF LaunchExec

-----------------------------------------------------------------------------
(* The world, and the run.                                                  *)

\* Files that are made valid anew, under another identity.
LEMMA RenewedFiles ==
    ASSUME NEW d \in [order : Orders, sound : BOOLEAN, id : Nat], NEW n \in Nat
    PROVE  LET x == [d EXCEPT !.sound = TRUE, !.id = n]
           IN  x \in [order : Orders, sound : BOOLEAN, id : Nat] /\ x.id = n
  OBVIOUS

\* Files that change get another identity, and nothing relies on them: the root
\* is written to, mounted anew or restored while no launch or run needs it.
LEMMA WorldStep ==
    ASSUME LaunchIInv, EditData \/ Unlock \/ Reattach \/ Occupy \/ Mend
    PROVE  LaunchIInv'
<1>1. UNCHANGED <<cert, authority, job, lineage, run>>
  BY DEF EditData, Unlock, Reattach, Occupy, Mend, others, evidenceOfLaunch
<1>2. ~Mounted /\ run.pc = "off"
  <2>1. CASE EditData
    BY <2>1 DEF EditData, LaunchIInv, Relying
  <2>2. CASE Unlock \/ Reattach \/ Occupy \/ Mend
    BY <2>2 DEF Unlock, Reattach, Occupy, Mend, Relied, Mounted
  <2> QED BY <2>1, <2>2
<1>3. /\ data' \in [Splits -> [order : Orders, sound : BOOLEAN, id : Nat]]
      /\ \A s \in Splits : data'[s] = data[s] \/ data'[s].id = data[s].id + 1
  <2>0. data \in [Splits -> [order : Orders, sound : BOOLEAN, id : Nat]]
    BY DEF LaunchIInv, LaunchTypeOK
  <2>1. CASE EditData
    BY <2>0, <2>1 DEF EditData
  <2>2. CASE Reattach
    BY <2>0, <2>2 DEF Reattach
  <2>3. CASE UNCHANGED data
    BY <2>0, <2>3
  <2>4. CASE data' = [s \in Splits |-> IF data[s].sound THEN data[s]
                                       ELSE [data[s] EXCEPT !.sound = TRUE, !.id = @ + 1]]
    <3>1. ASSUME NEW s \in Splits
          PROVE  LET x == [data[s] EXCEPT !.sound = TRUE, !.id = data[s].id + 1]
                 IN  x \in [order : Orders, sound : BOOLEAN, id : Nat] /\ x.id = data[s].id + 1
      <4>1. data[s] \in [order : Orders, sound : BOOLEAN, id : Nat]
        BY <2>0
      <4> DEFINE n == data[s].id + 1
      <4>2. n \in Nat
        BY <4>1
      <4> HIDE DEF n
      <4> QED BY <4>1, <4>2, RenewedFiles DEF n
    <3> QED BY <2>0, <2>4, <3>1
  <2>5. Unlock \/ Occupy \/ Mend => \/ UNCHANGED data
            \/ data' = [s \in Splits |-> IF data[s].sound THEN data[s]
                                         ELSE [data[s] EXCEPT !.sound = TRUE, !.id = @ + 1]]
    BY DEF Unlock, Occupy, Mend, others, inputsOfLaunch
  <2> QED BY <2>1, <2>2, <2>3, <2>4, <2>5
<1>4. immutable' \in BOOLEAN /\ tenant' \in 0..MaxTenants
  <2>1. immutable' \in {immutable, TRUE, FALSE}
    BY DEF EditData, Unlock, Reattach, Occupy, Mend, others, inputsOfLaunch
  <2>2. tenant' = tenant \/ tenant' = 0 \/ tenant' \in 1..MaxTenants
    BY DEF EditData, Unlock, Reattach, Occupy, Mend, others, inputsOfLaunch
  <2>3. immutable \in BOOLEAN /\ tenant \in 0..MaxTenants /\ MaxTenants \in Nat
    BY LaunchAssumption DEF LaunchIInv, LaunchTypeOK
  <2>4. immutable' \in BOOLEAN
    BY <2>1, <2>3
  <2>5. tenant' \in 0..MaxTenants
    BY <2>2, <2>3
  <2> QED BY <2>4, <2>5
<1>5. \A s \in Splits : data[s].id \in Nat /\ 0..data[s].id \subseteq 0..data'[s].id
  BY <1>3 DEF LaunchIInv, LaunchTypeOK
<1>6. ASSUME NEW s \in Splits, NEW of, Vouched(s, of)
      PROVE  Vouched(s, of)'
  <2>1. CASE data'[s] = data[s]
    BY <1>6, <2>1 DEF Vouched, Metadata
  <2>2. CASE data'[s].id = data[s].id + 1
    <3>1. of.id \in 0..data'[s].id /\ of.id # data'[s].id
      BY <1>5, <1>6, <2>2 DEF Vouched
    <3>2. of # Metadata(s)'
      BY <3>1 DEF Metadata
    <3> QED BY <3>1, <3>2 DEF Vouched
  <2> QED BY <1>3, <2>1, <2>2
<1>7. LaunchTypeOK'
  BY <1>1, <1>3, <1>4 DEF LaunchIInv, LaunchTypeOK, IsFile
<1>8. InTurn' /\ Roomy' /\ Relying'
  BY <1>1, <1>2 DEF LaunchIInv, LaunchTypeOK, InTurn, Roomy, Relying, At, Mounted, Running
<1>9. Truthful'
  <2> DEFINE New(s, of) == /\ of.id \in 0..data'[s].id
                           /\ of = [order |-> data'[s].order, id |-> data'[s].id] => data'[s].sound
  <2>1. \A s \in Splits : \A of : Vouched(s, of) => New(s, of)
    BY <1>6 DEF Vouched, Metadata
  <2>2. \A s \in Splits : cert[s].at # "absent" => New(s, cert[s].v.of)
    BY <2>1 DEF LaunchIInv, Truthful
  <2>3. \A r \in Resumes : authority[r].at # "absent" =>
                             \A s \in Splits : New(s, authority[r].v.cert[s].of)
    BY <2>1 DEF LaunchIInv, Truthful, Vouches
  <2>4. job.kind = "certify" =>
          /\ job.saw.of.id \in 0..data'[job.arg].id
          /\ job.step # "validate" => New(job.arg, job.saw.of)
    BY <1>5, <2>1 DEF LaunchIInv, Truthful, LaunchTypeOK
  <2>5. job.kind \in {"collect", "launch"} => \A s \in Splits : New(s, job.saw.cert[s].of)
    BY <2>1 DEF LaunchIInv, Truthful, Vouches
  <2> QED BY <1>1, <2>2, <2>3, <2>4, <2>5 DEF Truthful, Vouches, Vouched, Metadata
<1> QED BY <1>7, <1>8, <1>9 DEF LaunchIInv

\* A run that only changes its own state and the lineage, and goes on relying on
\* the files in place.
LEMMA RunMoves ==
    ASSUME LaunchIInv, run.pc # "off",
           UNCHANGED <<data, immutable, cert, authority, job, tenant>>,
           run' \in [pc : RunPlaces, resume : {run.resume}, step : Nat, rollback : BOOLEAN,
                     by : {run.by}],
           lineage' \in [last : Nat, prev : Nat, link : Nat, parts : Nat],
           run'.pc \notin {"off", "starting"},
           Running("training")' => lineage'.link = 0 /\ lineage'.parts = 0,
           Running("link")' => lineage'.link = 0 /\ lineage'.parts = 1,
           Running("replace")' => lineage'.parts = 1,
           Running("rotate")' => lineage'.parts = 0
    PROVE  LaunchIInv'
<1>1. job.kind = "none" /\ run'.resume = run.resume /\ run'.by = run.by
  BY DEF LaunchIInv, InTurn
<1>2. LaunchTypeOK'
  BY <1>1 DEF LaunchIInv, LaunchTypeOK, IsFile
<1>3. InTurn' /\ Roomy'
  BY <1>1 DEF LaunchIInv, InTurn, Roomy, At, Mounted, Running
<1>4. Relying'
  BY <1>1 DEF LaunchIInv, Relying, At, Mounted, Running, NamesFiles, OrdersNow, Metadata
<1>5. Truthful'
  BY <1>1 DEF LaunchIInv, Truthful, Vouches, Vouched, Metadata
<1> QED BY <1>2, <1>3, <1>4, <1>5 DEF LaunchIInv

\* A run that starts sweeps what was left of a killed save.
LEMMA RunStartStep == ASSUME LaunchIInv, RunStart PROVE LaunchIInv'
<1>1. /\ run.pc = "starting" /\ run.resume \in Resumes
      /\ UNCHANGED <<data, immutable, cert, authority, job, tenant>>
      /\ lineage' = [lineage EXCEPT !.parts = 0, !.link = 0]
  BY DEF RunStart, Running, calm, inputsOfLaunch, evidenceOfLaunch, Swept, LaunchIInv, Relying
<1>2. lineage \in [last : Nat, prev : Nat, link : Nat, parts : Nat]
  BY DEF LaunchIInv, LaunchTypeOK
<1>3. /\ lineage' \in [last : Nat, prev : Nat, link : Nat, parts : Nat]
      /\ lineage'.link = 0 /\ lineage'.parts = 0
  BY <1>1, <1>2
<1>4. PICK n \in Nat, b \in BOOLEAN :
         run' = [run EXCEPT !.pc = "training", !.rollback = b, !.step = n]
  <2>1. CASE run.resume = "none"
    BY <2>1, <1>2 DEF RunStart
  <2>2. CASE run.resume = "latest"
    BY <2>2, <1>2 DEF RunStart
  <2>3. CASE run.resume = "previous"
    BY <2>3, <1>2 DEF RunStart
  <2> QED BY <1>1, <2>1, <2>2, <2>3 DEF Resumes
<1>5. /\ run' \in [pc : RunPlaces, resume : {run.resume}, step : Nat, rollback : BOOLEAN,
                   by : {run.by}]
      /\ run'.pc = "training"
  BY <1>4 DEF LaunchIInv, LaunchTypeOK, RunPlaces
<1> QED BY <1>1, <1>3, <1>5, RunMoves DEF Running

\* A save by rotation.
LEMMA SaveStep ==
    ASSUME LaunchIInv, SaveWrite \/ SaveLink \/ SaveReplace \/ SaveRotate
    PROVE  LaunchIInv'
<1>1. /\ run.pc \in {"training", "link", "replace", "rotate"}
      /\ UNCHANGED <<data, immutable, cert, authority, job, tenant>>
  BY DEF SaveWrite, SaveLink, SaveReplace, SaveRotate, Running, calm, inputsOfLaunch,
         evidenceOfLaunch
<1> DEFINE Lineages == [last : Nat, prev : Nat, link : Nat, parts : Nat]
           Runs == [pc : RunPlaces, resume : {run.resume}, step : Nat, rollback : BOOLEAN,
                    by : {run.by}]
<1>2. lineage \in Lineages /\ run \in Runs
  BY DEF LaunchIInv, LaunchTypeOK
<1>3. CASE SaveWrite
  <2>1. Running("training") /\ Free # 0
    BY <1>3, TrainingHasRoom DEF SaveWrite
  <2>2. PICK pc \in {"link", "replace"} : run' = [run EXCEPT !.step = run.step + 1, !.pc = pc]
    BY <1>3, <2>1 DEF SaveWrite
  <2>3. lineage' = [lineage EXCEPT !.parts = lineage.parts + 1]
    BY <1>3, <2>1 DEF SaveWrite
  <2>4. lineage.link = 0 /\ lineage.parts = 0
    BY <2>1 DEF LaunchIInv, Roomy
  <2>5. lineage' \in Lineages /\ lineage'.link = 0 /\ lineage'.parts = 1
    BY <1>2, <2>3, <2>4
  <2>6. run' \in Runs /\ run'.pc \in {"link", "replace"}
    <3> DEFINE n == run.step + 1
    <3>1. n \in Nat
      BY <1>2
    <3> HIDE DEF n
    <3>2. run' = [run EXCEPT !.step = n, !.pc = pc]
      BY <2>2 DEF n
    <3> QED BY <1>2, <3>1, <3>2 DEF RunPlaces
  <2> QED BY <1>1, <2>5, <2>6, RunMoves DEF Running
<1>4. CASE SaveLink
  <2>1. lineage' = [lineage EXCEPT !.link = lineage.last] /\ run' = [run EXCEPT !.pc = "replace"]
    BY <1>4 DEF SaveLink
  <2>2. lineage.parts = 1
    BY <1>4 DEF SaveLink, LaunchIInv, Roomy
  <2>3. lineage' \in Lineages /\ lineage'.parts = 1
    BY <1>2, <2>1, <2>2
  <2>4. run' \in Runs /\ run'.pc = "replace"
    BY <1>2, <2>1 DEF RunPlaces
  <2> QED BY <1>1, <2>3, <2>4, RunMoves DEF Running
<1>5. CASE SaveReplace
  <2>1. PICK pc \in {"rotate", "training"} :
           /\ run' = [run EXCEPT !.pc = pc, !.rollback = FALSE]
           /\ pc = "training" => lineage.link = 0
    BY <1>5 DEF SaveReplace
  <2>2. lineage' = [lineage EXCEPT !.last = run.step, !.parts = lineage.parts - 1]
    BY <1>5 DEF SaveReplace
  <2>3. lineage.parts = 1
    BY <1>5 DEF SaveReplace, LaunchIInv, Roomy
  <2>4. lineage' \in Lineages /\ lineage'.parts = 0 /\ lineage'.link = lineage.link
    <3>1. lineage' = [lineage EXCEPT !.last = run.step, !.parts = 0] /\ run.step \in Nat
      BY <1>2, <2>2, <2>3
    <3> QED BY <1>2, <3>1
  <2>5. run' \in Runs /\ run'.pc = pc
    BY <1>2, <2>1 DEF RunPlaces
  <2> QED BY <1>1, <2>1, <2>4, <2>5, RunMoves DEF Running
<1>6. CASE SaveRotate
  <2>1. /\ lineage' = [lineage EXCEPT !.prev = lineage.link, !.link = 0]
        /\ run' = [run EXCEPT !.pc = "training"]
    BY <1>6 DEF SaveRotate
  <2>2. lineage.parts = 0
    BY <1>6 DEF SaveRotate, LaunchIInv, Roomy
  <2>3. lineage' \in Lineages /\ lineage'.parts = 0 /\ lineage'.link = 0
    BY <1>2, <2>1, <2>2
  <2>4. run' \in Runs /\ run'.pc = "training"
    BY <1>2, <2>1 DEF RunPlaces
  <2> QED BY <1>1, <2>3, <2>4, RunMoves DEF Running
<1> QED BY <1>3, <1>4, <1>5, <1>6

\* A run that ends, or is killed between two files.
LEMMA RunEndStep == ASSUME LaunchIInv, RunEnds \/ KillRun PROVE LaunchIInv'
<1>1. /\ run' = NoRun /\ run.pc # "off" /\ job.kind = "none" /\ run'.pc = "off"
      /\ UNCHANGED <<data, immutable, cert, authority, job, lineage, tenant>>
  BY DEF RunEnds, KillRun, Running, calm, inputsOfLaunch, evidenceOfLaunch, NoRun, LaunchIInv, InTurn
<1>2. LaunchTypeOK'
  BY <1>1 DEF LaunchIInv, LaunchTypeOK, IsFile, NoRun, RunPlaces
<1>3. InTurn' /\ Roomy' /\ Relying'
  BY <1>1 DEF InTurn, Roomy, Relying, At, Mounted, Running
<1>4. Truthful'
  BY <1>1 DEF LaunchIInv, Truthful, Vouches, Vouched, Metadata
<1> QED BY <1>2, <1>3, <1>4 DEF LaunchIInv

-----------------------------------------------------------------------------
(* The launch.                                                              *)

\* At first there is no evidence, no command and no run.
LEMMA InitiallyNothing == LaunchInit => LaunchIInv
<1> SUFFICES ASSUME LaunchInit PROVE LaunchIInv
  OBVIOUS
<1>1. (CHOOSE o \in Orders : TRUE) \in Orders
  BY LaunchAssumption
<1>2. LaunchTypeOK
  BY <1>1, LaunchAssumption DEF LaunchInit, LaunchTypeOK, IsFile, Absent, NoJob, NoRun, NoLineage,
       JobSteps, RunPlaces
<1>3. InTurn /\ Truthful /\ Relying /\ Roomy
  BY DEF LaunchInit, InTurn, Truthful, Relying, Roomy, At, Mounted, Running, NoJob, NoRun, Absent
<1> QED BY <1>2, <1>3 DEF LaunchIInv

\* Every step keeps the invariant.
LEMMA LaunchNextStep == LaunchIInv /\ [LaunchNext]_launchVars => LaunchIInv'
<1> SUFFICES ASSUME LaunchIInv, [LaunchNext]_launchVars PROVE LaunchIInv'
  OBVIOUS
<1>1. CASE UNCHANGED launchVars
  BY <1>1, NothingMoves DEF launchVars, still, inputsOfLaunch, evidenceOfLaunch
<1>2. CASE Operate
  BY <1>2, BeginStep, WorldStep DEF Operate
<1>3. CASE JobStep
  BY <1>3, LookStep, CertifyStep, CollectStep, ExecStep DEF JobStep
<1>4. CASE RunStep
  BY <1>4, RunStartStep, SaveStep, RunEndStep DEF RunStep
<1>5. CASE World
  <2>1. CASE Commit \/ LoseGrid
    BY <2>1, NothingMoves DEF Commit, LoseGrid, others, evidenceOfLaunch, still
  <2> QED BY <1>5, <2>1, WorldStep, LookStep, RunEndStep DEF World
<1> QED BY <1>1, <1>2, <1>3, <1>4, <1>5 DEF LaunchNext

\* What evidence says of files that are still in place is true; a launch relies on
\* a root that nobody writes to; the room it admitted is a whole rotation's.
THEOREM LaunchInvariant == LaunchSpec => []LaunchIInv
  BY InitiallyNothing, LaunchNextStep, PTL DEF LaunchSpec

\* LaunchedIsQualified: however files, code and evidence change between the
\* commands, a run reads valid files, those its authority's evidence names.
THEOREM LaunchedStaysQualified == LaunchSpec => []LaunchedIsQualified
<1>1. LaunchIInv => LaunchedIsQualified
  BY DEF LaunchIInv, Relying, NamesFiles, Running, LaunchedIsQualified
<1> QED BY <1>1, LaunchInvariant, PTL

\* SavesHaveRoom: a run that was admitted finds room for each of its saves,
\* whatever a killed save left and however often runs were killed.
THEOREM SavesAlwaysHaveRoom == LaunchSpec => []SavesHaveRoom
<1>1. LaunchIInv => SavesHaveRoom
  BY DEF LaunchIInv, LaunchTypeOK, RunPlaces, SavesHaveRoom
<1> QED BY <1>1, LaunchInvariant, PTL
=============================================================================
