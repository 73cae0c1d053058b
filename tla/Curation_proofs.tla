----------------------------- MODULE Curation_proofs -----------------------------
(***************************************************************************)
(* Proofs about the output volume of Curation, for any number of pods and  *)
(* any retention, alone and under the launcher and publisher of Selection. *)
(*                                                                         *)
(* The lease is the token of the one process that holds one; who recovers  *)
(* a stale lease won its claim first, once for all; and a generation       *)
(* without a manifest is the newest and no other is begun beside it.       *)
(*                                                                         *)
(* Then the databases: every one a process works on, a pod keeps or a      *)
(* generation holds has, at every stage it can stand at, the rows the      *)
(* stages before it should have left, whatever the batches, the kills and  *)
(* the restarts in between; and so the decisions filed beside a manifest   *)
(* are the ones the policy asks for.                                       *)
(*                                                                         *)
(* Then the handoff: what the launcher records is a complete generation of *)
(* a finished database and stays one, and what the publisher wrote is the  *)
(* choice of the policy, from whichever generation it was bound to.  So    *)
(* the materializer packs what is signed.                                  *)
(***************************************************************************)
EXTENDS Selection, FiniteSetTheorems, SequenceTheorems, WellFoundedInduction, TLAPS

Recovering == {"claim", "reread", "archive"}
Owning == {"open", "work", "filed", "sign", "leave", "snapshot", "retire", "unlink", "copied",
           "published", "promote", "release"}
Processes ==
    [pc : {"off", "link"} \cup Recovering \cup Owning, token : Nat \cup {None},
     stale : Nat \cup {None}, leaving : BOOLEAN, final : BOOLEAN]

IsGeneration(x) ==
    x \in [stage : {"dir", "manifest", "complete"}, db : {x.db}, prev : {x.prev},
           receipt : {"none", "torn", "whole"}, payload : BOOLEAN]
IsHistory(s) ==
    /\ Len(s) \in Nat /\ s = [g \in 1..Len(s) |-> s[g]]
    /\ \A g \in 1..Len(s) : IsGeneration(s[g])

VolumeTypeOK ==
    /\ procs \in [Pods -> Processes]
    /\ tokens \in Nat /\ lease \in {None} \cup 1..tokens /\ claims \in SUBSET (1..tokens)
    /\ IsHistory(snaps)

(* The process that holds a token holds the lease.                         *)
Holders ==
    /\ \A p \in Pods : Holding(p) <=> procs[p].pc \in Owning
    /\ \A p \in Pods : Holding(p) => procs[p].token = lease
    /\ \A p, q \in Pods : Holding(p) /\ Holding(q) => p = q

(* The owner of a stale token is gone for good, and the token is the lease *)
(* until the one process that claimed it archives it.                      *)
Recoveries ==
    /\ \A p \in Pods : procs[p].pc \in Recovering =>
          procs[p].stale \in 1..tokens /\ ~Alive(procs[p].stale)
    /\ \A p \in Pods : At(p, "claim") /\ procs[p].stale \notin claims => lease = procs[p].stale
    /\ \A p \in Pods : procs[p].pc \in {"reread", "archive"} =>
          procs[p].stale \in claims /\ lease = procs[p].stale
    /\ \A p, q \in Pods :
          procs[p].pc \in {"reread", "archive"} /\ procs[q].pc \in {"reread", "archive"} => p = q

(* A generation without a manifest is the newest, and its writer is at it  *)
(* or gone.                                                                *)
Partial == {g \in DOMAIN snaps : snaps[g].stage = "dir"}
OnePartial ==
    /\ \A g \in Partial : g = Len(snaps)
    /\ Partial # {} => \A p \in Pods : Holding(p) => procs[p].pc \in {"open", "copied"}

Payloads == {g \in DOMAIN snaps : snaps[g].payload}
Retained == Cardinality(Payloads) <= Retention

IInv == VolumeTypeOK /\ Holders /\ Recoveries /\ OnePartial /\ Retained
-----------------------------------------------------------------------------
(* Histories.                                                               *)

\* A generation with one field changed is a generation.
LEMMA GenerationFields ==
    ASSUME NEW x, IsGeneration(x)
    PROVE  /\ \A v \in {"dir", "manifest", "complete"} :
                 IsGeneration([x EXCEPT !.stage = v])
                 /\ [x EXCEPT !.stage = v].stage = v /\ [x EXCEPT !.stage = v].payload = x.payload
           /\ \A v \in {"none", "torn", "whole"} :
                 IsGeneration([x EXCEPT !.receipt = v])
                 /\ [x EXCEPT !.receipt = v].receipt = v /\ [x EXCEPT !.receipt = v].stage = x.stage
                 /\ [x EXCEPT !.receipt = v].payload = x.payload
           /\ IsGeneration([x EXCEPT !.payload = FALSE])
           /\ [x EXCEPT !.payload = FALSE].stage = x.stage
           /\ ~[x EXCEPT !.payload = FALSE].payload
           /\ [x EXCEPT !.payload = FALSE].receipt = x.receipt
<1>1. ASSUME NEW v \in {"dir", "manifest", "complete"}
      PROVE  LET y == [x EXCEPT !.stage = v]
             IN  IsGeneration(y) /\ y.stage = v /\ y.payload = x.payload
  BY <1>1 DEF IsGeneration
<1>2. ASSUME NEW v \in {"none", "torn", "whole"}
      PROVE  LET y == [x EXCEPT !.receipt = v]
             IN  IsGeneration(y) /\ y.receipt = v /\ y.stage = x.stage /\ y.payload = x.payload
  BY <1>2 DEF IsGeneration
<1>3. LET y == [x EXCEPT !.payload = FALSE]
      IN  IsGeneration(y) /\ y.stage = x.stage /\ ~y.payload /\ y.receipt = x.receipt
  BY DEF IsGeneration
<1> QED BY <1>1, <1>2, <1>3, Zenon

\* Cleaning leaves the stages and removes payloads only.
LEMMA CleanedHistory ==
    ASSUME NEW s, IsHistory(s)
    PROVE  /\ IsHistory(Cleaned(s)) /\ Len(Cleaned(s)) = Len(s)
           /\ DOMAIN Cleaned(s) = 1..Len(s)
           /\ \A g \in 1..Len(s) :
                 /\ Cleaned(s)[g].stage = s[g].stage
                 /\ Cleaned(s)[g].receipt = s[g].receipt
                 /\ Cleaned(s)[g].payload <=> s[g].payload /\ s[g].receipt # "whole"
<1> DEFINE Clear(g) == IF s[g].receipt = "whole" THEN [s[g] EXCEPT !.payload = FALSE] ELSE s[g]
           n == Len(s)
<1>1. n \in Nat /\ DOMAIN s = 1..n /\ \A g \in 1..n : IsGeneration(s[g])
  BY DEF IsHistory
<1>2. Cleaned(s) = [g \in 1..n |-> Clear(g)]
  BY <1>1 DEF Cleaned
<1>3. \A g \in 1..n : /\ IsGeneration(Clear(g)) /\ Clear(g).stage = s[g].stage
                      /\ Clear(g).receipt = s[g].receipt
                      /\ Clear(g).payload <=> s[g].payload /\ s[g].receipt # "whole"
  <2>1. ASSUME NEW g \in 1..n
        PROVE  /\ IsGeneration(Clear(g)) /\ Clear(g).stage = s[g].stage
               /\ Clear(g).receipt = s[g].receipt
               /\ Clear(g).payload <=> s[g].payload /\ s[g].receipt # "whole"
    <3>1. IsGeneration(s[g]) /\ s[g].payload \in BOOLEAN
      BY <1>1 DEF IsGeneration
    <3> QED BY <3>1, GenerationFields
  <2> QED BY <2>1
<1> HIDE DEF Clear, n
<1>4. Len(Cleaned(s)) = n /\ DOMAIN Cleaned(s) = 1..n /\ \A g \in 1..n : Cleaned(s)[g] = Clear(g)
  BY <1>1, <1>2
<1>5. Cleaned(s) = [g \in 1..n |-> Cleaned(s)[g]]
  BY <1>2, <1>4
<1> QED BY <1>1, <1>3, <1>4, <1>5 DEF IsHistory, n

\* The payloads of a set of generations are finitely many.
LEMMA PayloadsFinite ==
    ASSUME NEW n \in Nat, NEW S \in SUBSET (1..n), NEW T \in SUBSET S
    PROVE  IsFiniteSet(S) /\ Cardinality(S) \in Nat /\ Cardinality(T) \in Nat
             /\ Cardinality(T) <= Cardinality(S)
<1>1. IsFiniteSet(1..n)
  BY FS_Interval
<1>2. IsFiniteSet(S)
  BY <1>1, FS_Subset
<1>3. IsFiniteSet(T) /\ Cardinality(T) <= Cardinality(S)
  BY <1>2, FS_Subset
<1> QED BY <1>2, <1>3, FS_CardinalityType

\* When every published generation is valid and few are recoverable, there is
\* room for one more.
LEMMA RoomForOne ==
    ASSUME IsHistory(snaps), Corrupt = {}, Partial = {}, ~TooMany,
           NEW S \in SUBSET {g \in DOMAIN snaps : snaps[g].payload /\ snaps[g].receipt # "whole"}
    PROVE  Cardinality(S \cup {Len(snaps) + 1}) <= Retention
<1> DEFINE n == Len(snaps)
<1>1. n \in Nat /\ DOMAIN snaps = 1..n /\ S \subseteq 1..n
  BY DEF IsHistory
<1>2. S \subseteq Recoverable /\ Recoverable \subseteq 1..n
  <2>1. ASSUME NEW g \in S PROVE g \in Recoverable
    <3>1. Published(g) /\ Valid(g)
      BY <1>1 DEF Corrupt, Partial, Published
    <3>2. snaps[g].receipt # "torn" /\ snaps[g].receipt # "whole" /\ IsGeneration(snaps[g])
      BY <3>1, <1>1 DEF Valid, Sound, IsHistory
    <3>3. snaps[g].receipt = "none"
      BY <3>2 DEF IsGeneration
    <3> QED BY <3>1, <3>3, <1>1 DEF Recoverable
  <2> QED BY <2>1, <1>1 DEF Recoverable
<1> HIDE DEF n
<1>3. Cardinality(S) \in Nat /\ Cardinality(S) <= Cardinality(Recoverable) /\ IsFiniteSet(S)
        /\ Cardinality(Recoverable) \in Nat
  <2>1. IsFiniteSet(S)
    BY <1>1, PayloadsFinite
  <2> QED BY <2>1, <1>1, <1>2, PayloadsFinite
<1>4. n + 1 \notin S
  BY <1>1
<1>5. Cardinality(S \cup {n + 1}) = Cardinality(S) + 1
  BY <1>3, <1>4, FS_AddElement
<1>6. Cardinality(Recoverable) < Retention
  BY <1>3, CurationAssumption DEF TooMany
<1> QED BY <1>3, <1>5, <1>6, CurationAssumption DEF n

-----------------------------------------------------------------------------
(* The lease.                                                               *)

(* A process that holds a token goes on with it.                           *)
Stays(p) == \E x \in Processes :
    /\ procs' = [procs EXCEPT ![p] = x]
    /\ x.pc \in Owning /\ x.token = procs[p].token

\* A holder that only moves, stays.
LEMMA GotoStays ==
    ASSUME VolumeTypeOK, NEW p \in Pods, NEW pc \in Owning, Goto(p, pc)
    PROVE  Stays(p) /\ procs'[p].pc = pc
<1>1. procs[p] \in Processes
  BY DEF VolumeTypeOK
<1>2. [procs[p] EXCEPT !.pc = pc] \in Processes
  BY <1>1 DEF Processes
<1>3. procs' = [procs EXCEPT ![p] = [procs[p] EXCEPT !.pc = pc]]
  BY DEF Goto, VolumeTypeOK
<1> QED BY <1>1, <1>2, <1>3 DEF Stays, VolumeTypeOK, Processes

\* The lease does not change hands while its holder works.
LEMMA StaysLease ==
    ASSUME IInv, NEW p \in Pods, procs[p].pc \in Owning, Stays(p), UNCHANGED leaseVars
    PROVE  procs' \in [Pods -> Processes] /\ Holders' /\ Recoveries'
<1> USE DEF leaseVars
<1>1. PICK x \in Processes : /\ procs' = [procs EXCEPT ![p] = x]
                             /\ x.pc \in Owning /\ x.token = procs[p].token
  BY DEF Stays
<1>2. procs' \in [Pods -> Processes]
  BY <1>1 DEF IInv, VolumeTypeOK
<1>3. \A q \in Pods : /\ procs'[q].token = procs[q].token
                      /\ q # p => procs'[q] = procs[q]
                      /\ procs'[q].pc \in Owning <=> procs[q].pc \in Owning
  BY <1>1 DEF IInv, VolumeTypeOK
<1>4. Holders'
  BY <1>3 DEF IInv, Holders, Holding
<1>5. \A q \in Pods : procs'[q].pc \in Recovering => q # p
  BY <1>1 DEF IInv, VolumeTypeOK, Recovering, Owning
<1>6. Recoveries'
  BY <1>3, <1>5 DEF IInv, Recoveries, Recovering, At, Alive
<1> QED BY <1>2, <1>4, <1>6

\* A process that ends lets no one in.
LEMMA EndedLease ==
    ASSUME IInv, NEW p \in Pods, Ended(p), UNCHANGED leaseVars
    PROVE  procs' \in [Pods -> Processes] /\ Holders' /\ Recoveries'
<1> USE DEF leaseVars
<1>1. procs' = [procs EXCEPT ![p] = Off] /\ Off \in Processes /\ Off.token = None /\ Off.pc = "off"
  BY DEF Ended, Off, Processes
<1> HIDE DEF Off
<1>2. procs' \in [Pods -> Processes]
  BY <1>1 DEF IInv, VolumeTypeOK
<1>3. /\ procs'[p].token = None /\ procs'[p].pc = "off"
      /\ \A q \in Pods : q # p => procs'[q] = procs[q]
  BY <1>1 DEF IInv, VolumeTypeOK
<1>4. Holders'
  BY <1>3 DEF IInv, Holders, Holding, Owning
<1>5. \A token : token # None /\ Alive(token)' => Alive(token)
  BY <1>3 DEF Alive
<1>6. None \notin 1..tokens
  BY CurationAssumption DEF IInv, VolumeTypeOK
<1>7. Recoveries'
  BY <1>3, <1>5, <1>6 DEF IInv, Recoveries, Recovering, At
<1> QED BY <1>2, <1>4, <1>7

\* The history is not touched, and no holder leaves the partial generation.
LEMMA HistoryKept ==
    ASSUME IInv, UNCHANGED snaps,
           \A q \in Pods : procs'[q].token # None =>
              \/ procs'[q].pc = "open"
              \/ procs[q].token # None /\ (\/ procs'[q].pc = procs[q].pc
                                           \/ procs[q].pc \notin {"open", "copied"})
    PROVE  IsHistory(snaps)' /\ OnePartial' /\ Retained'
<1>1. IsHistory(snaps)' /\ Retained'
  BY DEF IInv, VolumeTypeOK, IsHistory, IsGeneration, Retained, Payloads
<1>2. Partial' = Partial
  BY DEF Partial
<1>3. OnePartial'
  BY <1>2 DEF IInv, OnePartial, Holding
<1> QED BY <1>1, <1>3

\* A holder that works away from the snapshots.
LEMMA WorksAside ==
    ASSUME IInv, NEW p \in Pods, procs[p].pc \in Owning \ {"open", "copied"}, Stays(p),
           UNCHANGED <<leaseVars, snaps>>
    PROVE  IInv'
<1>1. procs' \in [Pods -> Processes] /\ Holders' /\ Recoveries'
  BY StaysLease
<1>2. PICK x \in Processes : procs' = [procs EXCEPT ![p] = x] /\ x.token = procs[p].token
  BY DEF Stays
<1>3. \A q \in Pods : procs'[q].token = procs[q].token /\ (q # p => procs'[q] = procs[q])
  BY <1>2 DEF IInv, VolumeTypeOK
<1>4. IsHistory(snaps)' /\ OnePartial' /\ Retained'
  BY <1>3, HistoryKept
<1> QED BY <1>1, <1>4 DEF IInv, VolumeTypeOK, leaseVars

\* A process that ends, whatever it was about.
LEMMA EndsAside ==
    ASSUME IInv, NEW p \in Pods, Ended(p), UNCHANGED <<leaseVars, snaps>>
    PROVE  IInv'
<1>1. procs' \in [Pods -> Processes] /\ Holders' /\ Recoveries'
  BY EndedLease
<1>2. \A q \in Pods : q # p => procs'[q] = procs[q]
  BY DEF Ended, IInv, VolumeTypeOK
<1>3. procs'[p].token = None
  BY DEF Ended, Off, IInv, VolumeTypeOK
<1>4. IsHistory(snaps)' /\ OnePartial' /\ Retained'
  BY <1>2, <1>3, HistoryKept
<1> QED BY <1>1, <1>4 DEF IInv, VolumeTypeOK, leaseVars

\* Nothing of the volume changes.
LEMMA NothingChanges == ASSUME IInv, UNCHANGED <<procs, leaseVars, snaps>> PROVE IInv'
  BY DEF IInv, VolumeTypeOK, IsHistory, IsGeneration, Holders, Holding, Recoveries, At, Alive,
         OnePartial, Partial, Retained, Payloads, leaseVars

\* Who is not a holder has no token.
LEMMA NoToken ==
    ASSUME IInv, NEW p \in Pods, procs[p].pc \notin Owning
    PROVE  procs[p].token = None
  BY DEF IInv, Holders, Holding

\* A process starts: for a free lease, or with the dead owner's token it names.
LEMMA StartStep == ASSUME IInv, NEW p \in Pods, Start(p) PROVE IInv'
<1>0. /\ procs[p].pc = "off" /\ procs[p].token = None /\ procs[p] \in Processes
      /\ UNCHANGED <<leaseVars, snaps>>
  BY NoToken DEF Start, At, Owning, IInv, VolumeTypeOK
<1> USE <1>0 DEF leaseVars
<1>1. ASSUME NEW x \in Processes, procs' = [procs EXCEPT ![p] = x], x.token = None,
             \/ x.pc = "link"
             \/ x.pc = "claim" /\ x.stale = lease /\ lease # None /\ ~Alive(lease)
      PROVE  IInv'
  <2>1. procs' \in [Pods -> Processes]
    BY <1>1 DEF IInv, VolumeTypeOK
  <2>2. procs'[p] = x /\ \A q \in Pods : q # p => procs'[q] = procs[q]
    BY <1>1 DEF IInv, VolumeTypeOK
  <2>3. Holders'
    BY <1>1, <2>2 DEF IInv, Holders, Holding, Owning
  <2>4. \A token : Alive(token)' <=> Alive(token)
    BY <1>1, <2>2 DEF Alive
  <2>5. Recoveries'
    BY <1>1, <2>2, <2>4 DEF IInv, VolumeTypeOK, Recoveries, Recovering, At
  <2>6. IsHistory(snaps)' /\ OnePartial' /\ Retained'
    BY <1>1, <2>2, HistoryKept
  <2> QED BY <2>1, <2>3, <2>5, <2>6 DEF IInv, VolumeTypeOK
<1>2. CASE Goto(p, "link")
  <2> DEFINE x == [procs[p] EXCEPT !.pc = "link"]
  <2>1. x \in Processes /\ x.token = None /\ x.pc = "link"
    BY DEF Processes
  <2>2. procs' = [procs EXCEPT ![p] = x]
    BY <1>2 DEF Goto, IInv, VolumeTypeOK
  <2> QED BY <1>1, <2>1, <2>2
<1>3. CASE /\ lease # None /\ ~Alive(lease)
           /\ procs' = [procs EXCEPT ![p].pc = "claim", ![p].stale = lease]
  <2> DEFINE x == [procs[p] EXCEPT !.pc = "claim", !.stale = lease]
  <2>1. lease \in Nat
    BY <1>3 DEF IInv, VolumeTypeOK
  <2>2. x \in Processes /\ x.token = None /\ x.pc = "claim" /\ x.stale = lease
    BY <2>1 DEF Processes, Recovering
  <2>3. procs' = [procs EXCEPT ![p] = x]
    BY <1>3 DEF IInv, VolumeTypeOK
  <2> QED BY <1>1, <1>3, <2>2, <2>3
<1> QED BY <1>2, <1>3 DEF Start

\* The claim of a stale token is won by one process, once.
LEMMA PublishClaimStep == ASSUME IInv, NEW p \in Pods, PublishClaim(p) PROVE IInv'
<1>0. procs[p].pc = "claim" /\ procs[p] \in Processes /\ UNCHANGED <<lease, tokens, snaps>>
  BY DEF PublishClaim, At, IInv, VolumeTypeOK
<1>1. CASE ~Claimable(procs[p].stale)
  BY <1>1, EndsAside DEF PublishClaim, leaseVars
<1>2. CASE Claimable(procs[p].stale)
  <2> DEFINE stale == procs[p].stale
             x == [procs[p] EXCEPT !.pc = "reread"]
  <2>1. /\ stale \in 1..tokens /\ ~Alive(stale) /\ lease = stale /\ stale \notin claims
        /\ claims' = claims \cup {stale}
    BY <1>0, <1>2 DEF IInv, Recoveries, Recovering, At, Claimable, PublishClaim
  <2>2. procs' = [procs EXCEPT ![p] = x] /\ x \in Processes /\ x.pc = "reread"
          /\ x.token = procs[p].token /\ x.stale = stale
    BY <1>0, <1>2 DEF PublishClaim, Goto, IInv, VolumeTypeOK, Processes, Recovering
  <2> HIDE DEF x
  <2>3. procs' \in [Pods -> Processes] /\ procs'[p] = x
          /\ \A q \in Pods : q # p => procs'[q] = procs[q]
    BY <2>2 DEF IInv, VolumeTypeOK
  <2>4. procs[p].token = None
    BY <1>0, NoToken DEF Owning
  <2>5. Holders'
    BY <1>0, <2>2, <2>3, <2>4 DEF IInv, Holders, Holding, Owning
  <2>6. \A token : Alive(token)' <=> Alive(token)
    BY <2>2, <2>3 DEF Alive
  <2>7. Recoveries'
    BY <1>0, <2>1, <2>2, <2>3, <2>6 DEF IInv, Recoveries, Recovering, At
  <2>8. IsHistory(snaps)' /\ OnePartial' /\ Retained'
    BY <1>0, <2>2, <2>3, <2>4, HistoryKept
  <2>9. VolumeTypeOK'
    BY <1>0, <2>1, <2>3, <2>8 DEF IInv, VolumeTypeOK
  <2> QED BY <2>5, <2>7, <2>8, <2>9 DEF IInv
<1> QED BY <1>1, <1>2

\* The stale lease is still there for who claimed it.
LEMMA RereadStep == ASSUME IInv, NEW p \in Pods, Reread(p) PROVE IInv'
<1>0. /\ procs[p].pc = "reread" /\ procs[p] \in Processes
      /\ UNCHANGED <<leaseVars, snaps>>
  BY DEF Reread, At, IInv, VolumeTypeOK
<1>1. CASE lease # procs[p].stale
  BY <1>0, <1>1, EndsAside DEF Reread
<1>2. CASE lease = procs[p].stale
  <2> DEFINE x == [procs[p] EXCEPT !.pc = "archive"]
  <2>1. procs' = [procs EXCEPT ![p] = x] /\ x \in Processes /\ x.pc = "archive"
          /\ x.token = procs[p].token /\ x.stale = procs[p].stale
    BY <1>0, <1>2 DEF Reread, Goto, IInv, VolumeTypeOK, Processes, Recovering
  <2> HIDE DEF x
  <2>2. procs' \in [Pods -> Processes] /\ procs'[p] = x
          /\ \A q \in Pods : q # p => procs'[q] = procs[q]
    BY <2>1 DEF IInv, VolumeTypeOK
  <2>3. procs[p].token = None
    BY <1>0, NoToken DEF Owning
  <2>4. Holders'
    BY <1>0, <2>1, <2>2, <2>3 DEF IInv, Holders, Holding, Owning, leaseVars
  <2>5. \A token : Alive(token)' <=> Alive(token)
    BY <2>1, <2>2 DEF Alive
  <2>6. Recoveries'
    BY <1>0, <2>1, <2>2, <2>5 DEF IInv, Recoveries, Recovering, At, leaseVars
  <2>7. IsHistory(snaps)' /\ OnePartial' /\ Retained'
    BY <1>0, <2>1, <2>2, <2>3, HistoryKept
  <2> QED BY <1>0, <2>2, <2>4, <2>6, <2>7 DEF IInv, VolumeTypeOK, leaseVars
<1> QED BY <1>1, <1>2

\* The lease it archives is the dead owner's: no one holds a token.
LEMMA ArchiveStep == ASSUME IInv, NEW p \in Pods, ArchiveStale(p) PROVE IInv'
<1> DEFINE stale == procs[p].stale
           x == [procs[p] EXCEPT !.pc = "link"]
<1>1. /\ procs[p].pc = "archive" /\ procs[p] \in Processes
      /\ stale \in 1..tokens /\ stale \in claims /\ lease = stale /\ ~Alive(stale) /\ lease # None
  BY CurationAssumption DEF ArchiveStale, At, IInv, VolumeTypeOK, Recoveries, Recovering
<1>2. lease' = None /\ UNCHANGED <<claims, tokens, snaps>>
  BY <1>1 DEF ArchiveStale
<1>3. procs' = [procs EXCEPT ![p] = x] /\ x \in Processes /\ x.pc = "link"
        /\ x.token = procs[p].token
  BY <1>1 DEF ArchiveStale, Goto, IInv, VolumeTypeOK, Processes
<1> HIDE DEF x
<1>4. procs' \in [Pods -> Processes] /\ procs'[p] = x
        /\ \A q \in Pods : q # p => procs'[q] = procs[q]
  BY <1>3 DEF IInv, VolumeTypeOK
<1>5. \A q \in Pods : procs[q].token = None
  BY <1>1 DEF IInv, Holders, Holding, Alive
<1>6. \A q \in Pods : procs'[q].token = None
  BY <1>3, <1>4, <1>5
<1>7. Holders'
  <2>1. \A q \in Pods : procs[q].pc \notin Owning
    BY <1>5 DEF IInv, Holders, Holding
  <2>2. \A q \in Pods : procs'[q].pc \notin Owning
    BY <1>3, <1>4, <2>1 DEF Owning
  <2> QED BY <1>6, <2>2 DEF Holders, Holding
<1>8. Recoveries'
  <2>1. \A q \in Pods : q # p => procs[q].pc \notin {"reread", "archive"}
    BY <1>1 DEF IInv, Recoveries
  <2>2. \A q \in Pods : procs[q].pc = "claim" => procs[q].stale \in claims
    BY <1>1 DEF IInv, Recoveries, At
  <2>3. \A q \in Pods : procs'[q].pc \in Recovering => q # p /\ procs[q].pc = "claim"
    BY <1>3, <1>4, <2>1 DEF Recovering
  <2>4. \A token : token # None => ~Alive(token)'
    BY <1>6 DEF Alive
  <2>5. \A q \in Pods : procs[q].pc = "claim" => procs[q].stale \in 1..tokens /\ procs[q].stale # None
    BY CurationAssumption DEF IInv, VolumeTypeOK, Recoveries, Recovering
  <2> QED BY <1>2, <1>4, <2>2, <2>3, <2>4, <2>5 DEF Recoveries, Recovering, At
<1>9. IsHistory(snaps)' /\ OnePartial' /\ Retained'
  BY <1>2, <1>6, HistoryKept
<1>10. VolumeTypeOK'
  BY <1>2, <1>4, <1>9 DEF IInv, VolumeTypeOK
<1> QED BY <1>7, <1>8, <1>9, <1>10 DEF IInv

\* A new token is linked only where there is no lease, hence no holder.
LEMMA LinkStep == ASSUME IInv, NEW p \in Pods, Link(p) PROVE IInv'
<1>0. procs[p].pc = "link" /\ procs[p] \in Processes /\ UNCHANGED <<claims, snaps>>
  BY DEF Link, At, IInv, VolumeTypeOK
<1>1. CASE lease # None
  BY <1>0, <1>1, EndsAside DEF Link, leaseVars
<1>2. CASE lease = None
  <2> DEFINE x == [Off EXCEPT !.pc = "open", !.token = tokens']
  <2>1. tokens' = tokens + 1 /\ lease' = tokens' /\ tokens \in Nat /\ tokens' \in Nat
    BY <1>2 DEF Link, IInv, VolumeTypeOK
  <2>2. procs' = [procs EXCEPT ![p] = x] /\ x \in Processes /\ x.pc = "open"
          /\ x.token = tokens'
    BY <1>2, <2>1 DEF Link, Off, Processes, Owning
  <2> HIDE DEF x
  <2>3. procs' \in [Pods -> Processes] /\ procs'[p] = x
          /\ \A q \in Pods : q # p => procs'[q] = procs[q]
    BY <2>2 DEF IInv, VolumeTypeOK
  <2>4. \A q \in Pods : procs[q].token = None
    BY <1>2 DEF IInv, Holders, Holding
  <2>5. x.token # None
    BY <2>1, <2>2, CurationAssumption
  <2>6. Holders'
    <3>1. \A q \in Pods : q # p => procs[q].pc \notin Owning
      BY <2>4 DEF IInv, Holders, Holding
    <3>2. x.pc \in Owning
      BY <2>2 DEF Owning
    <3> QED BY <2>1, <2>2, <2>3, <2>4, <2>5, <3>1, <3>2 DEF Holders, Holding
  <2>7. Recoveries'
    <3>1. \A q \in Pods : procs'[q].pc \in Recovering => q # p
      BY <2>2, <2>3 DEF Recovering
    <3>2. \A q \in Pods : procs[q].pc \in Recovering =>
            /\ procs[q].stale \in 1..tokens /\ procs[q].stale \in Nat
            /\ procs[q].pc = "claim" /\ procs[q].stale \in claims
      <4>1. ASSUME NEW q \in Pods, procs[q].pc \in Recovering
            PROVE  /\ procs[q].stale \in 1..tokens /\ procs[q].stale # None
        BY <4>1, CurationAssumption DEF IInv, VolumeTypeOK, Recoveries
      <4> QED BY <4>1, <1>2 DEF IInv, VolumeTypeOK, Recoveries, Recovering, At
    <3>3. \A token \in 1..tokens : ~Alive(token)'
      <4>1. ASSUME NEW token \in 1..tokens, NEW q \in Pods, procs'[q].token = token PROVE FALSE
        <5>1. token # None /\ token # tokens'
          BY <2>1, CurationAssumption
        <5> QED BY <4>1, <5>1, <2>2, <2>3, <2>4
      <4> QED BY <4>1 DEF Alive
    <3> QED BY <1>0, <2>1, <2>3, <3>1, <3>2, <3>3 DEF Recoveries, Recovering, At
  <2>8. IsHistory(snaps)' /\ OnePartial' /\ Retained'
    BY <1>0, <2>2, <2>3, <2>4, HistoryKept
  <2>9. VolumeTypeOK'
    BY <1>0, <2>1, <2>3, <2>8 DEF IInv, VolumeTypeOK
  <2> QED BY <2>6, <2>7, <2>8, <2>9 DEF IInv
<1> QED BY <1>1, <1>2

\* The holder takes its own lease away, and nobody waits for that token.
LEMMA ReleaseStep == ASSUME IInv, NEW p \in Pods, Release(p) PROVE IInv'
<1>0. /\ procs[p].pc = "release" /\ Ended(p) /\ UNCHANGED <<claims, tokens, snaps>>
      /\ procs[p].token = lease /\ procs[p].token # None
  BY DEF Release, At, IInv, Holders, Holding, Owning
<1>1. lease' = None
  BY <1>0 DEF Release
<1>2. procs' = [procs EXCEPT ![p] = Off] /\ Off \in Processes /\ Off.token = None /\ Off.pc = "off"
  BY <1>0 DEF Ended, Off, Processes
<1> HIDE DEF Off
<1>3. procs' \in [Pods -> Processes] /\ procs'[p] = Off
        /\ \A q \in Pods : q # p => procs'[q] = procs[q]
  BY <1>2 DEF IInv, VolumeTypeOK
<1>4. \A q \in Pods : procs'[q].token = None
  BY <1>0, <1>2, <1>3 DEF IInv, Holders, Holding
<1>5. Holders'
  <2>1. \A q \in Pods : q # p => procs[q].pc \notin Owning
    BY <1>0 DEF IInv, Holders, Holding
  <2>2. Off.pc \notin Owning
    BY <1>2 DEF Owning
  <2> QED BY <1>3, <1>4, <2>1, <2>2 DEF Holders, Holding
<1>6. Recoveries'
  <2>1. Alive(lease)
    BY <1>0 DEF Alive
  <2>2. \A q \in Pods : procs[q].pc \in Recovering =>
          /\ procs[q].stale \in 1..tokens /\ procs[q].pc = "claim" /\ procs[q].stale \in claims
    BY <2>1 DEF IInv, Recoveries, Recovering, At
  <2>3. \A token \in 1..tokens : ~Alive(token)'
    BY <1>4, CurationAssumption DEF Alive, IInv, VolumeTypeOK
  <2>4. \A q \in Pods : procs'[q].pc \in Recovering => q # p
    BY <1>2, <1>3 DEF Recovering
  <2> QED BY <1>0, <1>3, <2>2, <2>3, <2>4 DEF Recoveries, Recovering, At
<1>7. IsHistory(snaps)' /\ OnePartial' /\ Retained'
  BY <1>0, <1>4, HistoryKept
<1>8. VolumeTypeOK'
  BY <1>0, <1>1, <1>3, <1>7 DEF IInv, VolumeTypeOK
<1> QED BY <1>5, <1>6, <1>7, <1>8 DEF IInv

-----------------------------------------------------------------------------
(* The snapshots.                                                           *)

\* A step that writes the history while it holds the lease.
LEMMA HistoryStep ==
    ASSUME IInv, NEW p \in Pods, procs[p].pc \in Owning, Stays(p), UNCHANGED leaseVars,
           IsHistory(snaps)', Retained', \A g \in Partial' : g = Len(snaps'),
           Partial' # {} => procs'[p].pc \in {"open", "copied"}
    PROVE  IInv'
<1>1. procs' \in [Pods -> Processes] /\ Holders' /\ Recoveries'
  BY StaysLease
<1>2. \A q \in Pods : Holding(q)' => q = p
  <2>1. PICK x \in Processes : procs' = [procs EXCEPT ![p] = x] /\ x.token = procs[p].token
    BY DEF Stays
  <2>2. \A q \in Pods : procs'[q].token = procs[q].token
    BY <2>1 DEF IInv, VolumeTypeOK
  <2>3. Holding(p)
    BY DEF IInv, Holders
  <2> QED BY <2>2, <2>3 DEF IInv, Holders, Holding
<1>3. OnePartial'
  BY <1>2 DEF OnePartial
<1> QED BY <1>1, <1>3 DEF IInv, VolumeTypeOK, leaseVars

\* What an owner's point says of the partial generation.
LEMMA NoPartial ==
    ASSUME IInv, NEW p \in Pods, procs[p].pc \in Owning \ {"open", "copied"}
    PROVE  Partial = {}
  BY DEF IInv, Holders, OnePartial

\* Sweeping removes at most the last generation.
LEMMA SweptIs ==
    ASSUME IInv
    PROVE  /\ IsHistory(Swept) /\ Len(Swept) \in Nat /\ Len(Swept) <= Len(snaps)
           /\ \A g \in 1..Len(Swept) : Swept[g] = snaps[g] /\ snaps[g].stage # "dir"
<1> DEFINE n == Len(snaps)
           m == Len(Swept)
<1>3. IsHistory(snaps) /\ n \in Nat /\ DOMAIN snaps = 1..n
  BY DEF IInv, VolumeTypeOK, IsHistory
<1>4. /\ IsHistory(Swept) /\ m \in Nat /\ m <= n
      /\ \A g \in 1..m : Swept[g] = snaps[g] /\ snaps[g].stage # "dir"
  <2>1. CASE \A g \in DOMAIN snaps : Published(g)
    BY <1>3, <2>1 DEF Swept, Published
  <2>2. CASE \E g \in DOMAIN snaps : ~Published(g)
    <3>1. Partial # {} /\ Partial = {n} /\ n # 0
      BY <1>3, <2>2 DEF IInv, OnePartial, Partial, Published
    <3>2. Swept = SubSeq(snaps, 1, n - 1)
      BY <2>2 DEF Swept, Front
    <3>3. /\ Len(Swept) = n - 1 /\ \A g \in 1..n - 1 : Swept[g] = snaps[g]
          /\ Swept = [g \in 1..n - 1 |-> Swept[g]]
      <4> DEFINE S == {snaps[g] : g \in 1..n}
      <4>1. snaps \in Seq(S)
        BY <1>3 DEF IsHistory
      <4> HIDE DEF S, n
      <4>2. n = Len(snaps)
        BY DEF n
      <4> QED BY <4>1, <4>2, <3>1, <3>2, <1>3
    <3>4. \A g \in 1..n - 1 : snaps[g].stage # "dir"
      BY <3>1, <1>3 DEF Partial
    <3> QED BY <3>1, <3>3, <3>4, <1>3 DEF IsHistory
  <2> QED BY <2>1, <2>2
<1> QED BY <1>4

\* Opening removes the generation that never got a manifest.
LEMMA OpenStep == ASSUME IInv, NEW p \in Pods, Open(p) PROVE IInv'
<1>1. procs[p].pc = "open" /\ Goto(p, "work") /\ snaps' = Cleaned(Swept) /\ UNCHANGED leaseVars
  BY DEF Open, At
<1>2. Stays(p)
  BY <1>1, GotoStays DEF IInv, Owning
<1> DEFINE n == Len(snaps)
           m == Len(Swept)
<1>3. IsHistory(snaps) /\ n \in Nat /\ DOMAIN snaps = 1..n
  BY DEF IInv, VolumeTypeOK, IsHistory
<1>4. /\ IsHistory(Swept) /\ m \in Nat /\ m <= n
      /\ \A g \in 1..m : Swept[g] = snaps[g] /\ snaps[g].stage # "dir"
  BY SweptIs
<1> HIDE DEF m, n
<1>5. /\ IsHistory(snaps') /\ Len(snaps') = m /\ DOMAIN snaps' = 1..m
      /\ \A g \in 1..m : /\ snaps'[g].stage = Swept[g].stage
                         /\ snaps'[g].payload => Swept[g].payload
  BY <1>1, <1>4, CleanedHistory DEF m
<1>6. Partial' = {}
  BY <1>4, <1>5 DEF Partial
<1>7. Payloads' \subseteq Payloads /\ Payloads \subseteq 1..n
  BY <1>3, <1>4, <1>5 DEF Payloads
<1>8. Retained'
  <2>1. /\ Cardinality(Payloads') <= Cardinality(Payloads)
        /\ Cardinality(Payloads') \in Nat /\ Cardinality(Payloads) \in Nat
    BY <1>3, <1>7, PayloadsFinite DEF n
  <2>2. Cardinality(Payloads') <= Retention
    BY <2>1, CurationAssumption DEF IInv, Retained
  <2> QED BY <2>2 DEF Retained
<1> QED BY <1>1, <1>2, <1>5, <1>6, <1>8, HistoryStep DEF Owning, IsHistory

\* A field of the history changes: none is partial, and no payload appears.
LEMMA FieldStep ==
    ASSUME IInv, NEW p \in Pods, procs[p].pc \in Owning, Stays(p), UNCHANGED leaseVars,
           DOMAIN snaps' = DOMAIN snaps, IsHistory(snaps)',
           \A g \in DOMAIN snaps : /\ snaps'[g].payload => snaps[g].payload
                                   /\ snaps'[g].stage # "dir"
    PROVE  IInv'
<1>1. Partial' = {}
  BY DEF Partial
<1>2. Payloads' \subseteq Payloads /\ Payloads \subseteq 1..Len(snaps) /\ Len(snaps) \in Nat
  BY DEF Payloads, IInv, VolumeTypeOK, IsHistory
<1>3. Retained'
  <2>1. /\ Cardinality(Payloads') <= Cardinality(Payloads)
        /\ Cardinality(Payloads') \in Nat /\ Cardinality(Payloads) \in Nat
    BY <1>2, PayloadsFinite
  <2>2. Cardinality(Payloads') <= Retention
    BY <2>1, CurationAssumption DEF IInv, Retained
  <2> QED BY <2>2 DEF Retained
<1> QED BY <1>1, <1>3, HistoryStep

\* One generation changes its stage or its receipt.
LEMMA ChangedHistory ==
    ASSUME NEW s, IsHistory(s), NEW i, NEW x, IsGeneration(x), NEW t, t = [s EXCEPT ![i] = x]
    PROVE  /\ IsHistory(t) /\ DOMAIN t = DOMAIN s /\ DOMAIN s = 1..Len(s)
           /\ \A g \in DOMAIN s : t[g] = IF g = i THEN x ELSE s[g]
<1> DEFINE n == Len(s)
<1>1. n \in Nat /\ DOMAIN s = 1..n /\ \A g \in 1..n : IsGeneration(s[g])
  BY DEF IsHistory
<1>2. t = [g \in 1..n |-> IF g = i THEN x ELSE s[g]]
  BY <1>1
<1> HIDE DEF n
<1>3. Len(t) = n /\ DOMAIN t = 1..n /\ \A g \in 1..n : t[g] = IF g = i THEN x ELSE s[g]
  BY <1>1, <1>2
<1>4. t = [g \in 1..n |-> t[g]]
  BY <1>2, <1>3
<1> QED BY <1>1, <1>3, <1>4 DEF IsHistory, n

\* A snapshot retires an old payload or begins a generation, when there is room.
LEMMA SnapshotStep == ASSUME IInv, NEW p \in Pods, Snapshot(p) PROVE IInv'
<1> DEFINE n == Len(snaps)
           old == Cleaned(snaps)
<1>1. procs[p].pc = "snapshot" /\ procs[p].pc \in Owning \ {"open", "copied"}
        /\ UNCHANGED leaseVars
  BY DEF Snapshot, At, Owning
<1>2. Partial = {} /\ IsHistory(snaps) /\ n \in Nat /\ DOMAIN snaps = 1..n
  BY <1>1, NoPartial DEF IInv, VolumeTypeOK, IsHistory
<1>3. /\ IsHistory(old) /\ Len(old) = n /\ DOMAIN old = 1..n
      /\ \A g \in 1..n : /\ old[g].stage = snaps[g].stage /\ old[g].stage # "dir"
                         /\ old[g].payload => snaps[g].payload /\ snaps[g].receipt # "whole"
  BY <1>2, CleanedHistory DEF Partial
<1>4. CASE Corrupt # {}
  BY <1>1, <1>4, GotoStays, WorksAside DEF Snapshot, IInv, Owning
<1>5. CASE Corrupt = {} /\ TooMany
  <2> DEFINE i == Min(Recoverable)
             x == [old[i] EXCEPT !.receipt = "torn"]
  <2>1. snaps' = [old EXCEPT ![i].receipt = "torn"] /\ Goto(p, "retire")
    BY <1>5 DEF Snapshot
  <2>2. Stays(p)
    BY <1>1, <2>1, GotoStays DEF IInv, Owning
  <2>3. CASE i \in 1..n
    <3>1. snaps' = [old EXCEPT ![i] = x]
      BY <2>1
    <3>2. IsGeneration(old[i])
      BY <1>3, <2>3 DEF IsHistory
    <3>3. IsGeneration(x) /\ x.stage = old[i].stage /\ x.payload = old[i].payload
      BY <3>2, GenerationFields
    <3> HIDE DEF x, i, old
    <3>4. /\ IsHistory(snaps') /\ DOMAIN snaps' = 1..n
          /\ \A g \in 1..n : snaps'[g] = IF g = i THEN x ELSE old[g]
      BY <1>3, <3>1, <3>3, ChangedHistory
    <3>5. \A g \in DOMAIN snaps : /\ snaps'[g].payload => snaps[g].payload
                                  /\ snaps'[g].stage # "dir"
      BY <1>2, <1>3, <3>3, <3>4
    <3> QED BY <1>1, <1>2, <2>2, <3>4, <3>5, FieldStep DEF IsHistory
  <2>4. CASE i \notin 1..n
    <3> HIDE DEF old, i
    <3>1. snaps' = old
      BY <1>3, <2>1, <2>4 DEF IsHistory
    <3> QED BY <1>1, <1>2, <1>3, <2>2, <3>1, FieldStep DEF IsHistory
  <2> QED BY <2>3, <2>4
<1>6. CASE Corrupt = {} /\ ~TooMany
  <2> DEFINE x == Generation(Work(p), IF Recoverable = {} THEN 0 ELSE Newest)
  <2>1. snaps' = Append(old, x) /\ Goto(p, "copied")
    BY <1>6 DEF Snapshot
  <2>2. Stays(p) /\ procs'[p].pc = "copied"
    BY <1>1, <2>1, GotoStays DEF IInv, Owning
  <2>3. IsGeneration(x)
    BY DEF Generation, IsGeneration
  <2> HIDE DEF x, old
  <2>4. /\ Len(snaps') = n + 1 /\ DOMAIN snaps' = 1..n + 1
        /\ \A g \in 1..n : snaps'[g] = old[g]
        /\ snaps'[n + 1] = x /\ snaps' = [g \in 1..n + 1 |-> snaps'[g]]
    <3> DEFINE S == {old[g] : g \in 1..n} \cup {x}
    <3>1. old \in Seq(S) /\ x \in S
      BY <1>2, <1>3 DEF IsHistory
    <3> HIDE DEF S, n
    <3>2. /\ Len(Append(old, x)) = n + 1 /\ Append(old, x) \in Seq(S)
          /\ \A g \in 1..n : Append(old, x)[g] = old[g]
          /\ Append(old, x)[n + 1] = x
      BY <3>1, <1>2, <1>3
    <3> DEFINE new == Append(old, x)
    <3> HIDE DEF new
    <3>3. /\ Len(new) = n + 1 /\ new \in Seq(S) /\ \A g \in 1..n : new[g] = old[g]
          /\ new[n + 1] = x /\ snaps' = new
      BY <3>2, <2>1 DEF new
    <3>4. DOMAIN new = 1..n + 1 /\ new = [g \in 1..n + 1 |-> new[g]]
      BY <3>3, <1>2
    <3> QED BY <3>3, <3>4
  <2>5. IsHistory(snaps')
    BY <1>2, <1>3, <2>3, <2>4 DEF IsHistory
  <2>6. \A g \in Partial' : g = Len(snaps')
    BY <1>2, <1>3, <2>4 DEF Partial
  <2>7. Retained'
    <3> DEFINE S == {g \in 1..n : old[g].payload}
    <3>1. S \in SUBSET {g \in DOMAIN snaps : snaps[g].payload /\ snaps[g].receipt # "whole"}
      BY <1>2, <1>3
    <3>2. Cardinality(S \cup {n + 1}) <= Retention
      BY <1>2, <1>6, <3>1, RoomForOne
    <3>3. Payloads' \subseteq S \cup {n + 1} /\ S \cup {n + 1} \subseteq 1..n + 1 /\ n + 1 \in Nat
      BY <1>2, <2>4 DEF Payloads
    <3> HIDE DEF S, n
    <3>4. /\ Cardinality(Payloads') <= Cardinality(S \cup {n + 1})
          /\ Cardinality(Payloads') \in Nat /\ Cardinality(S \cup {n + 1}) \in Nat
      BY <3>3, PayloadsFinite
    <3>5. Cardinality(Payloads') <= Retention
      BY <3>2, <3>4, CurationAssumption
    <3> QED BY <3>5 DEF Retained
  <2> QED BY <1>1, <2>2, <2>5, <2>6, <2>7, HistoryStep DEF IsHistory
<1> QED BY <1>4, <1>5, <1>6

\* The receipt of a retirement gets its checksum.
LEMMA RetireStep == ASSUME IInv, NEW p \in Pods, Retire(p) PROVE IInv'
<1>1. procs[p].pc \in Owning \ {"open", "copied"} /\ Goto(p, "unlink") /\ UNCHANGED leaseVars
  BY DEF Retire, At, Owning
<1>2. Partial = {} /\ IsHistory(snaps) /\ Stays(p)
  BY <1>1, NoPartial, GotoStays DEF IInv, VolumeTypeOK, Owning
<1>3. PICK i \in DOMAIN snaps : snaps' = [snaps EXCEPT ![i].receipt = "whole"]
  BY DEF Retire
<1> DEFINE x == [snaps[i] EXCEPT !.receipt = "whole"]
<1>4. IsGeneration(snaps[i]) /\ snaps' = [snaps EXCEPT ![i] = x]
  BY <1>2, <1>3 DEF IsHistory
<1>5. IsGeneration(x) /\ x.stage = snaps[i].stage /\ x.payload = snaps[i].payload
  BY <1>4, GenerationFields
<1> HIDE DEF x
<1>6. /\ IsHistory(snaps') /\ DOMAIN snaps' = DOMAIN snaps
      /\ \A g \in DOMAIN snaps : snaps'[g] = IF g = i THEN x ELSE snaps[g]
  BY <1>2, <1>4, <1>5, ChangedHistory
<1>7. \A g \in DOMAIN snaps : /\ snaps'[g].payload => snaps[g].payload
                              /\ snaps'[g].stage # "dir"
  BY <1>2, <1>5, <1>6 DEF Partial
<1> QED BY <1>1, <1>2, <1>6, <1>7, FieldStep DEF IsHistory

\* The retired payload goes.
LEMMA UnlinkRetiredStep == ASSUME IInv, NEW p \in Pods, UnlinkRetired(p) PROVE IInv'
<1>1. /\ procs[p].pc \in Owning \ {"open", "copied"} /\ Goto(p, "snapshot")
      /\ UNCHANGED leaseVars /\ snaps' = Cleaned(snaps)
  BY DEF UnlinkRetired, At, Owning
<1>2. Partial = {} /\ IsHistory(snaps) /\ Stays(p)
  BY <1>1, NoPartial, GotoStays DEF IInv, VolumeTypeOK, Owning
<1>3. /\ IsHistory(snaps') /\ DOMAIN snaps' = DOMAIN snaps
      /\ \A g \in DOMAIN snaps : /\ snaps'[g].payload => snaps[g].payload
                                 /\ snaps'[g].stage = snaps[g].stage
  <2>1. DOMAIN snaps = 1..Len(snaps)
    BY <1>2 DEF IsHistory
  <2> QED BY <1>1, <1>2, <2>1, CleanedHistory
<1>4. \A g \in DOMAIN snaps : snaps'[g].stage # "dir"
  BY <1>2, <1>3 DEF Partial
<1> QED BY <1>1, <1>2, <1>3, <1>4, FieldStep DEF IsHistory

\* The newest generation gets its manifest, and then the checksum of it.
LEMMA PublishStep ==
    ASSUME IInv, NEW p \in Pods, PublishGeneration(p) \/ SealGeneration(p)
    PROVE  IInv'
<1> DEFINE n == Len(snaps)
<1>1. /\ procs[p].pc \in {"copied", "published"}
      /\ \E pc \in Owning : Goto(p, pc) /\ UNCHANGED leaseVars
      /\ \E v \in {"manifest", "complete"} : snaps' = [snaps EXCEPT ![n].stage = v]
  BY DEF PublishGeneration, SealGeneration, At, Owning
<1>2. procs[p].pc \in Owning /\ Stays(p) /\ UNCHANGED leaseVars
  BY <1>1, GotoStays DEF IInv, Owning
<1>3. IsHistory(snaps) /\ n \in Nat /\ DOMAIN snaps = 1..n /\ \A g \in Partial : g = n
  BY DEF IInv, VolumeTypeOK, IsHistory, OnePartial
<1>4. CASE n = 0
  <2>1. snaps' = snaps /\ Partial = {}
    BY <1>1, <1>3, <1>4 DEF Partial
  <2> QED BY <1>2, <1>3, <1>4, <2>1, FieldStep DEF IsHistory
<1>5. CASE n # 0
  <2>1. PICK v \in {"manifest", "complete"} : snaps' = [snaps EXCEPT ![n].stage = v]
    BY <1>1
  <2> DEFINE x == [snaps[n] EXCEPT !.stage = v]
  <2>2. IsGeneration(snaps[n]) /\ snaps' = [snaps EXCEPT ![n] = x]
    BY <1>3, <1>5, <2>1 DEF IsHistory
  <2>3. IsGeneration(x) /\ x.stage = v /\ x.payload = snaps[n].payload
    BY <2>2 DEF IsGeneration
  <2> HIDE DEF x, n
  <2>4. /\ IsHistory(snaps') /\ DOMAIN snaps' = DOMAIN snaps
        /\ \A g \in DOMAIN snaps : snaps'[g] = IF g = n THEN x ELSE snaps[g]
    BY <1>3, <2>2, <2>3, ChangedHistory
  <2>5. \A g \in DOMAIN snaps : /\ snaps'[g].payload => snaps[g].payload
                                /\ snaps'[g].stage # "dir"
    BY <1>3, <2>3, <2>4 DEF Partial
  <2> QED BY <1>2, <2>4, <2>5, FieldStep DEF IsHistory
<1> QED BY <1>4, <1>5

\* Transactions, publication and the end of a run leave lease and snapshots alone.
LEMMA WorkStep ==
    ASSUME IInv, NEW p \in Pods,
           \/ Transact(p) \/ Emit(p) \/ Finalize(p) \/ Sign(p) \/ CommitFiled(p)
           \/ Finish(p) \/ Leave(p) \/ Capture(p) \/ Stop(p) \/ Promote(p)
    PROVE  IInv'
<1>1. procs[p].pc \in Owning \ {"open", "copied"} /\ UNCHANGED <<leaseVars, snaps>>
  BY DEF Transact, Emit, Finalize, Sign, CommitFiled, Finish, Leave, Capture, Stop, Promote, Ready,
         At, Owning
<1>2. procs[p] \in Processes
  BY DEF IInv, VolumeTypeOK
<1>3. CASE (\E pc \in Owning : Goto(p, pc)) \/ UNCHANGED procs
  <2>1. CASE UNCHANGED procs
    BY <1>1, <2>1, NothingChanges
  <2> QED BY <1>1, <1>3, <2>1, GotoStays, WorksAside DEF IInv
<1>4. CASE Finish(p)
  <2> DEFINE x == [procs[p] EXCEPT !.pc = IF Handoff THEN "snapshot" ELSE "leave",
                                   !.final = Handoff]
  <2>1. Handoff \in BOOLEAN
    BY DEF Handoff
  <2>2. x \in Processes /\ x.pc \in Owning /\ x.token = procs[p].token
    BY <1>2, <2>1 DEF Processes, Owning
  <2>3. procs' = [procs EXCEPT ![p] = x]
    BY <1>4 DEF Finish, IInv, VolumeTypeOK
  <2> QED BY <1>1, <2>2, <2>3, WorksAside DEF Stays
<1>5. CASE Leave(p)
  <2> DEFINE x == [procs[p] EXCEPT !.pc = IF Durable THEN "release" ELSE "snapshot",
                                   !.leaving = TRUE]
  <2>1. x \in Processes /\ x.pc \in Owning /\ x.token = procs[p].token
    BY <1>2 DEF Processes, Owning
  <2>2. procs' = [procs EXCEPT ![p] = x]
    BY <1>5 DEF Leave, IInv, VolumeTypeOK
  <2> QED BY <1>1, <2>1, <2>2, WorksAside DEF Stays
<1>6. CASE Transact(p) \/ Emit(p) \/ Finalize(p) \/ Sign(p) \/ CommitFiled(p) \/ Capture(p)
           \/ Stop(p) \/ Promote(p)
  <2>1. (\E pc \in {"leave", "filed", "sign", "work", "snapshot", "release"} : Goto(p, pc))
          \/ UNCHANGED procs
    BY <1>6 DEF Transact, Emit, Finalize, Sign, CommitFiled, Capture, Stop, Promote
  <2> QED BY <1>3, <2>1 DEF Owning
<1> QED BY <1>4, <1>5, <1>6

\* A step of a process, whichever process it is.
ProcessStep(p) == Start(p) \/ Runs(p) \/ SealGeneration(p) \/ Release(p) \/ Capture(p) \/ Stop(p)
                    \/ Kill(p)

\* Every step of a process keeps the invariant.
LEMMA ProcessStepKeeps == ASSUME IInv, NEW p \in Pods, ProcessStep(p) PROVE IInv'
<1>1. CASE Start(p)
  BY <1>1, StartStep
<1>2. CASE PublishClaim(p) \/ Reread(p) \/ ArchiveStale(p) \/ Link(p) \/ Open(p)
  BY <1>2, PublishClaimStep, RereadStep, ArchiveStep, LinkStep, OpenStep
<1>3. CASE Snapshot(p) \/ Retire(p) \/ UnlinkRetired(p) \/ PublishGeneration(p) \/ SealGeneration(p)
  BY <1>3, SnapshotStep, RetireStep, UnlinkRetiredStep, PublishStep
<1>4. CASE \/ Transact(p) \/ Emit(p) \/ Finalize(p) \/ Sign(p) \/ CommitFiled(p)
           \/ Finish(p) \/ Leave(p) \/ Capture(p) \/ Stop(p) \/ Promote(p)
  BY <1>4, WorkStep
<1>5. CASE Release(p)
  BY <1>5, ReleaseStep
<1>6. CASE Kill(p)
  <2>1. Ended(p) /\ UNCHANGED <<leaseVars, snaps>>
    BY <1>6 DEF Kill
  <2> QED BY <2>1, EndsAside
<1> QED BY <1>1, <1>2, <1>3, <1>4, <1>5, <1>6, Zenon DEF ProcessStep, Runs

-----------------------------------------------------------------------------
(* The volume.                                                              *)

\* An empty volume and processes that have not started.
LEMMA InitiallyEmpty == CurationInit => IInv
<1> SUFFICES ASSUME CurationInit PROVE IInv
  OBVIOUS
<1>1. /\ procs = [p \in Pods |-> Off] /\ snaps = <<>> /\ lease = None /\ claims = {} /\ tokens = 0
  BY DEF CurationInit
<1>2. Off \in Processes /\ Off.pc = "off" /\ Off.token = None
  BY DEF Off, Processes
<1>3. IsHistory(snaps) /\ DOMAIN snaps = {}
  BY <1>1 DEF IsHistory
<1>4. VolumeTypeOK
  BY <1>1, <1>2, <1>3 DEF VolumeTypeOK
<1>5. Holders /\ Recoveries
  BY <1>1, <1>2 DEF Holders, Recoveries, Holding, At, Owning, Recovering
<1>6. Partial = {} /\ Payloads = {}
  BY <1>3 DEF Partial, Payloads
<1>7. OnePartial /\ Retained
  BY <1>6, FS_EmptySet, CurationAssumption DEF OnePartial, Retained
<1> QED BY <1>4, <1>5, <1>7 DEF IInv

\* Curation on its own keeps the invariant.
LEMMA CurationStep == IInv /\ [CurationNext]_curationVars => IInv'
<1> SUFFICES ASSUME IInv, [CurationNext]_curationVars PROVE IInv'
  OBVIOUS
<1>1. CASE UNCHANGED curationVars
  BY <1>1, NothingChanges DEF curationVars
<1>2. CASE CurationNext
  <2>1. PICK p \in Pods : Launch(p) \/ Curate(p) \/ Capture(p) \/ Stop(p) \/ Kill(p)
    BY <1>2, Zenon DEF CurationNext
  <2>2. ProcessStep(p)
    BY <2>1, Zenon DEF ProcessStep, Launch, Curate
  <2> QED BY <2>2, ProcessStepKeeps
<1> QED BY <1>1, <1>2

\* The launcher, the orchestrator and the publisher only add steps that leave
\* the volume of curation alone.
LEMMA HandoffStep == ASSUME IInv, HandoffNext PROVE IInv'
<1>1. CASE \E p \in Pods : StartsChild(p) \/ StepsOf(p) \/ Recovers(p) \/ RunsByHand(p)
  <2>1. PICK p \in Pods : StartsChild(p) \/ StepsOf(p) \/ Recovers(p) \/ RunsByHand(p)
    BY <1>1, Zenon
  <2>2. ProcessStep(p)
    BY <2>1, Zenon DEF ProcessStep, StartsChild, StepsOf, Recovers, RunsByHand
  <2> QED BY <2>2, ProcessStepKeeps
<1>2. CASE \/ WritesResult \/ WritesReceipt \/ Resumes \/ Orchestrates \/ PublishesByHand \/ Publishes
  <2>1. UNCHANGED <<procs, leaseVars, snaps>>
    BY <1>2 DEF WritesResult, WritesReceipt, Resumes, Orchestrates, PublishesByHand, Publishes,
                curationVars
  <2> QED BY <2>1, NothingChanges
<1>3. CASE LauncherDies \/ PublisherStops
  <2>1. UNCHANGED <<procs, leaseVars, snaps>>
    BY <1>3 DEF LauncherDies, PublisherStops, curationVars
  <2> QED BY <2>1, NothingChanges
<1> QED BY <1>1, <1>2, <1>3, Zenon DEF HandoffNext

\* The near-duplicate map is built beside the volume, not on it.
LEMMA SelectionStep == IInv /\ [SelectionNext]_selectionVars => IInv'
<1> SUFFICES ASSUME IInv, [SelectionNext]_selectionVars PROVE IInv'
  OBVIOUS
<1>1. CASE UNCHANGED handoffVars
  <2>1. UNCHANGED <<procs, leaseVars, snaps>>
    BY <1>1 DEF handoffVars, curationVars
  <2> QED BY <2>1, NothingChanges
<1>2. CASE CurationOnly
  BY <1>2, CurationStep DEF CurationOnly
<1>3. CASE HandoffNext
  BY <1>3, HandoffStep
<1> QED BY <1>1, <1>2, <1>3, Zenon DEF SelectionNext, NearStage, CurationStage, selectionVars

\* The lease has one holder; who recovers one won its claim; a generation that
\* lacks its manifest is the newest; payloads stay within the retention.
THEOREM VolumeInvariant == SelectionSpec => []IInv
<1>1. SelectionInit => IInv
  BY InitiallyEmpty DEF SelectionInit, HandoffInit
<1> QED BY <1>1, SelectionStep, PTL DEF SelectionSpec

\* The same of curation without a launcher.
THEOREM CurationVolume == CurationInit /\ [][CurationNext]_curationVars => []IInv
  BY InitiallyEmpty, CurationStep, PTL

\* VolumeSound: recovery of a lease by its exact token never lets two processes
\* write to one output, and a kill while a generation is captured, promoted or
\* retired never leaves more of their databases than the retention.
THEOREM VolumeStaysSound == SelectionSpec => []VolumeSound
<1>1. IInv => VolumeSound
  BY DEF IInv, Holders, Retained, Payloads, VolumeSound
<1> QED BY <1>1, VolumeInvariant, PTL

-----------------------------------------------------------------------------
(* The tables.                                                             *)

(* Where the parts of a run begin: the last stage of the inventory, the    *)
(* last before the documents are compared, and the groups.                 *)
Listed == Len(job.reports) + 1
Mapped == Listed + IF job.profile = "near" THEN 2 ELSE 0
Grouped == Mapped + 11
Filled == Grouped + Len(QuotaStages)

Columns == {"at", "cursor", "phase", "documents", "reasons", "nearMap", "applied", "benchContent",
             "benchFinal", "exact", "final", "map", "groups", "selected"}
Within(n) == n <= Len(Stages) + 1
Canonicalized(db) == Handoff /\ db.at > Mapped + 10 => db.phase = "canonicalized"
IsDatabase(db) ==
    DOMAIN db = Columns /\ db.at \in Positive /\ Within(db.at) /\ Canonicalized(db)

(* The documents and what their own rows say against them.                 *)
Own(d) == d.flags \cup IF d.group = 0 THEN {"sourceless"} ELSE {}
Added == {"cluster"} \cup Residual
DocumentsSound(db) ==
    /\ db.documents \subseteq AllDocuments
    /\ db.at > Listed => db.documents = AllDocuments
ReasonsSound(db) ==
    /\ \A d \in db.documents : Own(d) \subseteq ReasonsOf(db, d) /\ ReasonsOf(db, d) \subseteq Own(d) \cup Added
    /\ \A r \in db.reasons : \E d \in db.documents : r = <<d.id, r[2]>>

(* Exactly the English documents are mapped, once all are.                 *)
AppliedSound(db) ==
    /\ \A i \in db.applied : \E d \in AllDocuments : English(d) /\ d.id = i
    /\ db.applied # {} => job.profile = "near"
    /\ db.at > Mapped /\ job.profile = "near" => NearApplied(db)

(* The keys of flagged documents, as far as their passes have come.        *)
FlaggedContents == {d.content : d \in Flagged(AllDocuments)}
FlaggedClusters == {Cluster(job.profile, d) : d \in Flagged(AllDocuments)}
Reached(db, i, table, keys) ==
    /\ db.at < i => table = {}
    /\ db.at = i => db.cursor \in Nat /\ table = {k \in keys : k <= db.cursor}
    /\ db.at > i => table = keys
BenchmarkSound(db) ==
    /\ Reached(db, Mapped + 1, db.benchContent, FlaggedContents)
    /\ Reached(db, Mapped + 2, db.benchFinal, FlaggedClusters)

(* What the reference decides at each of its two choices.                  *)
Candidates == Eligible(job.profile, AllDocuments)
Kept == BestOfEach(Candidates, [d \in Candidates |-> d.content])
Chosen == FinalChoice(job.profile, AllDocuments)
RefReasons(d) ==
    CASE d \in Chosen -> {}
      [] d \in Kept \ Chosen -> {"residual_final"}
      [] d \in Candidates \ Kept -> {"residual_exact"}
      [] d \notin Candidates ->
            Own(d) \cup IF d \in Contaminated(job.profile, AllDocuments) THEN {"cluster"} ELSE {}

(* Only what was clean when copies were chosen is a copy or has a copy.    *)
ChoiceSound(db) ==
    /\ db.at < Mapped + 5 => db.exact = {} /\ db.map = {} /\ \A d \in db.documents : ReasonsOf(db, d) \cap Residual = {}
    /\ db.exact \subseteq StillEligible(db)
    /\ \A m \in db.map : \A d \in db.documents : d.id = m[1] => d \in StillEligible(db)
    /\ \A d \in db.documents : ReasonsOf(db, d) \cap Residual # {} => d \in StillEligible(db)
    /\ db.at > Mapped + 10 => \A d \in AllDocuments : ReasonsOf(db, d) = RefReasons(d)

(* The groups and the selection, as far as the quotas have been filled.    *)
Room(d) == Quota[QuotaOf(d)] - TokensOf({e \in Chosen : QuotaOf(e) = QuotaOf(d) /\ e.rank < d.rank})
RowOf(d) == [id |-> d.id, split |-> SplitOf[d.group], tokens |-> Min({d.tokens, Room(d)})]
Fits == {d \in Chosen : Room(d) > 0}
QuotaStage(d) == <<"quota", SplitOf[d.group], Category(d)>>
Behind(db, d) ==
    \E i \in 1 .. Len(QuotaStages) :
        /\ QuotaStages[i] = QuotaStage(d)
        /\ Grouped + i < db.at \/ (Grouped + i = db.at /\ d.rank <= db.cursor)
SelectedSound(db) ==
    /\ db.at > Grouped => db.groups = {<<d.group, SplitOf[d.group]>> : d \in Chosen}
    /\ db.at > Grouped /\ db.at <= Filled => db.cursor \in Nat
    /\ db.selected = IF Handoff THEN {} ELSE {RowOf(d) : d \in {d \in Fits : Behind(db, d)}}

Curated(db) ==
    /\ IsDatabase(db)
    /\ DocumentsSound(db) /\ ReasonsSound(db) /\ AppliedSound(db)
    /\ BenchmarkSound(db) /\ ChoiceSound(db) /\ SelectedSound(db)

-----------------------------------------------------------------------------
(* Numbers and batches.                                                    *)

\* A set of numbers that is not empty has a least one.
LEMMA LeastNumber ==
    ASSUME NEW S, S \subseteq Nat, S # {}
    PROVE  \E n \in S : \A m \in S : n <= m
<1>1. \E n \in S : \A m \in S : <<m, n>> \notin OpToRel(<, Nat)
  BY NatLessThanWellFounded, WFMin
<1>2. PICK n \in S : \A m \in S : <<m, n>> \notin OpToRel(<, Nat)
  BY <1>1
<1>3. ASSUME NEW m \in S PROVE n <= m
  <2>1. m \in Nat /\ n \in Nat
    OBVIOUS
  <2>2. m < n => <<m, n>> \in OpToRel(<, Nat)
    BY <2>1 DEF OpToRel
  <2>3. <<m, n>> \notin OpToRel(<, Nat)
    BY <1>2, <1>3, Zenon
  <2>4. ~(m < n)
    BY <2>2, <2>3, Zenon
  <2> QED BY <2>1, <2>4
<1> QED BY <1>3

\* A finite one has a greatest: the one with the fewest above it.
LEMMA GreatestNumber ==
    ASSUME NEW S, S \subseteq Nat, S # {}, IsFiniteSet(S)
    PROVE  Max(S) \in S /\ \A m \in S : m <= Max(S)
<1> DEFINE Above(x) == {y \in S : y > x}
           counts == {Cardinality(Above(x)) : x \in S}
<1>1. \A x \in S : IsFiniteSet(Above(x)) /\ Cardinality(Above(x)) \in Nat
  <2>1. \A x \in S : Above(x) \in SUBSET S
    OBVIOUS
  <2> QED BY <2>1, FS_Subset, FS_CardinalityType
<1>2. PICK n \in counts : \A m \in counts : n <= m
  <2>1. counts \subseteq Nat /\ counts # {}
    BY <1>1
  <2> HIDE DEF counts
  <2> QED BY <2>1, LeastNumber
<1>3. PICK x \in S : \A y \in S : Cardinality(Above(x)) <= Cardinality(Above(y))
  BY <1>2
<1>4. ASSUME NEW y \in S, ~(y <= x) PROVE FALSE
  <2>1. y > x /\ y \in Nat /\ x \in Nat /\ \A z \in S : z \in Nat
    BY <1>4
  <2>2. Above(y) \in SUBSET Above(x) /\ y \in Above(x) /\ y \notin Above(y)
    <3>1. \A z \in S : z > y => z > x
      BY <2>1
    <3>2. ~(y > y)
      BY <2>1
    <3> QED BY <2>1, <3>1, <3>2, Zenon
  <2> HIDE DEF Above
  <2>3. Cardinality(Above(y)) < Cardinality(Above(x))
    <3>1. IsFiniteSet(Above(x)) /\ Cardinality(Above(x)) \in Nat /\ Cardinality(Above(y)) \in Nat
      BY <1>1
    <3>2. Cardinality(Above(y)) <= Cardinality(Above(x))
            /\ (Cardinality(Above(x)) = Cardinality(Above(y)) => Above(x) = Above(y))
      BY <3>1, <2>2, FS_Subset
    <3> QED BY <3>1, <3>2, <2>2
  <2>4. /\ Cardinality(Above(x)) <= Cardinality(Above(y))
        /\ Cardinality(Above(x)) \in Nat /\ Cardinality(Above(y)) \in Nat
    BY <1>1, <1>3
  <2> QED BY <2>3, <2>4
<1>5. \E m \in S : \A y \in S : m >= y
  BY <1>4
<1> QED BY <1>5 DEF Max

(* The keys after a cursor, the first few of them, and what it means that  *)
(* a batch of them was visited up to its greatest.                         *)
After(K, cursor) == {k \in K : k > cursor}
FirstOf(S, rows) == {k \in S : Cardinality({j \in S : j < k}) < rows}
Visited(K, cursor, batch) ==
    /\ batch # {} /\ batch \subseteq After(K, cursor) /\ Max(batch) \in batch /\ Max(batch) \in Nat
    /\ {k \in K : k <= Max(batch)} = {k \in K : k <= cursor} \cup batch

\* A batch is the first of the keys after the cursor: what is at most its
\* greatest was there before or is in it.
LEMMA BatchIsPrefix ==
    ASSUME NEW K, K \subseteq Nat, IsFiniteSet(K), NEW cursor \in Nat, NEW rows \in Positive,
           After(K, cursor) # {}
    PROVE  Visited(K, cursor, FirstOf(After(K, cursor), rows))
<1> DEFINE pending == After(K, cursor)
           batch == FirstOf(pending, rows)
<1>8. pending = {k \in K : k > cursor} /\ pending # {}
  BY DEF After
<1>9. batch = {k \in pending : Cardinality({j \in pending : j < k}) < rows}
  BY DEF FirstOf
<1> HIDE DEF pending, batch
<1> DEFINE Waiting(k) == {j \in pending : j < k}
<1>1. IsFiniteSet(pending) /\ pending \subseteq Nat
  BY <1>8, FS_Subset
<1>2. \A k : IsFiniteSet(Waiting(k)) /\ Cardinality(Waiting(k)) \in Nat
  <2>1. \A k : Waiting(k) \in SUBSET pending
    OBVIOUS
  <2> QED BY <1>1, <2>1, FS_Subset, FS_CardinalityType
<1>3. batch # {}
  <2>1. PICK n \in pending : \A m \in pending : n <= m
    BY <1>1, <1>8, LeastNumber
  <2>2. Waiting(n) = {}
    <3>1. \A j \in pending : ~(j < n)
      BY <1>1, <2>1
    <3> QED BY <3>1
  <2>3. Cardinality(Waiting(n)) < rows
    BY <2>2, FS_EmptySet DEF Positive
  <2> QED BY <1>9, <2>3
<1>4. IsFiniteSet(batch) /\ batch \subseteq Nat /\ batch \subseteq pending
  BY <1>1, <1>9, FS_Subset
<1>5. Max(batch) \in batch /\ \A m \in batch : m <= Max(batch)
  BY <1>3, <1>4, GreatestNumber
<1>6. ASSUME NEW k \in pending, k <= Max(batch) PROVE k \in batch
  <2>1. Waiting(k) \in SUBSET Waiting(Max(batch))
    <3>1. k \in Nat /\ Max(batch) \in Nat /\ \A j \in pending : j \in Nat
      BY <1>1, <1>4, <1>5
    <3>2. \A j \in pending : j < k => j < Max(batch)
      BY <3>1, <1>6
    <3> QED BY <3>2, Zenon
  <2>2. Cardinality(Waiting(Max(batch))) < rows
    BY <1>5, <1>9
  <2> HIDE DEF Waiting
  <2>3. Cardinality(Waiting(k)) <= Cardinality(Waiting(Max(batch)))
    BY <1>2, <2>1, FS_Subset
  <2>4. Cardinality(Waiting(k)) < rows
    BY <1>2, <2>2, <2>3 DEF Positive
  <2> QED BY <1>9, <2>4 DEF Waiting
<1>7. \A k \in K : k <= Max(batch) <=> k <= cursor \/ k \in batch
  <2>1. Max(batch) \in pending /\ Max(batch) \in Nat /\ Max(batch) > cursor
    BY <1>4, <1>5, <1>8
  <2>2. \A k \in K : k \in Nat
    OBVIOUS
  <2> QED BY <1>4, <1>5, <1>6, <1>8, <2>1, <2>2
<1>10. Max(batch) \in Nat
  BY <1>4, <1>5
<1>11. {k \in K : k <= Max(batch)} = {k \in K : k <= cursor} \cup batch
  <2>1. \A k \in batch : k \in K
    BY <1>4, <1>8
  <2> QED BY <1>7, <2>1
<1>12. batch \subseteq After(K, cursor)
  BY <1>4 DEF pending
<1>13. Visited(K, cursor, batch)
  BY <1>3, <1>5, <1>10, <1>11, <1>12, Zenon DEF Visited
<1> QED BY <1>13, Zenon DEF batch, pending

-----------------------------------------------------------------------------
(* The stages.                                                             *)

Listing(s) == Len(s) \in Nat /\ s = [i \in 1..Len(s) |-> s[i]]
Follows(u, s, t) ==
    /\ Listing(u) /\ Len(u) = Len(s) + Len(t)
    /\ \A i \in 1..Len(s) : u[i] = s[i]
    /\ \A i \in 1..Len(t) : u[Len(s) + i] = t[i]

\* A function on the first numbers is a listing.
LEMMA ListingIs ==
    ASSUME NEW n \in Nat, NEW f, f = [i \in 1..n |-> f[i]]
    PROVE  Listing(f) /\ Len(f) = n
<1> DEFINE S == {f[i] : i \in 1..n}
<1>1. \A i \in 1..n : f[i] \in S
  OBVIOUS
<1> HIDE DEF S
<1>2. [i \in 1..n |-> f[i]] \in Seq(S)
  BY <1>1, IsASeq
<1>3. f \in Seq(S) /\ DOMAIN f = 1..n
  BY <1>2
<1>4. Len(f) = n
  BY <1>3, LenProperties
<1> QED BY <1>4 DEF Listing

\* One listing after another.
LEMMA Joined ==
    ASSUME NEW s, NEW t, Listing(s), Listing(t)
    PROVE  Follows(s \o t, s, t)
<1> DEFINE S == {s[i] : i \in 1..Len(s)} \cup {t[i] : i \in 1..Len(t)}
<1>1. (\A i \in 1..Len(s) : s[i] \in S) /\ (\A i \in 1..Len(t) : t[i] \in S)
        /\ Len(s) \in Nat /\ Len(t) \in Nat
  BY DEF Listing
<1> HIDE DEF S
<1>2. s \in Seq(S) /\ t \in Seq(S)
  <2>1. [i \in 1..Len(s) |-> s[i]] \in Seq(S) /\ [i \in 1..Len(t) |-> t[i]] \in Seq(S)
    BY <1>1, IsASeq
  <2> QED BY <2>1 DEF Listing
<1> DEFINE u == s \o t
<1>3. /\ u \in Seq(S) /\ Len(u) = Len(s) + Len(t)
      /\ \A i \in 1..Len(s) + Len(t) : u[i] = IF i <= Len(s) THEN s[i] ELSE t[i - Len(s)]
  BY <1>2, ConcatProperties
<1> HIDE DEF u
<1>4. u = [i \in 1..Len(u) |-> u[i]] /\ Len(u) \in Nat
  BY <1>1, <1>3, LenProperties
<1>5. \A i \in 1..Len(s) : u[i] = s[i]
  BY <1>1, <1>3
<1>6. \A i \in 1..Len(t) : u[Len(s) + i] = t[i]
  <2> SUFFICES ASSUME NEW i \in 1..Len(t) PROVE u[Len(s) + i] = t[i]
    OBVIOUS
  <2>1. Len(s) + i \in 1..Len(s) + Len(t) /\ ~(Len(s) + i <= Len(s)) /\ (Len(s) + i) - Len(s) = i
    BY <1>1
  <2> QED BY <1>3, <2>1
<1> QED BY <1>3, <1>4, <1>5, <1>6 DEF Listing, Follows, u

\* The quotas come split by split, each with its three categories.
LEMMA QuotaStagesAre ==
    /\ Listing(QuotaStages) /\ Len(QuotaStages) = 3 * Len(SplitOrder) /\ Len(SplitOrder) \in Nat
    /\ \A i \in 1..Len(QuotaStages) :
          QuotaStages[i] = <<"quota", SplitOrder[1 + ((i - 1) \div 3)], Categories[1 + ((i - 1) % 3)]>>
<1>1. Len(Categories) = 3 /\ Len(SplitOrder) \in Nat
  BY PolicyAssumption DEF Categories
<1> DEFINE n == Len(SplitOrder) * Len(Categories)
<1>2. n \in Nat /\ n = 3 * Len(SplitOrder)
  BY <1>1
<1>3. QuotaStages = [i \in 1..n |-> <<"quota", SplitOrder[1 + ((i - 1) \div 3)], Categories[1 + ((i - 1) % 3)]>>]
  BY <1>1 DEF QuotaStages
<1> HIDE DEF n
<1>4. QuotaStages = [i \in 1..n |-> QuotaStages[i]]
  BY <1>3
<1>5. Listing(QuotaStages) /\ Len(QuotaStages) = n
  BY <1>2, <1>4, ListingIs
<1> QED BY <1>1, <1>2, <1>3, <1>5

\* Where each stage is.
LEMMA StagePlaces ==
    ASSUME SoundJob
    PROVE  /\ Len(job.reports) \in Nat /\ DOMAIN job.reports = 1..Len(job.reports)
           /\ Listed = Len(job.reports) + 1
           /\ (\A i \in 1..Len(job.reports) : Stages[i] = <<"inventory", i>>)
           /\ Stages[Listed] = <<"phase", "inventory_complete">>
           /\ Mapped = IF job.profile = "near" THEN Listed + 2 ELSE Listed
           /\ (job.profile = "near" => /\ Stages[Listed + 1] = <<"near_map_load">>
                                       /\ Stages[Listed + 2] = <<"near_map_apply">>)
           /\ Stages[Mapped + 1] = <<"benchmark_content_clusters">>
           /\ Stages[Mapped + 2] = <<"benchmark_final_clusters">>
           /\ Stages[Mapped + 3] = <<"benchmark_exact">>
           /\ Stages[Mapped + 4] = <<"benchmark_final">>
           /\ Stages[Mapped + 5] = <<"exact_choice">>
           /\ Stages[Mapped + 6] = <<"final_choice">>
           /\ Stages[Mapped + 7] = <<"canonical_map">>
           /\ Stages[Mapped + 8] = <<"residual_exact">>
           /\ Stages[Mapped + 9] = <<"residual_final">>
           /\ Stages[Mapped + 10] = <<"phase", "canonicalized">>
           /\ Grouped = Mapped + 11 /\ Stages[Grouped] = <<"groups">>
           /\ (Handoff => Len(Stages) = Grouped + 1 /\ Stages[Grouped + 1] = <<"ready">>)
           /\ (~Handoff =>
                 /\ Filled = Grouped + Len(QuotaStages) /\ Len(QuotaStages) \in Nat
                 /\ (\A i \in 1..Len(QuotaStages) : Stages[Grouped + i] = QuotaStages[i])
                 /\ Stages[Filled + 1] = <<"phase", "selected">>
                 /\ Stages[Filled + 2] = <<"phase", "emitting">>
                 /\ (\A i \in 1..Len(job.reports) : Stages[Filled + 2 + i] = <<"emit", i>>)
                 /\ Stages[Filled + 3 + Len(job.reports)] = <<"phase", "emitted">>
                 /\ Stages[Filled + 4 + Len(job.reports)] = <<"phase", "complete">>
                 /\ Len(Stages) = Filled + 4 + Len(job.reports))
<1> DEFINE n == Len(job.reports)
           R == [i \in 1..n |-> <<"inventory", i>>]
           R1 == << <<"phase", "inventory_complete">> >>
           G == << <<"groups">> >>
           X == << <<"ready">> >>
           Y == << <<"phase", "selected">> >>
           E1 == << <<"phase", "emitting">> >>
           E2 == [i \in 1..n |-> <<"emit", i>>]
           E3 == << <<"phase", "emitted">>, <<"phase", "complete">> >>
           A == Inventory \o NearMap
           B == A \o Canonicalization
           C == B \o G
<1>1. n \in Nat /\ DOMAIN job.reports = 1..n
  BY LenProperties DEF SoundJob
<1>2. Listing(R) /\ Len(R) = n /\ \A i \in 1..n : R[i] = <<"inventory", i>>
  <2>1. R = [i \in 1..n |-> R[i]]
    OBVIOUS
  <2> HIDE DEF R, n
  <2>2. Listing(R) /\ Len(R) = n
    BY <1>1, <2>1, ListingIs
  <2> QED BY <2>2 DEF R
<1>3. Listing(R1) /\ Len(R1) = 1 /\ R1[1] = <<"phase", "inventory_complete">>
  BY DEF Listing
<1>4. Inventory = R \o R1
  BY <1>1 DEF Inventory
<1> HIDE DEF R, R1
<1>5. /\ Listing(Inventory) /\ Len(Inventory) = n + 1
      /\ (\A i \in 1..n : Inventory[i] = <<"inventory", i>>)
      /\ Inventory[n + 1] = <<"phase", "inventory_complete">>
  <2>1. /\ Listing(Inventory) /\ Len(Inventory) = n + 1
        /\ (\A i \in 1..n : Inventory[i] = R[i]) /\ \A i \in 1..1 : Inventory[n + i] = R1[i]
    <3> HIDE DEF n
    <3>1. Follows(Inventory, R, R1)
      BY <1>2, <1>3, <1>4, Joined, Zenon
    <3> QED BY <1>1, <1>2, <1>3, <3>1 DEF Follows
  <2> QED BY <2>1, <1>2, <1>3
<1> DEFINE m == IF job.profile = "near" THEN 2 ELSE 0
<1>6. /\ Listing(NearMap) /\ Len(NearMap) = m /\ m \in Nat
      /\ job.profile = "near" => m = 2 /\ NearMap[1] = <<"near_map_load">> /\ NearMap[2] = <<"near_map_apply">>
  BY DEF NearMap, Listing
<1>7. /\ Listing(Canonicalization) /\ Len(Canonicalization) = 10
      /\ Canonicalization[1] = <<"benchmark_content_clusters">>
      /\ Canonicalization[2] = <<"benchmark_final_clusters">>
      /\ Canonicalization[3] = <<"benchmark_exact">>
      /\ Canonicalization[4] = <<"benchmark_final">>
      /\ Canonicalization[5] = <<"exact_choice">>
      /\ Canonicalization[6] = <<"final_choice">>
      /\ Canonicalization[7] = <<"canonical_map">>
      /\ Canonicalization[8] = <<"residual_exact">>
      /\ Canonicalization[9] = <<"residual_final">>
      /\ Canonicalization[10] = <<"phase", "canonicalized">>
  BY DEF Canonicalization, Listing
<1>8. Listing(G) /\ Len(G) = 1 /\ G[1] = <<"groups">>
  BY DEF Listing
<1>9. Listed = n + 1 /\ Mapped = n + 1 + m /\ Grouped = n + m + 12
  <2>1. Listed = n + 1 /\ Mapped = Listed + m /\ Grouped = Mapped + 11
    BY DEF Listed, Mapped, Grouped
  <2> HIDE DEF n, m
  <2> QED BY <1>1, <1>6, <2>1
<1> HIDE DEF n, m, G
<1>10. /\ Listing(A) /\ Len(A) = n + 1 + m
       /\ (\A i \in 1..n + 1 : A[i] = Inventory[i])
       /\ \A i \in 1..m : A[n + 1 + i] = NearMap[i]
  <2>1. A = Inventory \o NearMap /\ n + 1 \in Nat
    BY <1>1
  <2> HIDE DEF A
  <2>2. Follows(A, Inventory, NearMap)
    BY <1>5, <1>6, <2>1, Joined, Zenon
  <2> QED BY <1>5, <1>6, <2>1, <2>2 DEF Follows
<1> HIDE DEF A
<1>11. /\ Listing(B) /\ Len(B) = n + 1 + m + 10
       /\ (\A i \in 1..n + 1 + m : B[i] = A[i])
       /\ \A i \in 1..10 : B[n + 1 + m + i] = Canonicalization[i]
  <2>1. B = A \o Canonicalization /\ n + 1 + m \in Nat /\ 10 \in Nat
    BY <1>1, <1>6
  <2> HIDE DEF B
  <2>2. Follows(B, A, Canonicalization)
    BY <1>7, <1>10, <2>1, Joined, Zenon
  <2> QED BY <1>7, <1>10, <2>1, <2>2 DEF Follows
<1> HIDE DEF B
<1>12. /\ Listing(C) /\ Len(C) = n + m + 12
       /\ (\A i \in 1..n + 1 + m + 10 : C[i] = B[i])
       /\ C[n + m + 12] = <<"groups">>
  <2>1. /\ Listing(C) /\ Len(C) = n + 1 + m + 10 + 1
        /\ (\A i \in 1..n + 1 + m + 10 : C[i] = B[i])
        /\ \A i \in 1..1 : C[n + 1 + m + 10 + i] = G[i]
    <3>1. C = B \o G /\ n + 1 + m + 10 \in Nat /\ 1 \in Nat
      BY <1>1, <1>6
    <3> HIDE DEF C
    <3>2. Follows(C, B, G)
      BY <1>8, <1>11, <3>1, Joined, Zenon
    <3> QED BY <1>8, <1>11, <3>1, <3>2 DEF Follows
  <2> HIDE DEF C
  <2>2. n + 1 + m + 10 + 1 = n + m + 12 /\ 1 \in 1..1
    BY <1>1, <1>6
  <2>3. C[n + 1 + m + 10 + 1] = G[1]
    BY <2>1, <2>2
  <2> QED BY <1>8, <2>1, <2>2, <2>3, Zenon
<1> HIDE DEF C
<1> DEFINE T == IF Handoff THEN X ELSE QuotaStages \o Y \o Emission
<1>13. Stages = C \o T
  BY DEF Stages, A, B, C, G
<1>14. Listing(X) /\ Len(X) = 1 /\ X[1] = <<"ready">> /\ Listing(Y) /\ Len(Y) = 1
         /\ Y[1] = <<"phase", "selected">> /\ Listing(E1) /\ Len(E1) = 1
         /\ E1[1] = <<"phase", "emitting">>
  BY DEF Listing
<1>15. Listing(E3) /\ Len(E3) = 2 /\ E3[1] = <<"phase", "emitted">> /\ E3[2] = <<"phase", "complete">>
  BY DEF Listing
<1>16. Listing(E2) /\ Len(E2) = n /\ \A i \in 1..n : E2[i] = <<"emit", i>>
  <2>1. E2 = [i \in 1..n |-> E2[i]]
    OBVIOUS
  <2> HIDE DEF E2, n
  <2>2. Listing(E2) /\ Len(E2) = n
    BY <1>1, <2>1, ListingIs
  <2> QED BY <2>2 DEF E2
<1>17. Emission = (E1 \o E2) \o E3
  BY <1>1 DEF Emission, n
<1> HIDE DEF X, Y, E1, E2, E3
<1>18. /\ Listing(Emission) /\ Len(Emission) = n + 3
       /\ Emission[1] = <<"phase", "emitting">>
       /\ (\A i \in 1..n : Emission[1 + i] = <<"emit", i>>)
       /\ Emission[n + 2] = <<"phase", "emitted">> /\ Emission[n + 3] = <<"phase", "complete">>
  <2> DEFINE U == E1 \o E2
  <2>1. /\ Listing(U) /\ Len(U) = 1 + n /\ (\A i \in 1..1 : U[i] = E1[i])
        /\ \A i \in 1..n : U[1 + i] = E2[i]
    <3>1. U = E1 \o E2 /\ 1 \in Nat
      OBVIOUS
    <3> HIDE DEF U
    <3>2. Follows(U, E1, E2)
      BY <1>14, <1>16, <3>1, Joined, Zenon
    <3> QED BY <1>1, <1>14, <1>16, <3>2 DEF Follows
  <2>3. Emission = U \o E3
    BY <1>17 DEF U
  <2> HIDE DEF U
  <2>2. /\ Listing(Emission) /\ Len(Emission) = 1 + n + 2
        /\ (\A i \in 1..1 + n : Emission[i] = U[i])
        /\ \A i \in 1..2 : Emission[1 + n + i] = E3[i]
    <3>1. 1 + n \in Nat /\ 2 \in Nat
      BY <1>1
    <3>2. Follows(Emission, U, E3)
      BY <1>15, <2>1, <2>3, Joined, Zenon
    <3> QED BY <1>15, <2>1, <3>1, <3>2 DEF Follows
  <2>4. 1 \in 1..1 + n /\ (\A i \in 1..n : 1 + i \in 1..1 + n) /\ 1 + n + 1 = n + 2 /\ 1 + n + 2 = n + 3
    BY <1>1
  <2>5. Emission[1] = E1[1] /\ Emission[n + 2] = E3[1] /\ Emission[n + 3] = E3[2]
    BY <2>1, <2>2, <2>4
  <2>6. \A i \in 1..n : Emission[1 + i] = E2[i]
    BY <2>1, <2>2, <2>4
  <2>7. 1 + n + 2 = n + 3
    BY <1>1
  <2> QED BY <1>14, <1>15, <1>16, <2>2, <2>5, <2>6, <2>7
<1> DEFINE q == Len(QuotaStages)
<1>19. q \in Nat /\ Listing(QuotaStages)
  BY QuotaStagesAre
<1> HIDE DEF q
<1>20. ASSUME ~Handoff
       PROVE  /\ Listing(T) /\ Len(T) = q + n + 4
              /\ (\A i \in 1..q : T[i] = QuotaStages[i])
              /\ T[q + 1] = <<"phase", "selected">> /\ T[q + 2] = <<"phase", "emitting">>
              /\ (\A i \in 1..n : T[q + 2 + i] = <<"emit", i>>)
              /\ T[q + n + 3] = <<"phase", "emitted">> /\ T[q + n + 4] = <<"phase", "complete">>
  <2> DEFINE U == QuotaStages \o Y
  <2>1. /\ Listing(U) /\ Len(U) = q + 1 /\ (\A i \in 1..q : U[i] = QuotaStages[i])
        /\ \A i \in 1..1 : U[q + i] = Y[i]
    <3>1. U = QuotaStages \o Y /\ Len(QuotaStages) = q /\ 1 \in Nat
      BY DEF q
    <3> HIDE DEF U
    <3>2. Follows(U, QuotaStages, Y)
      BY <1>14, <1>19, <3>1, Joined, Zenon
    <3> QED BY <1>14, <1>19, <3>1, <3>2 DEF Follows
  <2>3. T = U \o Emission
    BY <1>20 DEF U
  <2> HIDE DEF T, U
  <2>2. /\ Listing(T) /\ Len(T) = q + 1 + (n + 3)
        /\ (\A i \in 1..q + 1 : T[i] = U[i])
        /\ \A i \in 1..n + 3 : T[q + 1 + i] = Emission[i]
    <3>1. q + 1 \in Nat /\ n + 3 \in Nat
      BY <1>1, <1>19
    <3>2. Follows(T, U, Emission)
      BY <1>18, <2>1, <2>3, Joined, Zenon
    <3> QED BY <1>18, <2>1, <3>1, <3>2 DEF Follows
  <2>4. /\ (\A i \in 1..q : i \in 1..q + 1) /\ q + 1 \in 1..q + 1
        /\ (\A i \in 1..n : 1 + i \in 1..n + 3 /\ q + 1 + (1 + i) = q + 2 + i)
        /\ 1 \in 1..n + 3 /\ n + 2 \in 1..n + 3 /\ n + 3 \in 1..n + 3
        /\ q + 1 + 1 = q + 2 /\ q + 1 + (n + 2) = q + n + 3 /\ q + 1 + (n + 3) = q + n + 4
    BY <1>1, <1>19
  <2>5. /\ T[q + 1] = <<"phase", "selected">> /\ T[q + 2] = Emission[1]
        /\ T[q + n + 3] = Emission[n + 2] /\ T[q + n + 4] = Emission[n + 3]
    <3>1. T[q + 1] = U[q + 1] /\ U[q + 1] = Y[1]
      BY <2>1, <2>2, <2>4
    <3>2. T[q + 1 + 1] = Emission[1] /\ T[q + 1 + (n + 2)] = Emission[n + 2]
            /\ T[q + 1 + (n + 3)] = Emission[n + 3]
      BY <2>2, <2>4
    <3> QED BY <1>14, <3>1, <3>2, <2>4
  <2>6. \A i \in 1..n : T[q + 2 + i] = Emission[1 + i]
    BY <2>2, <2>4
  <2>7. \A i \in 1..q : T[i] = QuotaStages[i]
    BY <2>1, <2>2, <2>4
  <2>8. q + 1 + (n + 3) = q + n + 4
    BY <2>4
  <2> QED BY <1>18, <2>2, <2>5, <2>6, <2>7, <2>8
<1>21. ASSUME Handoff PROVE Listing(T) /\ Len(T) = 1 /\ T[1] = <<"ready">>
  BY <1>14, <1>21
<1> HIDE DEF T
<1>22. Listing(T)
  BY <1>20, <1>21
<1>23. /\ Len(Stages) = n + m + 12 + Len(T)
       /\ (\A i \in 1..n + m + 12 : Stages[i] = C[i])
       /\ \A i \in 1..Len(T) : Stages[n + m + 12 + i] = T[i]
  <2> DEFINE t == Len(T)
  <2>1. t \in Nat /\ n + m + 12 \in Nat
    BY <1>1, <1>6, <1>22 DEF Listing
  <2>2. Follows(Stages, C, T)
    BY <1>12, <1>13, <1>22, Joined, Zenon
  <2> QED BY <1>12, <2>1, <2>2 DEF Follows
<1>24. \A i \in 1..n + 1 + m + 10 : Stages[i] = B[i]
  BY <1>1, <1>6, <1>12, <1>23
<1>25. \A i \in 1..10 : Stages[Mapped + i] = Canonicalization[i]
  <2> SUFFICES ASSUME NEW i \in 1..10 PROVE Stages[Mapped + i] = Canonicalization[i]
    OBVIOUS
  <2>1. Mapped + i = n + 1 + m + i /\ n + 1 + m + i \in 1..n + 1 + m + 10
    BY <1>1, <1>6, <1>9
  <2>2. Stages[n + 1 + m + i] = B[n + 1 + m + i] /\ B[n + 1 + m + i] = Canonicalization[i]
    BY <1>11, <1>24, <2>1
  <2> QED BY <2>1, <2>2
<1>26. \A i \in 1..n + 1 + m : Stages[i] = A[i]
  <2>1. \A i \in 1..n + 1 + m : i \in 1..n + 1 + m + 10
    BY <1>1, <1>6
  <2> QED BY <1>11, <1>24, <2>1
<1>27. \A i \in 1..n + 1 : Stages[i] = Inventory[i]
  BY <1>1, <1>6, <1>10, <1>26
<1>28. \A i \in 1..m : Stages[Listed + i] = NearMap[i]
  BY <1>1, <1>6, <1>9, <1>10, <1>26
<1>29. Stages[Grouped] = <<"groups">>
  BY <1>1, <1>6, <1>9, <1>12, <1>23
<1>30. Handoff => Len(Stages) = Grouped + 1 /\ Stages[Grouped + 1] = <<"ready">>
  <2> SUFFICES ASSUME Handoff PROVE Len(Stages) = Grouped + 1 /\ Stages[Grouped + 1] = <<"ready">>
    OBVIOUS
  <2>1. Len(T) = 1 /\ T[1] = <<"ready">> /\ 1 \in 1..1
    BY <1>21
  <2>2. Len(Stages) = n + m + 12 + 1 /\ Stages[n + m + 12 + 1] = T[1]
    BY <1>23, <2>1
  <2> QED BY <1>9, <2>1, <2>2
<1>31. ~Handoff =>
                 /\ Filled = Grouped + Len(QuotaStages) /\ Len(QuotaStages) \in Nat
                 /\ (\A i \in 1..Len(QuotaStages) : Stages[Grouped + i] = QuotaStages[i])
                 /\ Stages[Filled + 1] = <<"phase", "selected">>
                 /\ Stages[Filled + 2] = <<"phase", "emitting">>
                 /\ (\A i \in 1..n : Stages[Filled + 2 + i] = <<"emit", i>>)
                 /\ Stages[Filled + 3 + n] = <<"phase", "emitted">>
                 /\ Stages[Filled + 4 + n] = <<"phase", "complete">>
                 /\ Len(Stages) = Filled + 4 + n
  <2> SUFFICES ASSUME ~Handoff PROVE
                 /\ Filled = Grouped + Len(QuotaStages) /\ Len(QuotaStages) \in Nat
                 /\ (\A i \in 1..Len(QuotaStages) : Stages[Grouped + i] = QuotaStages[i])
                 /\ Stages[Filled + 1] = <<"phase", "selected">>
                 /\ Stages[Filled + 2] = <<"phase", "emitting">>
                 /\ (\A i \in 1..n : Stages[Filled + 2 + i] = <<"emit", i>>)
                 /\ Stages[Filled + 3 + n] = <<"phase", "emitted">>
                 /\ Stages[Filled + 4 + n] = <<"phase", "complete">>
                 /\ Len(Stages) = Filled + 4 + n
    OBVIOUS
  <2>1. Filled = Grouped + q /\ Filled = n + m + 12 + q /\ q = Len(QuotaStages)
    BY <1>9 DEF Filled, q
  <2>2. Len(T) = q + n + 4
    BY <1>20
  <2>3. \A i \in 1..q + n + 4 : Stages[Grouped + i] = T[i]
    BY <1>9, <1>23, <2>2
  <2>4. \A i \in 1..q : Stages[Grouped + i] = QuotaStages[i]
    BY <1>1, <1>19, <1>20, <2>3
  <2>5. /\ Filled + 1 = Grouped + (q + 1) /\ Filled + 2 = Grouped + (q + 2)
        /\ (\A i \in 1..n : Filled + 2 + i = Grouped + (q + 2 + i) /\ q + 2 + i \in 1..q + n + 4)
        /\ Filled + 3 + n = Grouped + (q + n + 3) /\ Filled + 4 + n = Grouped + (q + n + 4)
        /\ q + 1 \in 1..q + n + 4 /\ q + 2 \in 1..q + n + 4 /\ q + n + 3 \in 1..q + n + 4
        /\ q + n + 4 \in 1..q + n + 4
    BY <1>1, <1>6, <1>9, <1>19, <2>1
  <2>6. /\ Stages[Filled + 1] = T[q + 1] /\ Stages[Filled + 2] = T[q + 2]
        /\ (\A i \in 1..n : Stages[Filled + 2 + i] = T[q + 2 + i])
        /\ Stages[Filled + 3 + n] = T[q + n + 3] /\ Stages[Filled + 4 + n] = T[q + n + 4]
    BY <2>3, <2>5
  <2>7. Len(Stages) = Filled + 4 + n
    <3>1. Len(Stages) = n + m + 12 + (q + n + 4)
      BY <1>23, <2>2
    <3>2. Filled = n + m + 12 + q /\ n \in Nat /\ m \in Nat /\ q \in Nat
      BY <1>1, <1>6, <1>19, <2>1
    <3> HIDE DEF Filled
    <3> QED BY <3>1, <3>2
  <2> QED BY <1>19, <1>20, <2>1, <2>4, <2>6, <2>7
<1>32. (\A i \in 1..n : Stages[i] = <<"inventory", i>>) /\ Stages[n + 1] = <<"phase", "inventory_complete">>
  BY <1>1, <1>5, <1>27
<1>33. job.profile = "near" => /\ Stages[Listed + 1] = <<"near_map_load">>
                               /\ Stages[Listed + 2] = <<"near_map_apply">>
  BY <1>6, <1>28
<1>34. Mapped = IF job.profile = "near" THEN Listed + 2 ELSE Listed
  BY <1>1, <1>9 DEF m
<1>35. Grouped = Mapped + 11
  BY DEF Grouped
<1>36. DOMAIN job.reports = 1..n /\ n = Len(job.reports) /\ n \in Nat
  BY <1>1 DEF n
<1>37. /\ Stages[Mapped + 1] = <<"benchmark_content_clusters">>
       /\ Stages[Mapped + 2] = <<"benchmark_final_clusters">>
       /\ Stages[Mapped + 3] = <<"benchmark_exact">>
       /\ Stages[Mapped + 4] = <<"benchmark_final">>
       /\ Stages[Mapped + 5] = <<"exact_choice">>
       /\ Stages[Mapped + 6] = <<"final_choice">>
       /\ Stages[Mapped + 7] = <<"canonical_map">>
       /\ Stages[Mapped + 8] = <<"residual_exact">>
       /\ Stages[Mapped + 9] = <<"residual_final">>
       /\ Stages[Mapped + 10] = <<"phase", "canonicalized">>
  BY <1>7, <1>25
<1>38. Listed = n + 1 /\ Stages[Listed] = <<"phase", "inventory_complete">>
  BY <1>9, <1>32
<1> QED BY <1>29, <1>30, <1>31, <1>32, <1>33, <1>34, <1>35, <1>36, <1>37, <1>38, Zenon

\* In this order.
LEMMA PlacesOrdered ==
    ASSUME SoundJob
    PROVE  /\ Len(job.reports) \in Nat /\ Listed \in Nat /\ Mapped \in Nat /\ Grouped \in Nat /\ Filled \in Nat
           /\ Listed = Len(job.reports) + 1 /\ Mapped >= Listed /\ Grouped = Mapped + 11
           /\ Filled = Grouped + Len(QuotaStages) /\ Len(QuotaStages) \in Nat
           /\ job.profile = "near" => Mapped = Listed + 2
           /\ job.profile # "near" => Mapped = Listed
<1>1. Len(job.reports) \in Nat /\ Listed = Len(job.reports) + 1
        /\ Mapped = IF job.profile = "near" THEN Listed + 2 ELSE Listed
  BY StagePlaces, Zenon
<1>2. Len(QuotaStages) \in Nat
  BY QuotaStagesAre DEF Listing
<1>3. Grouped = Mapped + 11 /\ Filled = Grouped + Len(QuotaStages)
  BY DEF Grouped, Filled
<1> QED BY <1>1, <1>2, <1>3

-----------------------------------------------------------------------------
(* The documents.                                                          *)

\* A document stands in one place of one report.
LEMMA Documents ==
    ASSUME SoundJob
    PROVE  /\ \A d \in AllDocuments : d \in Document
           /\ \A d \in AllDocuments :
                 \E n \in DOMAIN job.reports : \E k \in DOMAIN job.reports[n] : d = job.reports[n][k]
           /\ \A n \in DOMAIN job.reports : \A k \in DOMAIN job.reports[n] : job.reports[n][k] \in AllDocuments
           /\ \A d, e \in AllDocuments : d.id = e.id \/ d.rank = e.rank => d = e
<1>1. DOMAIN job.reports = 1..Len(job.reports)
        /\ \A n \in DOMAIN job.reports :
              job.reports[n] \in Seq(Document) /\ DOMAIN job.reports[n] = 1..Len(job.reports[n])
  BY LenProperties DEF SoundJob
<1>2. \A n \in DOMAIN job.reports : \A k \in DOMAIN job.reports[n] : job.reports[n][k] \in Document
  BY <1>1
<1>3. \A d : d \in AllDocuments <=>
         \E n \in DOMAIN job.reports : \E k \in DOMAIN job.reports[n] : d = job.reports[n][k]
  BY DEF AllDocuments, ToSet
<1>4. ASSUME NEW d \in AllDocuments, NEW e \in AllDocuments, d.id = e.id \/ d.rank = e.rank PROVE d = e
  <2>1. PICK n \in DOMAIN job.reports : \E k \in DOMAIN job.reports[n] : d = job.reports[n][k]
    BY <1>3
  <2>2. PICK k \in DOMAIN job.reports[n] : d = job.reports[n][k]
    BY <2>1
  <2>3. PICK m \in DOMAIN job.reports : \E l \in DOMAIN job.reports[m] : e = job.reports[m][l]
    BY <1>3
  <2>4. PICK l \in DOMAIN job.reports[m] : e = job.reports[m][l]
    BY <2>3
  <2>5. n = m /\ k = l
    BY <1>4, <2>2, <2>4 DEF SoundJob
  <2> QED BY <2>2, <2>4, <2>5
<1> QED BY <1>2, <1>3, <1>4

\* There are finitely many.
LEMMA FinitelyMany == ASSUME SoundJob PROVE IsFiniteSet(AllDocuments)
<1>1. ASSUME NEW S, NEW s \in Seq(S) PROVE IsFiniteSet(ToSet(s))
  <2>1. DOMAIN s = 1..Len(s) /\ Len(s) \in Nat
    BY LenProperties
  <2>2. IsFiniteSet(1..Len(s))
    BY <2>1, FS_Interval
  <2> DEFINE f == [i \in 1..Len(s) |-> s[i]]
  <2>3. f \in Surjection(1..Len(s), ToSet(s))
    BY <2>1 DEF Surjection, ToSet
  <2> QED BY <2>2, <2>3, FS_Surjection
<1>2. job.reports \in Seq(Seq(Document))
  BY DEF SoundJob
<1>3. IsFiniteSet(ToSet(job.reports)) /\ \A r \in ToSet(job.reports) : r \in Seq(Document)
  BY <1>1, <1>2, LenProperties DEF ToSet
<1> DEFINE f == [r \in ToSet(job.reports) |-> ToSet(r)]
           T == {ToSet(r) : r \in ToSet(job.reports)}
<1>4. f \in Surjection(ToSet(job.reports), T)
  BY DEF Surjection
<1>5. IsFiniteSet(T)
  BY <1>3, <1>4, FS_Surjection
<1>6. \A x \in T : IsFiniteSet(x)
  BY <1>1, <1>3
<1> HIDE DEF T
<1>7. IsFiniteSet(UNION T)
  BY <1>5, <1>6, FS_UNION
<1> QED BY <1>7 DEF AllDocuments, T

\* The image of finitely many things.
LEMMA FiniteImage ==
    ASSUME NEW S, IsFiniteSet(S), NEW f
    PROVE  IsFiniteSet({f[x] : x \in S})
<1> DEFINE T == {f[x] : x \in S}
           g == [x \in S |-> f[x]]
<1>1. g \in Surjection(S, T)
  BY DEF Surjection
<1> QED BY <1>1, FS_Surjection

\* What a document's fields are.
LEMMA Fields ==
    ASSUME SoundJob, NEW d \in AllDocuments
    PROVE  /\ d.id \in Nat \ {0} /\ d.rank \in Nat \ {0} /\ d.tokens \in Nat \ {0} /\ d.penalty \in Nat
           /\ d.content \in Nat \ {0} /\ d.normal \in Nat \ {0} /\ d.near \in Nat \ {0}
           /\ d.flags \subseteq {"hard", "benchmark"} /\ d.group \in {0} \cup DOMAIN SplitOf
           /\ d.bucket \in {"python", "other_code", "fineweb_edu", "wikipedia"}
           /\ Cluster(job.profile, d) \in Nat \ {0} /\ Provisional(job.profile, d) \in Nat \ {0}
           /\ Category(d) \in ToSet(Categories)
<1>1. d \in Document /\ job.profile \in {"near", "fast"}
  BY Documents DEF SoundJob
<1>2. /\ d.id \in Nat \ {0} /\ d.rank \in Nat \ {0} /\ d.tokens \in Nat \ {0} /\ d.penalty \in Nat
      /\ d.content \in Nat \ {0} /\ d.normal \in Nat \ {0} /\ d.near \in Nat \ {0}
      /\ d.flags \subseteq {"hard", "benchmark"} /\ d.group \in {0} \cup DOMAIN SplitOf
      /\ d.bucket \in {"python", "other_code", "fineweb_edu", "wikipedia"}
  BY <1>1 DEF Document, Positive
<1>3. Provisional(job.profile, d) \in Nat \ {0}
  <2>1. d.normal \in Nat \ {0} /\ 100 + d.normal \in Nat \ {0} /\ 200 + d.normal \in Nat \ {0}
    BY <1>2
  <2> QED BY <2>1 DEF Provisional
<1>4. Cluster(job.profile, d) \in Nat \ {0}
  <2>1. 300 + d.near \in Nat \ {0}
    BY <1>2
  <2> QED BY <1>3, <2>1 DEF Cluster
<1>5. Category(d) \in ToSet(Categories)
  <2>1. Category(d) \in {"python", "other_code", "english"}
    BY <1>2 DEF Category
  <2>2. DOMAIN Categories = 1..3 /\ Categories[1] = "python" /\ Categories[2] = "other_code"
          /\ Categories[3] = "english"
    BY DEF Categories
  <2>3. 1 \in 1..3 /\ 2 \in 1..3 /\ 3 \in 1..3
    OBVIOUS
  <2>4. ToSet(Categories) = {Categories[i] : i \in 1..3}
    BY <2>2 DEF ToSet
  <2> HIDE DEF Categories
  <2> QED BY <2>1, <2>2, <2>3, <2>4
<1> QED BY <1>2, <1>3, <1>4, <1>5

\* The best of some documents is one of them: the least id of the least penalty.
LEMMA BestIsOne ==
    ASSUME SoundJob, NEW S, S \subseteq AllDocuments, S # {}
    PROVE  Best(S) \in S
<1>1. \A d \in S : d.penalty \in Nat /\ d.id \in Nat
  BY Fields
<1> DEFINE penalties == {d.penalty : d \in S}
<1>2. penalties \subseteq Nat /\ penalties # {}
  BY <1>1
<1>3. PICK p \in penalties : \A x \in penalties : p <= x
  <2> HIDE DEF penalties
  <2> QED BY <1>2, LeastNumber
<1> DEFINE ids == {d.id : d \in {d \in S : d.penalty = p}}
<1>4. ids \subseteq Nat /\ ids # {}
  BY <1>1
<1>5. PICK i \in ids : \A x \in ids : i <= x
  <2> HIDE DEF ids
  <2> QED BY <1>4, LeastNumber
<1>6. PICK d \in S : d.penalty = p /\ d.id = i
  BY <1>5
<1>7. ASSUME NEW e \in S \ {d} PROVE Before(d, e)
  <2>1. p <= e.penalty /\ e.id # i /\ e.penalty \in Nat /\ p \in Nat /\ e.id \in Nat /\ i \in Nat
    BY <1>1, <1>2, <1>3, <1>4, <1>6, Documents
  <2>2. e.penalty = p => i <= e.id
    BY <1>5
  <2> QED BY <1>6, <2>1, <2>2 DEF Before
<1>8. \E x \in S : \A e \in S \ {x} : Before(x, e)
  BY <1>7
<1> QED BY <1>8 DEF Best

\* One of each: of the documents of each value of a feature, the best.
LEMMA OneOfEach ==
    ASSUME SoundJob, NEW S, S \subseteq AllDocuments, NEW feature, DOMAIN feature = S
    PROVE  /\ BestOfEach(S, feature) \subseteq S
           /\ \A d \in BestOfEach(S, feature) : d = Best({e \in S : feature[e] = feature[d]})
           /\ \A d \in S : \E e \in BestOfEach(S, feature) : feature[e] = feature[d]
<1>1. Range(feature) = {feature[d] : d \in S}
  BY DEF Range
<1>2. ASSUME NEW k \in Range(feature)
      PROVE  /\ Best({e \in S : feature[e] = k}) \in S
             /\ feature[Best({e \in S : feature[e] = k})] = k
  <2> DEFINE T == {e \in S : feature[e] = k}
  <2>1. T \subseteq AllDocuments /\ T # {}
    BY <1>1
  <2>2. Best(T) \in T
    <3> HIDE DEF T
    <3> QED BY <2>1, BestIsOne
  <2> QED BY <2>2
<1>3. ASSUME NEW d \in BestOfEach(S, feature)
      PROVE  d \in S /\ d = Best({e \in S : feature[e] = feature[d]})
  <2>1. PICK k \in Range(feature) : d = Best({e \in S : feature[e] = k})
    BY <1>3 DEF BestOfEach
  <2> QED BY <1>2, <2>1
<1>4. ASSUME NEW d \in S PROVE \E e \in BestOfEach(S, feature) : feature[e] = feature[d]
  <2>1. feature[d] \in Range(feature)
    BY <1>1
  <2>2. Best({e \in S : feature[e] = feature[d]}) \in BestOfEach(S, feature)
    BY <2>1 DEF BestOfEach
  <2> QED BY <1>2, <2>1, <2>2
<1> QED BY <1>3, <1>4

-----------------------------------------------------------------------------
(* What the tables say.                                                    *)

\* The near mapping replaces the clusters of the English documents, and only theirs.
LEMMA ClusterIs ==
    ASSUME SoundJob, NEW db, DocumentsSound(db), AppliedSound(db), db.at \in Nat, db.at > Mapped,
           NEW d \in AllDocuments
    PROVE  FinalCluster(db, d) = Cluster(job.profile, d)
<1>1. Mapped >= Listed /\ Listed \in Nat /\ Mapped \in Nat
  BY PlacesOrdered
<1>2. db.documents = AllDocuments
  BY <1>1 DEF DocumentsSound
<1>3. d.id \in db.applied => English(d)
  BY Documents DEF AppliedSound
<1>4. CASE job.profile = "near"
  <2>1. English(d) => d.id \in db.applied
    BY <1>2, <1>4 DEF AppliedSound, NearApplied
  <2> QED BY <1>3, <1>4, <2>1 DEF FinalCluster, Cluster
<1>5. CASE job.profile # "near"
  <2>1. db.applied = {}
    BY <1>5 DEF AppliedSound
  <2> QED BY <1>5, <2>1 DEF FinalCluster, Cluster
<1> QED BY <1>4, <1>5

\* The reasons of a document are the rows with its id.
LEMMA ReasonsAre ==
    ASSUME NEW db, ReasonsSound(db), NEW d, NEW x
    PROVE  x \in ReasonsOf(db, d) <=> <<d.id, x>> \in db.reasons
<1>1. ASSUME x \in ReasonsOf(db, d) PROVE <<d.id, x>> \in db.reasons
  <2>1. PICK r \in db.reasons : r[1] = d.id /\ r[2] = x
    BY <1>1 DEF ReasonsOf
  <2>2. PICK e \in db.documents : r = <<e.id, r[2]>>
    BY <2>1 DEF ReasonsSound
  <2>3. r = <<d.id, x>>
    BY <2>1, <2>2
  <2> QED BY <2>1, <2>3
<1>2. ASSUME <<d.id, x>> \in db.reasons PROVE x \in ReasonsOf(db, d)
  BY <1>2 DEF ReasonsOf
<1> QED BY <1>1, <1>2

\* The benchmark reasons are those of the documents' own rows.
LEMMA BenchmarkedAre ==
    ASSUME SoundJob, NEW db, ReasonsSound(db), db.documents = AllDocuments
    PROVE  Benchmarked(db) = Flagged(AllDocuments)
<1>1. ASSUME NEW d \in AllDocuments PROVE "benchmark" \in ReasonsOf(db, d) <=> "benchmark" \in d.flags
  <2>1. Own(d) \subseteq ReasonsOf(db, d) /\ ReasonsOf(db, d) \subseteq Own(d) \cup Added
    BY DEF ReasonsSound
  <2>2. "benchmark" \notin Added
    BY DEF Added, Residual
  <2>3. "benchmark" \in Own(d) <=> "benchmark" \in d.flags
    BY DEF Own
  <2> QED BY <2>1, <2>2, <2>3
<1> QED BY <1>1 DEF Benchmarked, Flagged

\* A copy is chosen among the eligible, and a chosen one among the copies.
LEMMA ChoicesNest ==
    ASSUME SoundJob
    PROVE  /\ Candidates \subseteq AllDocuments
           /\ Kept \subseteq Candidates /\ Chosen \subseteq Kept
           /\ Chosen = BestOfEach(Kept, [d \in Kept |-> Cluster(job.profile, d)])
<1>1. Candidates \subseteq AllDocuments
  BY DEF Eligible, Candidates
<1>2. Chosen = BestOfEach(Kept, [d \in Kept |-> Cluster(job.profile, d)])
  BY DEF Chosen, FinalChoice, Kept, Candidates
<1>3. Kept \subseteq Candidates
  BY <1>1, OneOfEach DEF Kept
<1>4. Kept \subseteq AllDocuments
  BY <1>1, <1>3
<1>5. Chosen \subseteq Kept
  BY <1>2, <1>4, OneOfEach
<1> QED BY <1>1, <1>2, <1>3, <1>5

\* The validated tables are the reference: what is still eligible, what is kept
\* of each content and of each cluster, and why every other document is not.
LEMMA CanonicalIsReference ==
    ASSUME SoundJob, NEW db, Curated(db), db.at = Mapped + 10, CanonicalizationValid(db)
    PROVE  \A d \in AllDocuments : ReasonsOf(db, d) = RefReasons(d)
<1> DEFINE D == AllDocuments
           P == job.profile
           E == StillEligible(db)
           X == {d \in E : d \in db.exact}
<1>1. Mapped >= Listed /\ Listed \in Nat /\ Mapped \in Nat /\ db.at \in Nat
  BY PlacesOrdered DEF Curated, IsDatabase, Positive
<1>2. db.documents = D
  BY <1>1 DEF Curated, DocumentsSound
<1>3. \A d \in D : FinalCluster(db, d) = Cluster(P, d)
  BY <1>1, ClusterIs DEF Curated
<1>4. CanonicalizationValid(db)
  OBVIOUS
<1>5. db.benchContent = FlaggedContents /\ db.benchFinal = FlaggedClusters
  BY <1>1 DEF Curated, BenchmarkSound, Reached
<1>6. \A d \in D : "cluster" \in ReasonsOf(db, d) <=> d \in Contaminated(P, D)
  <2>1. \A d \in D : "cluster" \in ReasonsOf(db, d) <=>
           d.content \in FlaggedContents \/ Cluster(P, d) \in FlaggedClusters
    BY <1>2, <1>3, <1>4, <1>5 DEF CanonicalizationValid
  <2>2. \A d \in D : d.content \in FlaggedContents \/ Cluster(P, d) \in FlaggedClusters <=>
                        d \in Contaminated(P, D)
    BY DEF FlaggedContents, FlaggedClusters, Contaminated
  <2> QED BY <2>1, <2>2
<1>7. ASSUME NEW d \in D
      PROVE  /\ Own(d) \subseteq ReasonsOf(db, d) /\ ReasonsOf(db, d) \subseteq Own(d) \cup Added
             /\ Own(d) \cap Added = {} /\ "cluster" \notin Residual
  <2>1. d.flags \subseteq {"hard", "benchmark"}
    BY Fields
  <2> QED BY <1>2, <2>1 DEF Curated, ReasonsSound, Own, Added, Residual
<1>8. E = Candidates
  <2>1. ASSUME NEW d \in D PROVE d \in E <=> d \in Candidates
    <3>1. d \in E <=> Own(d) = {} /\ "cluster" \notin ReasonsOf(db, d)
      BY <1>2, <1>7 DEF StillEligible, Added
    <3>2. Own(d) = {} <=> d.flags = {} /\ d.group # 0
      BY DEF Own
    <3> QED BY <1>6, <3>1, <3>2 DEF Eligible, Candidates
  <2> QED BY <1>2, <2>1 DEF StillEligible, Candidates, Eligible
<1>9. db.exact = Kept
  <2>1. db.exact = {Best({d \in E : d.content = c}) : c \in {d.content : d \in E}}
    BY <1>4 DEF CanonicalizationValid
  <2> DEFINE f == [d \in E |-> d.content]
  <2>2. Range(f) = {d.content : d \in E}
    BY DEF Range
  <2>3. \A c : {d \in E : f[d] = c} = {d \in E : d.content = c}
    OBVIOUS
  <2>4. BestOfEach(E, f) = {Best({d \in E : f[d] = c}) : c \in Range(f)}
    BY DEF BestOfEach
  <2>5. BestOfEach(E, f) = db.exact
    <3> DEFINE b(c) == Best({d \in E : f[d] = c})
               a(c) == Best({d \in E : d.content = c})
    <3>1. \A c : a(c) = b(c)
      <4> HIDE DEF f, E
      <4> QED BY <2>3
    <3>2. db.exact = {a(c) : c \in {d.content : d \in E}} /\ BestOfEach(E, f) = {b(c) : c \in Range(f)}
      BY <2>1, <2>4
    <3> HIDE DEF a, b, E, f
    <3> QED BY <2>2, <3>1, <3>2
  <2> QED BY <1>8, <2>5 DEF Kept
<1>10. X = Kept
  BY <1>8, <1>9, ChoicesNest
<1>11. db.final = Chosen
  <2>1. db.final = {Best({d \in X : FinalCluster(db, d) = k}) : k \in {FinalCluster(db, d) : d \in X}}
    BY <1>4 DEF CanonicalizationValid
  <2> DEFINE f == [d \in Kept |-> Cluster(P, d)]
  <2>2. Range(f) = {FinalCluster(db, d) : d \in X}
    <3>1. \A d \in X : d \in D /\ FinalCluster(db, d) = Cluster(P, d)
      BY <1>3, <1>10, ChoicesNest
    <3>2. Range(f) = {Cluster(P, d) : d \in X}
      <4> HIDE DEF X
      <4> QED BY <1>10 DEF Range
    <3> HIDE DEF X
    <3> QED BY <3>1, <3>2
  <2>3. \A c : {d \in Kept : f[d] = c} = {d \in X : FinalCluster(db, d) = c}
    <3>1. \A d \in X : d \in D /\ FinalCluster(db, d) = Cluster(P, d)
      BY <1>3, <1>10, ChoicesNest
    <3> HIDE DEF X
    <3> QED BY <1>10, <3>1
  <2>4. BestOfEach(Kept, f) = {Best({d \in Kept : f[d] = c}) : c \in Range(f)}
    BY DEF BestOfEach
  <2>5. BestOfEach(Kept, f) = db.final
    <3> DEFINE a(c) == Best({d \in X : FinalCluster(db, d) = c})
               b(c) == Best({d \in Kept : f[d] = c})
    <3>1. \A c : a(c) = b(c)
      <4> HIDE DEF f, X
      <4> QED BY <2>3
    <3>2. /\ db.final = {a(c) : c \in {FinalCluster(db, d) : d \in X}}
          /\ BestOfEach(Kept, f) = {b(c) : c \in Range(f)}
      BY <2>1, <2>4
    <3> HIDE DEF a, b, X, f
    <3> QED BY <2>2, <3>1, <3>2
  <2> QED BY <2>5, ChoicesNest
<1>12. \A d \in E : ReasonsOf(db, d) = IF d \notin Kept THEN {"residual_exact"}
                                       ELSE IF d \notin Chosen THEN {"residual_final"} ELSE {}
  BY <1>4, <1>9, <1>11 DEF CanonicalizationValid
<1>13. ASSUME NEW d \in D, d \notin E
       PROVE  ReasonsOf(db, d) = Own(d) \cup IF d \in Contaminated(P, D) THEN {"cluster"} ELSE {}
  <2>1. ReasonsOf(db, d) \cap Residual = {}
    BY <1>2, <1>13 DEF Curated, ChoiceSound
  <2>2. ReasonsOf(db, d) \subseteq Own(d) \cup {"cluster"}
    BY <1>7, <2>1 DEF Added
  <2> QED BY <1>6, <1>7, <2>2
<1> HIDE DEF E, X
<1>14. ASSUME NEW d \in D PROVE ReasonsOf(db, d) = RefReasons(d)
  <2>1. Kept \subseteq E /\ Chosen \subseteq Kept
    BY <1>8, ChoicesNest
  <2>2. CASE d \in E
    BY <1>8, <1>12, <2>1, <2>2 DEF RefReasons
  <2>3. CASE d \notin E
    BY <1>8, <1>13, <2>1, <2>3 DEF RefReasons
  <2> QED BY <2>2, <2>3
<1> QED BY <1>14

\* Nothing speaks against a chosen document, and something against every other.
LEMMA RefClean ==
    ASSUME SoundJob, NEW d \in AllDocuments
    PROVE  RefReasons(d) = {} <=> d \in Chosen
<1>1. Kept \subseteq Candidates /\ Chosen \subseteq Kept
  BY ChoicesNest
<1>2. CASE d \in Candidates
  BY <1>1, <1>2 DEF RefReasons
<1>3. CASE d \notin Candidates
  <2>1. Own(d) # {} \/ d \in Contaminated(job.profile, AllDocuments)
    BY <1>3 DEF Candidates, Eligible, Own
  <2>2. RefReasons(d) = Own(d) \cup IF d \in Contaminated(job.profile, AllDocuments) THEN {"cluster"} ELSE {}
    BY <1>1, <1>3 DEF RefReasons
  <2>3. RefReasons(d) # {}
    BY <2>1, <2>2
  <2> QED BY <1>1, <1>3, <2>3
<1> QED BY <1>2, <1>3

\* Behind the canonicalization every table of the documents is the reference.
LEMMA ReferenceTables ==
    ASSUME SoundJob, NEW db, Curated(db), db.at > Mapped + 10
    PROVE  /\ db.documents = AllDocuments /\ Clean(db) = Chosen
           /\ \A d \in AllDocuments : ReasonsOf(db, d) = RefReasons(d)
           /\ \A d \in AllDocuments : FinalCluster(db, d) = Cluster(job.profile, d)
<1>1. Mapped >= Listed /\ Listed \in Nat /\ Mapped \in Nat /\ db.at \in Nat
  BY PlacesOrdered DEF Curated, IsDatabase, Positive
<1>2. db.documents = AllDocuments
  BY <1>1 DEF Curated, DocumentsSound
<1>3. \A d \in AllDocuments : FinalCluster(db, d) = Cluster(job.profile, d)
  BY <1>1, ClusterIs DEF Curated
<1>4. \A d \in AllDocuments : ReasonsOf(db, d) = RefReasons(d)
  BY DEF Curated, ChoiceSound
<1>5. Clean(db) = Chosen
  <2>1. \A d \in AllDocuments : ReasonsOf(db, d) = {} <=> d \in Chosen
    BY <1>4, RefClean
  <2>2. Chosen \subseteq AllDocuments
    BY ChoicesNest
  <2> QED BY <1>2, <2>1, <2>2 DEF Clean
<1> QED BY <1>2, <1>3, <1>4, <1>5

-----------------------------------------------------------------------------
(* Transactions.                                                           *)

(* All but some tables are the same.                                       *)
Same(r, db, tables) == DOMAIN r = Columns /\ \A f \in Columns \ tables : r[f] = db[f]

(* The best of each content, and the rows of a quota that a batch selects. *)
BestOfContents(docs, contents) == {Best({d \in docs : d.content = k}) : k \in contents}
SelectedRows(rows, s, keys) ==
    {[id |-> x.doc.id, split |-> s, tokens |-> Min({x.doc.tokens, x.room})] :
        x \in {x \in rows : x.doc.rank \in keys}}

\* What a batch changes at each stage.
LEMMA BatchWrites ==
    ASSUME NEW db, DOMAIN db = Columns, NEW r, r = BoundedBatch(db), NEW keys, keys = Batch(db),
           NEW now, now = Stage(db)
    PROVE  /\ now[1] = "inventory" =>
                 /\ Same(r, db, {"cursor", "documents", "reasons"})
                 /\ LET docs == {job.reports[now[2]][k] : k \in keys}
                    IN  /\ r.documents = db.documents \cup docs
                        /\ r.reasons = (db.reasons \cup UNION {{<<d.id, f>> : f \in d.flags} : d \in docs})
                                         \cup {<<d.id, "sourceless">> : d \in {d \in docs : d.group = 0}}
           /\ now[1] = "near_map_load" => Same(r, db, {"cursor", "nearMap"})
           /\ now[1] = "near_map_apply" =>
                 Same(r, db, {"cursor", "applied"}) /\ r.applied = db.applied \cup (keys \cap db.nearMap)
           /\ now[1] = "benchmark_content_clusters" =>
                 /\ Same(r, db, {"cursor", "benchContent"}) /\ r.cursor = Max(keys)
                 /\ r.benchContent = db.benchContent \cup keys
           /\ now[1] = "benchmark_final_clusters" =>
                 /\ Same(r, db, {"cursor", "benchFinal"}) /\ r.cursor = Max(keys)
                 /\ r.benchFinal = db.benchFinal \cup keys
           /\ now[1] \in {"benchmark_exact", "benchmark_final"} =>
                 /\ Same(r, db, {"cursor", "reasons"})
                 /\ r.reasons = db.reasons \cup {<<d.id, "cluster">> : d \in Named(db, keys)}
           /\ now[1] = "exact_choice" =>
                 /\ Same(r, db, {"cursor", "exact"})
                 /\ r.exact = db.exact \cup BestOfContents(Clean(db), keys)
           /\ now[1] = "final_choice" => Same(r, db, {"cursor", "final"})
           /\ now[1] = "canonical_map" =>
                 /\ Same(r, db, {"cursor", "map"})
                 /\ r.map = db.map \cup
                       UNION {{<<d.id, f.id>> : f \in CanonicalOf(db, d)} : d \in Named(db, keys)}
           /\ now[1] \in Residual =>
                 /\ Same(r, db, {"cursor", "reasons"})
                 /\ r.reasons = db.reasons \cup {<<d.id, now[1]>> : d \in Named(db, keys)}
           /\ now[1] = "groups" => Same(r, db, {"cursor", "groups"})
           /\ now[1] = "quota" =>
                 /\ Same(r, db, {"cursor", "selected"}) /\ r.cursor = Max(keys)
                 /\ r.selected = db.selected \cup
                       SelectedRows(QuotaRows(db, now[2], now[3]), now[2], keys)
<1>1. r = [Write(db, keys) EXCEPT !.cursor = Max(keys)]
  BY DEF BoundedBatch
<1> DEFINE w == Write(db, keys)
<1>2. ASSUME NEW tables, Same(w, db, tables)
      PROVE  /\ r.cursor = Max(keys) /\ Same(r, db, {"cursor"} \cup tables)
             /\ \A f \in Columns \ {"cursor"} : r[f] = w[f]
  <2> HIDE DEF w
  <2>1. DOMAIN w = Columns /\ r = [w EXCEPT !.cursor = Max(keys)]
    BY <1>1, <1>2 DEF Same, w
  <2>2. DOMAIN r = Columns /\ r.cursor = Max(keys) /\ \A f \in Columns \ {"cursor"} : r[f] = w[f]
    BY <2>1 DEF Columns
  <2> QED BY <1>2, <2>2 DEF Same
<1>3. now[1] = "inventory" =>
         /\ Same(w, db, {"documents", "reasons"})
         /\ LET docs == {job.reports[now[2]][k] : k \in keys}
            IN  /\ w.documents = db.documents \cup docs
                /\ w.reasons = (db.reasons \cup UNION {{<<d.id, f>> : f \in d.flags} : d \in docs})
                                 \cup {<<d.id, "sourceless">> : d \in {d \in docs : d.group = 0}}
  <2> DEFINE docs == {job.reports[now[2]][k] : k \in keys}
             flags == UNION {{<<d.id, f>> : f \in d.flags} : d \in docs}
             missing == {<<d.id, "sourceless">> : d \in {d \in docs : d.group = 0}}
  <2>1. now[1] = "inventory" =>
           w = [[db EXCEPT !.documents = @ \cup docs, !.reasons = @ \cup flags] EXCEPT !.reasons = @ \cup missing]
    BY DEF Write, IngestRows, Marked
  <2> HIDE DEF docs, flags, missing, w
  <2>2. now[1] = "inventory" =>
           /\ Same(w, db, {"documents", "reasons"})
           /\ w.documents = db.documents \cup docs /\ w.reasons = (db.reasons \cup flags) \cup missing
    BY <2>1 DEF Same, Columns
  <2> QED BY <2>2, Zenon DEF docs, flags, missing
<1>4. now[1] = "near_map_load" => Same(w, db, {"nearMap"}) /\ w.nearMap = db.nearMap \cup keys
  <2> DEFINE added == keys
  <2>1. now[1] = "near_map_load" => w = [db EXCEPT !.nearMap = @ \cup added]
    BY DEF Write, Marked, SelectRows, Residual
  <2> HIDE DEF added, w
  <2>2. now[1] = "near_map_load" => Same(w, db, {"nearMap"}) /\ w.nearMap = db.nearMap \cup added
    BY <2>1 DEF Same, Columns
  <2> QED BY <2>2, Zenon DEF added
<1>5. now[1] = "near_map_apply" => Same(w, db, {"applied"}) /\ w.applied = db.applied \cup (keys \cap db.nearMap)
  <2> DEFINE added == (keys \cap db.nearMap)
  <2>1. now[1] = "near_map_apply" => w = [db EXCEPT !.applied = @ \cup added]
    BY DEF Write, Marked, SelectRows, Residual
  <2> HIDE DEF added, w
  <2>2. now[1] = "near_map_apply" => Same(w, db, {"applied"}) /\ w.applied = db.applied \cup added
    BY <2>1 DEF Same, Columns
  <2> QED BY <2>2, Zenon DEF added
<1>6. now[1] = "benchmark_content_clusters" => Same(w, db, {"benchContent"}) /\ w.benchContent = db.benchContent \cup keys
  <2> DEFINE added == keys
  <2>1. now[1] = "benchmark_content_clusters" => w = [db EXCEPT !.benchContent = @ \cup added]
    BY DEF Write, Marked, SelectRows, Residual
  <2> HIDE DEF added, w
  <2>2. now[1] = "benchmark_content_clusters" => Same(w, db, {"benchContent"}) /\ w.benchContent = db.benchContent \cup added
    BY <2>1 DEF Same, Columns
  <2> QED BY <2>2, Zenon DEF added
<1>7. now[1] = "benchmark_final_clusters" => Same(w, db, {"benchFinal"}) /\ w.benchFinal = db.benchFinal \cup keys
  <2> DEFINE added == keys
  <2>1. now[1] = "benchmark_final_clusters" => w = [db EXCEPT !.benchFinal = @ \cup added]
    BY DEF Write, Marked, SelectRows, Residual
  <2> HIDE DEF added, w
  <2>2. now[1] = "benchmark_final_clusters" => Same(w, db, {"benchFinal"}) /\ w.benchFinal = db.benchFinal \cup added
    BY <2>1 DEF Same, Columns
  <2> QED BY <2>2, Zenon DEF added
<1>8. now[1] \in {"benchmark_exact", "benchmark_final"} => Same(w, db, {"reasons"}) /\ w.reasons = db.reasons \cup {<<d.id, "cluster">> : d \in Named(db, keys)}
  <2> DEFINE added == {<<d.id, "cluster">> : d \in Named(db, keys)}
  <2>1. now[1] \in {"benchmark_exact", "benchmark_final"} => w = [db EXCEPT !.reasons = @ \cup added]
    BY DEF Write, Marked, SelectRows, Residual
  <2> HIDE DEF added, w
  <2>2. now[1] \in {"benchmark_exact", "benchmark_final"} => Same(w, db, {"reasons"}) /\ w.reasons = db.reasons \cup added
    BY <2>1 DEF Same, Columns
  <2> QED BY <2>2, Zenon DEF added
<1>9. now[1] = "exact_choice" => Same(w, db, {"exact"}) /\ w.exact = db.exact \cup BestOfContents(Clean(db), keys)
  <2> DEFINE added == BestOfContents(Clean(db), keys)
  <2>1. now[1] = "exact_choice" => w = [db EXCEPT !.exact = @ \cup added]
    BY Zenon DEF Write, BestOfContents
  <2> HIDE DEF added, w
  <2>2. now[1] = "exact_choice" => Same(w, db, {"exact"}) /\ w.exact = db.exact \cup added
    BY <2>1 DEF Same, Columns
  <2> QED BY <2>2, Zenon DEF added
<1>10. now[1] = "final_choice" => Same(w, db, {"final"}) /\ w.final = db.final \cup {Best({d \in Clean(db) \cap db.exact : FinalCluster(db, d) = k}) : k \in keys}
  <2> DEFINE added == {Best({d \in Clean(db) \cap db.exact : FinalCluster(db, d) = k}) : k \in keys}
  <2>1. now[1] = "final_choice" => w = [db EXCEPT !.final = @ \cup added]
    BY DEF Write, Marked, SelectRows, Residual
  <2> HIDE DEF added, w
  <2>2. now[1] = "final_choice" => Same(w, db, {"final"}) /\ w.final = db.final \cup added
    BY <2>1 DEF Same, Columns
  <2> QED BY <2>2, Zenon DEF added
<1>11. now[1] = "canonical_map" => Same(w, db, {"map"}) /\ w.map = db.map \cup UNION {{<<d.id, f.id>> : f \in CanonicalOf(db, d)} : d \in Named(db, keys)}
  <2> DEFINE added == UNION {{<<d.id, f.id>> : f \in CanonicalOf(db, d)} : d \in Named(db, keys)}
  <2>1. now[1] = "canonical_map" => w = [db EXCEPT !.map = @ \cup added]
    BY DEF Write, Marked, SelectRows, Residual
  <2> HIDE DEF added, w
  <2>2. now[1] = "canonical_map" => Same(w, db, {"map"}) /\ w.map = db.map \cup added
    BY <2>1 DEF Same, Columns
  <2> QED BY <2>2, Zenon DEF added
<1>12. now[1] \in Residual => Same(w, db, {"reasons"}) /\ w.reasons = db.reasons \cup {<<d.id, now[1]>> : d \in Named(db, keys)}
  <2> DEFINE added == {<<d.id, now[1]>> : d \in Named(db, keys)}
  <2>1. now[1] \in Residual => w = [db EXCEPT !.reasons = @ \cup added]
    BY DEF Write, Marked, SelectRows, Residual
  <2> HIDE DEF added, w
  <2>2. now[1] \in Residual => Same(w, db, {"reasons"}) /\ w.reasons = db.reasons \cup added
    BY <2>1 DEF Same, Columns
  <2> QED BY <2>2, Zenon DEF added
<1>13. now[1] = "groups" => Same(w, db, {"groups"}) /\ w.groups = db.groups \cup {<<g, SplitOf[g]>> : g \in keys}
  <2> DEFINE added == {<<g, SplitOf[g]>> : g \in keys}
  <2>1. now[1] = "groups" => w = [db EXCEPT !.groups = @ \cup added]
    BY DEF Write, Marked, SelectRows, Residual
  <2> HIDE DEF added, w
  <2>2. now[1] = "groups" => Same(w, db, {"groups"}) /\ w.groups = db.groups \cup added
    BY <2>1 DEF Same, Columns
  <2> QED BY <2>2, Zenon DEF added
<1>14. now[1] = "quota" => Same(w, db, {"selected"}) /\ w.selected = db.selected \cup SelectedRows(QuotaRows(db, now[2], now[3]), now[2], keys)
  <2> DEFINE added == SelectedRows(QuotaRows(db, now[2], now[3]), now[2], keys)
  <2>1. now[1] = "quota" => w = [db EXCEPT !.selected = @ \cup added]
    BY DEF Write, SelectRows, SelectedRows
  <2> HIDE DEF added, w
  <2>2. now[1] = "quota" => Same(w, db, {"selected"}) /\ w.selected = db.selected \cup added
    BY <2>1 DEF Same, Columns
  <2> QED BY <2>2, Zenon DEF added
<1>15. (now[1] = "inventory" =>
         /\ Same(r, db, {"cursor", "documents", "reasons"})
         /\ LET docs == {job.reports[now[2]][k] : k \in keys}
            IN  /\ r.documents = db.documents \cup docs
                /\ r.reasons = (db.reasons \cup UNION {{<<d.id, f>> : f \in d.flags} : d \in docs})
                                 \cup {<<d.id, "sourceless">> : d \in {d \in docs : d.group = 0}})
  <2>1. ASSUME now[1] = "inventory"
        PROVE  /\ Same(r, db, {"cursor", "documents", "reasons"})
               /\ r.documents = w.documents /\ r.reasons = w.reasons
    <3>1. Same(r, db, {"cursor"} \cup {"documents", "reasons"}) /\ \A f \in Columns \ {"cursor"} : r[f] = w[f]
      BY <1>2, <1>3, <2>1, Zenon
    <3> HIDE DEF w
    <3>2. {"cursor"} \cup {"documents", "reasons"} = {"cursor", "documents", "reasons"}
      OBVIOUS
    <3> QED BY <3>1, <3>2 DEF Columns
  <2> HIDE DEF w
  <2> QED BY <1>3, <2>1
<1>16. now[1] = "near_map_load" => Same(r, db, {"cursor", "nearMap"}) /\ r.nearMap = w.nearMap /\ r.cursor = Max(keys)
  <2>1. now[1] = "near_map_load" => Same(r, db, {"cursor"} \cup {"nearMap"}) /\ \A f \in Columns \ {"cursor"} : r[f] = w[f] /\ r.cursor = Max(keys)
    BY <1>2, <1>4, Zenon
  <2>2. {"cursor"} \cup {"nearMap"} = {"cursor", "nearMap"}
    OBVIOUS
  <2> HIDE DEF w
  <2> QED BY <2>1, <2>2 DEF Columns
<1>17. now[1] = "near_map_apply" => Same(r, db, {"cursor", "applied"}) /\ r.applied = w.applied /\ r.cursor = Max(keys)
  <2>1. now[1] = "near_map_apply" => Same(r, db, {"cursor"} \cup {"applied"}) /\ \A f \in Columns \ {"cursor"} : r[f] = w[f] /\ r.cursor = Max(keys)
    BY <1>2, <1>5, Zenon
  <2>2. {"cursor"} \cup {"applied"} = {"cursor", "applied"}
    OBVIOUS
  <2> HIDE DEF w
  <2> QED BY <2>1, <2>2 DEF Columns
<1>18. now[1] = "benchmark_content_clusters" => Same(r, db, {"cursor", "benchContent"}) /\ r.benchContent = w.benchContent /\ r.cursor = Max(keys)
  <2>1. now[1] = "benchmark_content_clusters" => Same(r, db, {"cursor"} \cup {"benchContent"}) /\ \A f \in Columns \ {"cursor"} : r[f] = w[f] /\ r.cursor = Max(keys)
    BY <1>2, <1>6, Zenon
  <2>2. {"cursor"} \cup {"benchContent"} = {"cursor", "benchContent"}
    OBVIOUS
  <2> HIDE DEF w
  <2> QED BY <2>1, <2>2 DEF Columns
<1>19. now[1] = "benchmark_final_clusters" => Same(r, db, {"cursor", "benchFinal"}) /\ r.benchFinal = w.benchFinal /\ r.cursor = Max(keys)
  <2>1. now[1] = "benchmark_final_clusters" => Same(r, db, {"cursor"} \cup {"benchFinal"}) /\ \A f \in Columns \ {"cursor"} : r[f] = w[f] /\ r.cursor = Max(keys)
    BY <1>2, <1>7, Zenon
  <2>2. {"cursor"} \cup {"benchFinal"} = {"cursor", "benchFinal"}
    OBVIOUS
  <2> HIDE DEF w
  <2> QED BY <2>1, <2>2 DEF Columns
<1>20. now[1] \in {"benchmark_exact", "benchmark_final"} => Same(r, db, {"cursor", "reasons"}) /\ r.reasons = w.reasons /\ r.cursor = Max(keys)
  <2>1. now[1] \in {"benchmark_exact", "benchmark_final"} => Same(r, db, {"cursor"} \cup {"reasons"}) /\ \A f \in Columns \ {"cursor"} : r[f] = w[f] /\ r.cursor = Max(keys)
    BY <1>2, <1>8, Zenon
  <2>2. {"cursor"} \cup {"reasons"} = {"cursor", "reasons"}
    OBVIOUS
  <2> HIDE DEF w
  <2> QED BY <2>1, <2>2 DEF Columns
<1>21. now[1] = "exact_choice" => Same(r, db, {"cursor", "exact"}) /\ r.exact = w.exact /\ r.cursor = Max(keys)
  <2>1. now[1] = "exact_choice" => Same(r, db, {"cursor"} \cup {"exact"}) /\ \A f \in Columns \ {"cursor"} : r[f] = w[f] /\ r.cursor = Max(keys)
    BY <1>2, <1>9, Zenon
  <2>2. {"cursor"} \cup {"exact"} = {"cursor", "exact"}
    OBVIOUS
  <2> HIDE DEF w
  <2> QED BY <2>1, <2>2 DEF Columns
<1>22. now[1] = "final_choice" => Same(r, db, {"cursor", "final"}) /\ r.final = w.final /\ r.cursor = Max(keys)
  <2>1. now[1] = "final_choice" => Same(r, db, {"cursor"} \cup {"final"}) /\ \A f \in Columns \ {"cursor"} : r[f] = w[f] /\ r.cursor = Max(keys)
    BY <1>2, <1>10, Zenon
  <2>2. {"cursor"} \cup {"final"} = {"cursor", "final"}
    OBVIOUS
  <2> HIDE DEF w
  <2> QED BY <2>1, <2>2 DEF Columns
<1>23. now[1] = "canonical_map" => Same(r, db, {"cursor", "map"}) /\ r.map = w.map /\ r.cursor = Max(keys)
  <2>1. now[1] = "canonical_map" => Same(r, db, {"cursor"} \cup {"map"}) /\ \A f \in Columns \ {"cursor"} : r[f] = w[f] /\ r.cursor = Max(keys)
    BY <1>2, <1>11, Zenon
  <2>2. {"cursor"} \cup {"map"} = {"cursor", "map"}
    OBVIOUS
  <2> HIDE DEF w
  <2> QED BY <2>1, <2>2 DEF Columns
<1>24. now[1] \in Residual => Same(r, db, {"cursor", "reasons"}) /\ r.reasons = w.reasons /\ r.cursor = Max(keys)
  <2>1. now[1] \in Residual => Same(r, db, {"cursor"} \cup {"reasons"}) /\ \A f \in Columns \ {"cursor"} : r[f] = w[f] /\ r.cursor = Max(keys)
    BY <1>2, <1>12, Zenon
  <2>2. {"cursor"} \cup {"reasons"} = {"cursor", "reasons"}
    OBVIOUS
  <2> HIDE DEF w
  <2> QED BY <2>1, <2>2 DEF Columns
<1>25. now[1] = "groups" => Same(r, db, {"cursor", "groups"}) /\ r.groups = w.groups /\ r.cursor = Max(keys)
  <2>1. now[1] = "groups" => Same(r, db, {"cursor"} \cup {"groups"}) /\ \A f \in Columns \ {"cursor"} : r[f] = w[f] /\ r.cursor = Max(keys)
    BY <1>2, <1>13, Zenon
  <2>2. {"cursor"} \cup {"groups"} = {"cursor", "groups"}
    OBVIOUS
  <2> HIDE DEF w
  <2> QED BY <2>1, <2>2 DEF Columns
<1>26. now[1] = "quota" => Same(r, db, {"cursor", "selected"}) /\ r.selected = w.selected /\ r.cursor = Max(keys)
  <2>1. now[1] = "quota" => Same(r, db, {"cursor"} \cup {"selected"}) /\ \A f \in Columns \ {"cursor"} : r[f] = w[f] /\ r.cursor = Max(keys)
    BY <1>2, <1>14, Zenon
  <2>2. {"cursor"} \cup {"selected"} = {"cursor", "selected"}
    OBVIOUS
  <2> HIDE DEF w
  <2> QED BY <2>1, <2>2 DEF Columns
<1> HIDE DEF w
<1>27. (now[1] = "near_map_load" => Same(r, db, {"cursor", "nearMap"}))
  BY <1>4, <1>16, Zenon
<1>28. (now[1] = "near_map_apply" =>
             Same(r, db, {"cursor", "applied"}) /\ r.applied = db.applied \cup (keys \cap db.nearMap))
  BY <1>5, <1>17, Zenon
<1>29. (now[1] = "benchmark_content_clusters" =>
             /\ Same(r, db, {"cursor", "benchContent"}) /\ r.cursor = Max(keys)
             /\ r.benchContent = db.benchContent \cup keys)
  BY <1>6, <1>18, Zenon
<1>30. (now[1] = "benchmark_final_clusters" =>
             /\ Same(r, db, {"cursor", "benchFinal"}) /\ r.cursor = Max(keys)
             /\ r.benchFinal = db.benchFinal \cup keys)
  BY <1>7, <1>19, Zenon
<1>31. (now[1] \in {"benchmark_exact", "benchmark_final"} =>
             /\ Same(r, db, {"cursor", "reasons"})
             /\ r.reasons = db.reasons \cup {<<d.id, "cluster">> : d \in Named(db, keys)})
  BY <1>8, <1>20, Zenon
<1>32. (now[1] = "exact_choice" =>
             /\ Same(r, db, {"cursor", "exact"})
             /\ r.exact = db.exact \cup BestOfContents(Clean(db), keys))
  BY <1>9, <1>21, Zenon
<1>33. (now[1] = "final_choice" => Same(r, db, {"cursor", "final"}))
  BY <1>10, <1>22, Zenon
<1>34. (now[1] = "canonical_map" =>
             /\ Same(r, db, {"cursor", "map"})
             /\ r.map = db.map \cup
                   UNION {{<<d.id, f.id>> : f \in CanonicalOf(db, d)} : d \in Named(db, keys)})
  BY <1>11, <1>23, Zenon
<1>35. (now[1] \in Residual =>
             /\ Same(r, db, {"cursor", "reasons"})
             /\ r.reasons = db.reasons \cup {<<d.id, now[1]>> : d \in Named(db, keys)})
  BY <1>12, <1>24, Zenon
<1>36. (now[1] = "groups" => Same(r, db, {"cursor", "groups"}))
  BY <1>13, <1>25, Zenon
<1>37. (now[1] = "quota" =>
             /\ Same(r, db, {"cursor", "selected"}) /\ r.cursor = Max(keys)
             /\ r.selected = db.selected \cup
                   SelectedRows(QuotaRows(db, now[2], now[3]), now[2], keys))
  BY <1>14, <1>26, Zenon
<1> QED BY <1>15, <1>27, <1>28, <1>29, <1>30, <1>31, <1>32, <1>33, <1>34, <1>35, <1>36, <1>37, Zenon

\* What a stage finds: where the cursor stands says what is being done.
Standing(db) ==
    \/ db.at <= Len(job.reports) /\ Stage(db) = <<"inventory", db.at>>
    \/ db.at = Listed /\ Stage(db) = <<"phase", "inventory_complete">>
    \/ job.profile = "near" /\ db.at = Listed + 1 /\ Stage(db) = <<"near_map_load">>
    \/ job.profile = "near" /\ db.at = Listed + 2 /\ Stage(db) = <<"near_map_apply">>
    \/ db.at = Mapped + 1 /\ Stage(db) = <<"benchmark_content_clusters">>
    \/ db.at = Mapped + 2 /\ Stage(db) = <<"benchmark_final_clusters">>
    \/ db.at = Mapped + 3 /\ Stage(db) = <<"benchmark_exact">>
    \/ db.at = Mapped + 4 /\ Stage(db) = <<"benchmark_final">>
    \/ db.at = Mapped + 5 /\ Stage(db) = <<"exact_choice">>
    \/ db.at = Mapped + 6 /\ Stage(db) = <<"final_choice">>
    \/ db.at = Mapped + 7 /\ Stage(db) = <<"canonical_map">>
    \/ db.at = Mapped + 8 /\ Stage(db) = <<"residual_exact">>
    \/ db.at = Mapped + 9 /\ Stage(db) = <<"residual_final">>
    \/ db.at = Mapped + 10 /\ Stage(db) = <<"phase", "canonicalized">>
    \/ db.at = Grouped /\ Stage(db) = <<"groups">>
    \/ Handoff /\ db.at = Grouped + 1 /\ Stage(db) = <<"ready">>
    \/ ~Handoff /\ \E i \in 1..Len(QuotaStages) : db.at = Grouped + i /\ Stage(db) = QuotaStages[i]
    \/ ~Handoff /\ db.at > Filled /\ Stage(db)[1] \in {"phase", "emit"}

\* A database that is not finished stands at one stage, and the place says which.
LEMMA EveryStage ==
    ASSUME SoundJob, NEW db, db.at \in Positive, ~Finished(db)
    PROVE  Standing(db)
<1>1. /\ Len(job.reports) \in Nat /\ Listed \in Nat /\ Mapped \in Nat /\ Grouped \in Nat /\ Filled \in Nat
      /\ Listed = Len(job.reports) + 1 /\ Grouped = Mapped + 11
      /\ Filled = Grouped + Len(QuotaStages) /\ Len(QuotaStages) \in Nat
      /\ job.profile = "near" => Mapped = Listed + 2
      /\ job.profile # "near" => Mapped = Listed
  BY PlacesOrdered
<1>2. db.at \in Nat /\ db.at > 0 /\ Stage(db) = Stages[db.at]
  BY DEF Positive, Stage
<1>3. CASE db.at <= Len(job.reports)
  <2>1. db.at \in 1..Len(job.reports)
    BY <1>1, <1>2, <1>3
  <2>2. Stages[db.at] = <<"inventory", db.at>>
    BY <2>1, StagePlaces
  <2> QED BY <1>2, <1>3, <2>2 DEF Standing
<1>4. CASE db.at > Len(job.reports) /\ db.at <= Mapped
  <2>1. db.at = Listed \/ (job.profile = "near" /\ (db.at = Listed + 1 \/ db.at = Listed + 2))
    BY <1>1, <1>2, <1>4
  <2>2. /\ Stages[Listed] = <<"phase", "inventory_complete">>
        /\ job.profile = "near" => Stages[Listed + 1] = <<"near_map_load">>
                                     /\ Stages[Listed + 2] = <<"near_map_apply">>
    BY StagePlaces, Zenon
  <2> QED BY <1>2, <2>1, <2>2 DEF Standing
<1>5. CASE db.at > Mapped /\ db.at <= Grouped
  <2>1. \/ db.at = Mapped + 1 \/ db.at = Mapped + 2 \/ db.at = Mapped + 3 \/ db.at = Mapped + 4
        \/ db.at = Mapped + 5 \/ db.at = Mapped + 6 \/ db.at = Mapped + 7 \/ db.at = Mapped + 8
        \/ db.at = Mapped + 9 \/ db.at = Mapped + 10 \/ db.at = Grouped
    <3>1. PICK k \in 1..11 : db.at = Mapped + k
      <4>1. db.at \in Nat /\ Mapped \in Nat /\ db.at > Mapped /\ db.at <= Mapped + 11
        BY <1>1, <1>2, <1>5, Zenon
      <4>2. ASSUME NEW x \in Nat, NEW y \in Nat, x > y, x <= y + 11 PROVE x - y \in 1..11 /\ x = y + (x - y)
        BY <4>2
      <4> QED BY <4>1, <4>2
    <3>2. k = 1 \/ k = 2 \/ k = 3 \/ k = 4 \/ k = 5 \/ k = 6 \/ k = 7 \/ k = 8 \/ k = 9 \/ k = 10 \/ k = 11
      OBVIOUS
    <3> QED BY <1>1, <3>1, <3>2, Zenon
  <2>2. /\ Stages[Mapped + 1] = <<"benchmark_content_clusters">>
        /\ Stages[Mapped + 2] = <<"benchmark_final_clusters">>
        /\ Stages[Mapped + 3] = <<"benchmark_exact">> /\ Stages[Mapped + 4] = <<"benchmark_final">>
        /\ Stages[Mapped + 5] = <<"exact_choice">> /\ Stages[Mapped + 6] = <<"final_choice">>
        /\ Stages[Mapped + 7] = <<"canonical_map">> /\ Stages[Mapped + 8] = <<"residual_exact">>
        /\ Stages[Mapped + 9] = <<"residual_final">> /\ Stages[Mapped + 10] = <<"phase", "canonicalized">>
        /\ Stages[Grouped] = <<"groups">>
    BY StagePlaces, Zenon
  <2> QED BY <1>2, <2>1, <2>2, Zenon DEF Standing
<1>6. CASE db.at > Grouped /\ Handoff
  <2>1. Len(Stages) = Grouped + 1 /\ Stages[Grouped + 1] = <<"ready">>
    BY <1>6, StagePlaces, Zenon
  <2>2. db.at = Grouped + 1
    BY <1>1, <1>2, <1>6, <2>1 DEF Finished
  <2> QED BY <1>2, <1>6, <2>1, <2>2 DEF Standing
<1>7. CASE db.at > Grouped /\ db.at <= Filled /\ ~Handoff
  <2>1. \A i \in 1..Len(QuotaStages) : Stages[Grouped + i] = QuotaStages[i]
    BY <1>7, StagePlaces, Zenon
  <2>2. db.at - Grouped \in 1..Len(QuotaStages) /\ db.at = Grouped + (db.at - Grouped)
    BY <1>1, <1>2, <1>7
  <2> QED BY <1>2, <1>7, <2>1, <2>2 DEF Standing
<1>8. CASE db.at > Filled /\ ~Handoff
  <2> DEFINE n == Len(job.reports)
  <2>1. /\ Stages[Filled + 1] = <<"phase", "selected">>
        /\ Stages[Filled + 2] = <<"phase", "emitting">>
        /\ (\A i \in 1..n : Stages[Filled + 2 + i] = <<"emit", i>>)
        /\ Stages[Filled + 3 + n] = <<"phase", "emitted">>
        /\ Stages[Filled + 4 + n] = <<"phase", "complete">>
        /\ Len(Stages) = Filled + 4 + n
    BY <1>8, StagePlaces, Zenon
  <2>2. db.at <= Filled + 4 + n /\ n \in Nat /\ Filled \in Nat /\ db.at \in Nat
    <3>1. ~(db.at > Len(Stages)) /\ Len(Stages) = Filled + 4 + n /\ n \in Nat
      BY <1>1, <2>1 DEF Finished
    <3> HIDE DEF n
    <3> QED BY <1>1, <1>2, <3>1
  <2>3. \/ db.at = Filled + 1 \/ db.at = Filled + 2
        \/ (db.at - (Filled + 2) \in 1..n /\ db.at = Filled + 2 + (db.at - (Filled + 2)))
        \/ db.at = Filled + 3 + n \/ db.at = Filled + 4 + n
    <3> HIDE DEF n
    <3>1. db.at > Filled
      BY <1>8
    <3> QED BY <2>2, <3>1
  <2>4. Stages[db.at][1] \in {"phase", "emit"}
    <3> HIDE DEF n
    <3> QED BY <2>1, <2>3
  <2> QED BY <1>2, <1>8, <2>4 DEF Standing
<1> QED BY <1>1, <1>2, <1>3, <1>4, <1>5, <1>6, <1>7, <1>8

\* What depends only on tables that stay is as it was.
LEMMA Untouched ==
    ASSUME SoundJob, NEW db, Curated(db), NEW r, NEW tables, Same(r, db, tables), "at" \notin tables,
           "phase" \notin tables
    PROVE  /\ IsDatabase(r) /\ r.at = db.at /\ db.at \in Nat
           /\ "documents" \notin tables => DocumentsSound(r) /\ r.documents = db.documents
           /\ "documents" \notin tables /\ "reasons" \notin tables =>
                 /\ ReasonsSound(r) /\ StillEligible(r) = StillEligible(db) /\ Clean(r) = Clean(db)
                 /\ \A d : ReasonsOf(r, d) = ReasonsOf(db, d)
           /\ "documents" \notin tables /\ "applied" \notin tables => AppliedSound(r)
           /\ "benchContent" \notin tables /\ "benchFinal" \notin tables
                /\ db.at \notin {Mapped + 1, Mapped + 2} => BenchmarkSound(r)
           /\ tables \cap {"documents", "reasons", "exact", "map"} = {} => ChoiceSound(r)
           /\ "selected" \notin tables
                /\ (db.at <= Grouped \/ ("groups" \notin tables /\ db.at > Filled)) => SelectedSound(r)
<1>1. IsDatabase(r) /\ r.at = db.at /\ db.at \in Nat
  BY DEF Same, Columns, Curated, IsDatabase, Positive, Canonicalized
<1>2. "documents" \notin tables => DocumentsSound(r) /\ r.documents = db.documents
  BY <1>1 DEF Same, Columns, Curated, DocumentsSound
<1>3. ASSUME "documents" \notin tables, "reasons" \notin tables
      PROVE  /\ ReasonsSound(r) /\ StillEligible(r) = StillEligible(db) /\ Clean(r) = Clean(db)
             /\ \A d : ReasonsOf(r, d) = ReasonsOf(db, d)
  <2>1. r.documents = db.documents /\ r.reasons = db.reasons
    BY <1>3 DEF Same, Columns
  <2>2. \A d : ReasonsOf(r, d) = ReasonsOf(db, d)
    BY <2>1 DEF ReasonsOf
  <2>3. ReasonsSound(r)
    BY <2>1, <2>2 DEF Curated, ReasonsSound
  <2> QED BY <2>1, <2>2, <2>3 DEF StillEligible, Clean
<1>4. ASSUME "documents" \notin tables, "applied" \notin tables PROVE AppliedSound(r)
  <2>1. r.documents = db.documents /\ r.applied = db.applied
    BY <1>4 DEF Same, Columns
  <2> QED BY <1>1, <2>1 DEF Curated, AppliedSound, NearApplied
<1>5. ASSUME "benchContent" \notin tables, "benchFinal" \notin tables, db.at \notin {Mapped + 1, Mapped + 2}
      PROVE  BenchmarkSound(r)
  <2>1. r.benchContent = db.benchContent /\ r.benchFinal = db.benchFinal
    BY <1>5 DEF Same, Columns
  <2> QED BY <1>1, <1>5, <2>1 DEF Curated, BenchmarkSound, Reached
<1>6. ASSUME tables \cap {"documents", "reasons", "exact", "map"} = {} PROVE ChoiceSound(r)
  <2>1. /\ r.documents = db.documents /\ r.exact = db.exact /\ r.map = db.map
        /\ "documents" \notin tables /\ "reasons" \notin tables
    BY <1>6 DEF Same, Columns
  <2> QED BY <1>1, <1>3, <2>1 DEF Curated, ChoiceSound
<1>7. ASSUME "selected" \notin tables,
             db.at <= Grouped \/ ("groups" \notin tables /\ db.at > Filled)
      PROVE  SelectedSound(r)
  <2>1. r.selected = db.selected /\ (db.at <= Grouped \/ r.groups = db.groups)
    BY <1>7 DEF Same, Columns
  <2>2. ASSUME NEW d PROVE Behind(r, d) <=> Behind(db, d)
    <3>1. Grouped \in Nat /\ Filled = Grouped + Len(QuotaStages) /\ Len(QuotaStages) \in Nat
      BY PlacesOrdered
    <3>2. \A i \in 1..Len(QuotaStages) : Grouped + i # db.at
      BY <1>1, <1>7, <3>1
    <3> QED BY <1>1, <3>2 DEF Behind
  <2>3. SelectedSound(db) /\ Grouped \in Nat /\ Filled = Grouped + Len(QuotaStages) /\ Len(QuotaStages) \in Nat
    BY PlacesOrdered DEF Curated
  <2>4. r.at > Grouped /\ r.at <= Filled => r.cursor \in Nat
    BY <1>1, <1>7, <2>3
  <2>5. {d \in Fits : Behind(r, d)} = {d \in Fits : Behind(db, d)}
    BY <2>2
  <2>6. r.at > Grouped => r.groups = {<<d.group, SplitOf[d.group]>> : d \in Chosen}
    BY <1>1, <2>1, <2>3 DEF SelectedSound
  <2> QED BY <1>1, <2>1, <2>3, <2>4, <2>5, <2>6 DEF SelectedSound
<1> QED BY <1>1, <1>2, <1>3, <1>4, <1>5, <1>6, <1>7

\* Where the cursor is among them.
LEMMA Ordered ==
    ASSUME SoundJob, NEW db, Curated(db)
    PROVE  /\ db.at \in Nat /\ db.at > 0 /\ Listed \in Nat /\ Mapped \in Nat /\ Grouped \in Nat /\ Filled \in Nat
           /\ Len(job.reports) \in Nat /\ Listed = Len(job.reports) + 1 /\ Listed <= Mapped
           /\ Grouped = Mapped + 11 /\ Filled >= Grouped
<1>1. db.at \in Nat /\ db.at > 0
  BY DEF Curated, IsDatabase, Positive
<1>2. /\ Len(job.reports) \in Nat /\ Listed \in Nat /\ Mapped \in Nat /\ Grouped \in Nat /\ Filled \in Nat
      /\ Listed = Len(job.reports) + 1 /\ Mapped >= Listed /\ Grouped = Mapped + 11
      /\ Filled = Grouped + Len(QuotaStages) /\ Len(QuotaStages) \in Nat
  BY PlacesOrdered, Zenon
<1> QED BY <1>1, <1>2

\* The inventory takes in documents of the reports, with what their rows say.
LEMMA InventoryBatch ==
    ASSUME SoundJob, NEW db, Curated(db), db.at <= Len(job.reports), Stage(db) = <<"inventory", db.at>>
    PROVE  Curated(BoundedBatch(db))
<1> DEFINE r == BoundedBatch(db)
           keys == Batch(db)
           docs == {job.reports[db.at][k] : k \in keys}
           new == UNION {{<<d.id, f>> : f \in d.flags} : d \in docs}
           missing == {<<d.id, "sourceless">> : d \in {d \in docs : d.group = 0}}
<1>1. /\ Same(r, db, {"cursor", "documents", "reasons"})
      /\ r.documents = db.documents \cup docs /\ r.reasons = (db.reasons \cup new) \cup missing
  <2>1. Stage(db)[1] = "inventory" /\ Stage(db)[2] = db.at /\ DOMAIN db = Columns
    BY DEF Curated, IsDatabase
  <2>2. /\ Same(r, db, {"cursor", "documents", "reasons"})
        /\ LET ds == {job.reports[Stage(db)[2]][k] : k \in keys}
           IN  /\ r.documents = db.documents \cup ds
               /\ r.reasons = (db.reasons \cup UNION {{<<d.id, f>> : f \in d.flags} : d \in ds})
                                \cup {<<d.id, "sourceless">> : d \in {d \in ds : d.group = 0}}
    BY <2>1, BatchWrites
  <2> QED BY <2>1, <2>2
<1>2. docs \subseteq AllDocuments
  <2>1. db.at \in DOMAIN job.reports
    <3>1. DOMAIN job.reports = 1..Len(job.reports)
      BY StagePlaces, Zenon
    <3>2. db.at \in Nat /\ db.at > 0 /\ Len(job.reports) \in Nat
      BY Ordered, Zenon
    <3> QED BY <3>1, <3>2
  <2>2. keys \subseteq DOMAIN job.reports[db.at]
    BY DEF Batch, Pending, SubphaseKeys
  <2> HIDE DEF keys
  <2> QED BY <2>1, <2>2, Documents
<1>3. /\ db.at < Listed /\ Listed <= Mapped /\ Mapped < Grouped /\ Grouped <= Filled
      /\ db.at \in Nat /\ Listed \in Nat /\ Mapped \in Nat /\ Grouped \in Nat /\ Filled \in Nat
  <2> HIDE DEF r, keys, docs, new, missing
  <2>1. /\ db.at \in Nat /\ Listed \in Nat /\ Mapped \in Nat /\ Grouped \in Nat /\ Filled \in Nat
        /\ Len(job.reports) \in Nat /\ Listed = Len(job.reports) + 1 /\ Listed <= Mapped
        /\ Grouped = Mapped + 11 /\ Filled >= Grouped
    BY Ordered, Zenon
  <2> QED BY <2>1
<1>4. /\ IsDatabase(r) /\ r.at = db.at /\ AppliedSound(r) \in BOOLEAN
      /\ BenchmarkSound(r) /\ SelectedSound(r)
  <2>1. db.at \notin {Mapped + 1, Mapped + 2} /\ db.at <= Grouped
    BY <1>3
  <2> HIDE DEF r
  <2> QED BY <1>1, <2>1, Untouched DEF AppliedSound
<1> HIDE DEF r, docs
<1>5. DocumentsSound(r)
  BY <1>1, <1>2, <1>3, <1>4 DEF Curated, DocumentsSound
<1>6. \A d \in AllDocuments : \A x :
         <<d.id, x>> \in r.reasons <=>
            <<d.id, x>> \in db.reasons \/ (d \in docs /\ (x \in d.flags \/ (x = "sourceless" /\ d.group = 0)))
  <2>1. ASSUME NEW d \in AllDocuments, NEW x
        PROVE  /\ <<d.id, x>> \in new <=> d \in docs /\ x \in d.flags
               /\ <<d.id, x>> \in missing <=> d \in docs /\ x = "sourceless" /\ d.group = 0
    <3>1. \A e \in docs : e.id = d.id => e = d
      BY <1>2, Documents
    <3>2. <<d.id, x>> \in new <=> \E e \in docs : \E f \in e.flags : <<d.id, x>> = <<e.id, f>>
      OBVIOUS
    <3>3. <<d.id, x>> \in missing <=> \E e \in docs : e.group = 0 /\ <<d.id, x>> = <<e.id, "sourceless">>
      OBVIOUS
    <3> QED BY <3>1, <3>2, <3>3
  <2> QED BY <1>1, <2>1
<1>7. \A d \in AllDocuments : \A x : <<d.id, x>> \in db.reasons => d \in db.documents
  BY Documents DEF Curated, ReasonsSound, DocumentsSound
<1>8. \A w \in r.reasons : \E d \in r.documents : w = <<d.id, w[2]>>
  <2>1. ASSUME NEW w \in new PROVE \E d \in docs : w = <<d.id, w[2]>>
    <3>1. PICK d \in docs : w \in {<<d.id, f>> : f \in d.flags}
      BY <2>1
    <3> QED BY <3>1
  <2>2. ASSUME NEW w \in missing PROVE \E d \in docs : w = <<d.id, w[2]>>
    BY <2>2
  <2> HIDE DEF new, missing
  <2> QED BY <1>1, <2>1, <2>2 DEF Curated, ReasonsSound
<1>9. \A d : \A x : x \in ReasonsOf(r, d) <=> <<d.id, x>> \in r.reasons
  <2>1. ASSUME NEW d, NEW x PROVE x \in ReasonsOf(r, d) <=> <<d.id, x>> \in r.reasons
    <3>1. x \in ReasonsOf(r, d) <=> \E w \in r.reasons : w[1] = d.id /\ x = w[2]
      BY DEF ReasonsOf
    <3>2. \A w \in r.reasons : w = <<w[1], w[2]>>
      <4>1. \A w \in r.reasons : \E e \in r.documents : w = <<e.id, w[2]>>
        BY <1>8
      <4> QED BY <4>1
    <3> QED BY <3>1, <3>2
  <2> QED BY <2>1
<1>10. \A d : \A x : x \in ReasonsOf(db, d) <=> <<d.id, x>> \in db.reasons
  BY ReasonsAre DEF Curated
<1> HIDE DEF new, missing
<1>11. ASSUME NEW d \in r.documents
       PROVE  Own(d) \subseteq ReasonsOf(r, d) /\ ReasonsOf(r, d) \subseteq Own(d) \cup Added
  <2>1. d \in AllDocuments
    BY <1>1, <1>2, <1>5 DEF DocumentsSound
  <2>2. \A x : x \in ReasonsOf(r, d) <=> x \in ReasonsOf(db, d) \/ (d \in docs /\ x \in Own(d))
    <3>1. \A x : x \in Own(d) <=> x \in d.flags \/ (x = "sourceless" /\ d.group = 0)
      BY DEF Own
    <3>2. ASSUME NEW x PROVE x \in ReasonsOf(r, d) <=> x \in ReasonsOf(db, d) \/ (d \in docs /\ x \in Own(d))
      <4>1. x \in ReasonsOf(r, d) <=> <<d.id, x>> \in r.reasons
        BY <1>9
      <4>2. x \in ReasonsOf(db, d) <=> <<d.id, x>> \in db.reasons
        BY <1>10
      <4>3. <<d.id, x>> \in r.reasons <=>
               <<d.id, x>> \in db.reasons \/ (d \in docs /\ (x \in d.flags \/ (x = "sourceless" /\ d.group = 0)))
        BY <1>6, <2>1
      <4> QED BY <3>1, <4>1, <4>2, <4>3, Zenon
    <3> QED BY <3>2
  <2>3. d \in db.documents => Own(d) \subseteq ReasonsOf(db, d) /\ ReasonsOf(db, d) \subseteq Own(d) \cup Added
    BY DEF Curated, ReasonsSound
  <2>4. d \notin db.documents => ReasonsOf(db, d) = {}
    BY <1>7, <1>10, <2>1
  <2>5. d \in db.documents \/ d \in docs
    BY <1>1
  <2> QED BY <2>2, <2>3, <2>4, <2>5
<1>12. ReasonsSound(r)
  BY <1>8, <1>11 DEF ReasonsSound
<1>13. AppliedSound(r)
  <2>1. r.applied = db.applied /\ ~(r.at > Mapped)
    BY <1>1, <1>3, <1>4 DEF Same, Columns
  <2> QED BY <2>1 DEF Curated, AppliedSound
<1>14. ChoiceSound(r)
  <2>1. db.at < Mapped + 5 /\ ~(r.at > Mapped + 10) /\ r.at < Mapped + 5
    BY <1>3, <1>4
  <2>2. r.exact = {} /\ r.map = {}
    BY <1>1, <2>1 DEF Same, Columns, Curated, ChoiceSound
  <2>3. ASSUME NEW d \in r.documents PROVE ReasonsOf(r, d) \cap Residual = {}
    <3>1. d \in AllDocuments
      BY <1>1, <1>2, <1>5 DEF DocumentsSound
    <3>2. \A x \in Residual : <<d.id, x>> \notin db.reasons
      <4>1. d \in db.documents => ReasonsOf(db, d) \cap Residual = {}
        BY <2>1 DEF Curated, ChoiceSound
      <4> QED BY <1>7, <1>10, <3>1, <4>1
    <3>3. \A x \in Residual : x \notin d.flags /\ x # "sourceless"
      <4>1. d.flags \subseteq {"hard", "benchmark"}
        BY <3>1, Fields
      <4> QED BY <4>1 DEF Residual
    <3> QED BY <1>6, <1>9, <3>1, <3>2, <3>3
  <2> QED BY <2>1, <2>2, <2>3 DEF ChoiceSound
<1> QED BY <1>4, <1>5, <1>12, <1>13, <1>14 DEF Curated, r

\* A pass that only writes what nothing else depends on.
LEMMA AsideBatch ==
    ASSUME SoundJob, NEW db, Curated(db),
           \/ db.at = Listed + 1 /\ job.profile = "near" /\ Stage(db) = <<"near_map_load">>
           \/ db.at = Mapped + 6 /\ Stage(db) = <<"final_choice">>
           \/ db.at = Grouped /\ Stage(db) = <<"groups">>
    PROVE  Curated(BoundedBatch(db))
<1> DEFINE r == BoundedBatch(db)
           keys == Batch(db)
<1>1. DOMAIN db = Columns /\ r = BoundedBatch(db) /\ keys = Batch(db)
  BY DEF Curated, IsDatabase
<1> HIDE DEF r, keys
<1>2. Same(r, db, {"cursor", "nearMap"}) \/ Same(r, db, {"cursor", "final"}) \/ Same(r, db, {"cursor", "groups"})
  <2>1. \/ Stage(db)[1] = "near_map_load" \/ Stage(db)[1] = "final_choice" \/ Stage(db)[1] = "groups"
    OBVIOUS
  <2>2. /\ Stage(db)[1] = "near_map_load" => Same(r, db, {"cursor", "nearMap"})
        /\ Stage(db)[1] = "final_choice" => Same(r, db, {"cursor", "final"})
        /\ Stage(db)[1] = "groups" => Same(r, db, {"cursor", "groups"})
    BY <1>1, BatchWrites
  <2> QED BY <2>1, <2>2
<1>3. PICK tables \in {{"cursor", "nearMap"}, {"cursor", "final"}, {"cursor", "groups"}} : Same(r, db, tables)
  BY <1>2
<1>4. /\ {"at", "documents", "reasons", "applied", "benchContent", "benchFinal", "selected"} \cap tables = {}
      /\ tables \cap {"documents", "reasons", "exact", "map"} = {}
  BY <1>3
<1>5. db.at \notin {Mapped + 1, Mapped + 2} /\ db.at <= Grouped
  <2>1. Listed \in Nat /\ Mapped \in Nat /\ Grouped = Mapped + 11
    BY Ordered, Zenon
  <2>2. \/ db.at = Listed + 1 /\ Mapped = Listed + 2
        \/ db.at = Mapped + 6 \/ db.at = Grouped
    BY PlacesOrdered, Zenon
  <2> QED BY <2>1, <2>2
<1>6. Curated(r)
  <2>1. /\ IsDatabase(r) /\ DocumentsSound(r) /\ ReasonsSound(r) /\ AppliedSound(r)
        /\ BenchmarkSound(r) /\ ChoiceSound(r) /\ SelectedSound(r)
    BY <1>3, <1>4, <1>5, Untouched
  <2> QED BY <2>1 DEF Curated
<1> QED BY <1>6 DEF r

\* The near mapping is applied to English documents only.
LEMMA ApplyBatch ==
    ASSUME SoundJob, NEW db, Curated(db), job.profile = "near", db.at = Listed + 2,
           Stage(db) = <<"near_map_apply">>
    PROVE  Curated(BoundedBatch(db))
<1> DEFINE r == BoundedBatch(db)
           keys == Batch(db)
<1>1. Same(r, db, {"cursor", "applied"}) /\ r.applied = db.applied \cup (keys \cap db.nearMap)
  <2>1. Stage(db)[1] = "near_map_apply" /\ DOMAIN db = Columns
    BY DEF Curated, IsDatabase
  <2> QED BY <2>1, BatchWrites
<1>2. \A i \in keys : \E d \in AllDocuments : English(d) /\ d.id = i
  <2>1. keys \subseteq {d.id : d \in {d \in db.documents : English(d)}}
    BY DEF Batch, Pending, SubphaseKeys
  <2> HIDE DEF keys
  <2> QED BY <2>1 DEF Curated, DocumentsSound
<1> HIDE DEF r, keys
<1>3. db.at \notin {Mapped + 1, Mapped + 2} /\ db.at <= Grouped /\ db.at = Mapped /\ db.at \in Nat
  BY Ordered, PlacesOrdered
<1>4. /\ IsDatabase(r) /\ DocumentsSound(r) /\ ReasonsSound(r)
      /\ BenchmarkSound(r) /\ ChoiceSound(r) /\ SelectedSound(r) /\ r.at = db.at
  <2> DEFINE tables == {"cursor", "applied"}
  <2>1. /\ {"at", "phase", "documents", "reasons", "benchContent", "benchFinal", "selected"} \cap tables = {}
        /\ tables \cap {"documents", "reasons", "exact", "map"} = {}
    OBVIOUS
  <2>2. Same(r, db, tables)
    BY <1>1
  <2> HIDE DEF tables
  <2> QED BY <1>3, <2>1, <2>2, Untouched
<1>5. AppliedSound(r)
  BY <1>1, <1>2, <1>3, <1>4 DEF Curated, AppliedSound
<1>6. Curated(r)
  BY <1>4, <1>5 DEF Curated
<1> QED BY <1>6 DEF r

\* Rows that mark documents which are there.
LEMMA MarkedReasons ==
    ASSUME SoundJob, NEW db, Curated(db), NEW r, Same(r, db, {"cursor", "reasons"}),
           NEW docs, docs \subseteq db.documents, NEW x \in Added,
           r.reasons = db.reasons \cup {<<d.id, x>> : d \in docs}
    PROVE  /\ ReasonsSound(r)
           /\ \A d \in AllDocuments : ReasonsOf(r, d) = ReasonsOf(db, d) \cup IF d \in docs THEN {x} ELSE {}
<1>1. r.documents = db.documents /\ db.documents \subseteq AllDocuments
  BY DEF Same, Columns, Curated, DocumentsSound
<1>2. \A w \in r.reasons : \E d \in r.documents : w = <<d.id, w[2]>>
  BY <1>1 DEF Curated, ReasonsSound
<1>3. \A d : \A y : y \in ReasonsOf(r, d) <=> <<d.id, y>> \in r.reasons
  <2>1. ASSUME NEW d, NEW y PROVE y \in ReasonsOf(r, d) <=> <<d.id, y>> \in r.reasons
    <3>1. y \in ReasonsOf(r, d) <=> \E w \in r.reasons : w[1] = d.id /\ y = w[2]
      BY DEF ReasonsOf
    <3>2. \A w \in r.reasons : w = <<w[1], w[2]>>
      <4>1. \A w \in r.reasons : \E e \in r.documents : w = <<e.id, w[2]>>
        BY <1>2
      <4> QED BY <4>1
    <3> QED BY <3>1, <3>2
  <2> QED BY <2>1
<1>4. \A d : \A y : y \in ReasonsOf(db, d) <=> <<d.id, y>> \in db.reasons
  BY ReasonsAre DEF Curated
<1>5. ASSUME NEW d \in AllDocuments
      PROVE  ReasonsOf(r, d) = ReasonsOf(db, d) \cup IF d \in docs THEN {x} ELSE {}
  <2>1. ASSUME NEW y PROVE <<d.id, y>> \in {<<e.id, x>> : e \in docs} <=> d \in docs /\ y = x
    <3>1. \A e \in docs : e.id = d.id => e = d
      BY <1>1, Documents
    <3> QED BY <3>1
  <2>2. \A y : y \in ReasonsOf(r, d) <=> y \in ReasonsOf(db, d) \/ (d \in docs /\ y = x)
    BY <1>3, <1>4, <2>1
  <2> QED BY <2>2
<1>6. ASSUME NEW d \in r.documents
      PROVE  Own(d) \subseteq ReasonsOf(r, d) /\ ReasonsOf(r, d) \subseteq Own(d) \cup Added
  BY <1>1, <1>5 DEF Curated, ReasonsSound
<1> QED BY <1>2, <1>5, <1>6 DEF ReasonsSound

\* The passes that mark what shares a content or a cluster with a benchmark.
LEMMA ClusterBatch ==
    ASSUME SoundJob, NEW db, Curated(db),
           \/ db.at = Mapped + 3 /\ Stage(db) = <<"benchmark_exact">>
           \/ db.at = Mapped + 4 /\ Stage(db) = <<"benchmark_final">>
    PROVE  Curated(BoundedBatch(db))
<1> DEFINE r == BoundedBatch(db)
           docs == Named(db, Batch(db))
<1>1. Same(r, db, {"cursor", "reasons"}) /\ r.reasons = db.reasons \cup {<<d.id, "cluster">> : d \in docs}
  <2>1. Stage(db)[1] \in {"benchmark_exact", "benchmark_final"} /\ DOMAIN db = Columns
    BY DEF Curated, IsDatabase
  <2> QED BY <2>1, BatchWrites
<1>2. docs \subseteq db.documents
  BY DEF Named
<1> HIDE DEF r, docs
<1>3. "cluster" \in Added /\ "cluster" \notin Residual
  BY DEF Added, Residual
<1>4. ReasonsSound(r) /\ \A d \in AllDocuments : ReasonsOf(r, d) = ReasonsOf(db, d) \cup IF d \in docs THEN {"cluster"} ELSE {}
  BY <1>1, <1>2, <1>3, MarkedReasons
<1>5. db.at \notin {Mapped + 1, Mapped + 2} /\ db.at <= Grouped /\ db.at < Mapped + 5 /\ ~(db.at > Mapped + 10)
  BY Ordered
<1>6. /\ IsDatabase(r) /\ DocumentsSound(r) /\ AppliedSound(r)
      /\ BenchmarkSound(r) /\ SelectedSound(r) /\ r.at = db.at
  <2> DEFINE tables == {"cursor", "reasons"}
  <2>1. {"at", "phase", "documents", "applied", "benchContent", "benchFinal", "selected"} \cap tables = {}
    OBVIOUS
  <2>2. Same(r, db, tables)
    BY <1>1
  <2> HIDE DEF tables
  <2> QED BY <1>5, <2>1, <2>2, Untouched
<1>7. ChoiceSound(r)
  <2>1. r.exact = {} /\ r.map = {} /\ r.documents = db.documents /\ db.documents \subseteq AllDocuments
    BY <1>1, <1>5 DEF Same, Columns, Curated, ChoiceSound, DocumentsSound
  <2>2. \A d \in r.documents : ReasonsOf(r, d) \cap Residual = {}
    BY <1>3, <1>4, <1>5, <2>1 DEF Curated, ChoiceSound
  <2> QED BY <1>5, <1>6, <2>1, <2>2 DEF ChoiceSound
<1>8. Curated(r)
  BY <1>4, <1>6, <1>7 DEF Curated
<1> QED BY <1>8 DEF r

\* The passes that mark what is not the best of its content or of its cluster.
LEMMA ResidualBatch ==
    ASSUME SoundJob, NEW db, Curated(db),
           \/ db.at = Mapped + 8 /\ Stage(db) = <<"residual_exact">>
           \/ db.at = Mapped + 9 /\ Stage(db) = <<"residual_final">>
    PROVE  Curated(BoundedBatch(db))
<1> DEFINE r == BoundedBatch(db)
           docs == Named(db, Batch(db))
           x == Stage(db)[1]
<1>1. Same(r, db, {"cursor", "reasons"}) /\ r.reasons = db.reasons \cup {<<d.id, x>> : d \in docs}
  <2>1. x \in Residual /\ DOMAIN db = Columns
    BY DEF Curated, IsDatabase, Residual
  <2> QED BY <2>1, BatchWrites
<1>2. docs \subseteq StillEligible(db)
  <2>1. ASSUME NEW d \in docs PROVE d \in StillEligible(db)
    <3>1. d \in db.documents /\ d.id \in SubphaseKeys(db) /\ d \in AllDocuments
      BY DEF Named, Batch, Pending, Curated, DocumentsSound
    <3>2. CASE Stage(db) = <<"residual_exact">>
      <4>1. SubphaseKeys(db) = {e.id : e \in {e \in db.documents :
                ExactOf(db, e) \ {e} # {} /\ \E m \in db.map : m[1] = e.id}}
        BY <3>2 DEF SubphaseKeys
      <4>2. PICK e \in db.documents : e.id = d.id /\ \E m \in db.map : m[1] = e.id
        BY <3>1, <4>1
      <4> QED BY <3>1, <4>2 DEF Curated, ChoiceSound
    <3>3. CASE Stage(db) = <<"residual_final">>
      <4>1. SubphaseKeys(db) = {e.id : e \in {e \in db.exact : FinalOf(db, e) \ {e} # {}}}
        BY <3>3 DEF SubphaseKeys
      <4>2. PICK e \in db.exact : e.id = d.id
        BY <3>1, <4>1
      <4>3. e \in StillEligible(db) /\ e \in AllDocuments
        BY <4>2 DEF Curated, ChoiceSound, StillEligible, DocumentsSound
      <4>4. e = d
        BY <3>1, <4>2, <4>3, Documents
      <4> QED BY <4>3, <4>4
    <3> QED BY <3>2, <3>3
  <2> QED BY <2>1
<1>3. docs \subseteq db.documents
  BY <1>2 DEF StillEligible
<1>4. x \in Residual /\ x \in Added
  BY DEF Added, Residual
<1> HIDE DEF r, docs, x
<1>5. ReasonsSound(r) /\ \A d \in AllDocuments : ReasonsOf(r, d) = ReasonsOf(db, d) \cup IF d \in docs THEN {x} ELSE {}
  BY <1>1, <1>3, <1>4, MarkedReasons
<1>6. db.at \notin {Mapped + 1, Mapped + 2} /\ db.at <= Grouped /\ ~(db.at < Mapped + 5) /\ ~(db.at > Mapped + 10)
  BY Ordered
<1>7. /\ IsDatabase(r) /\ DocumentsSound(r) /\ AppliedSound(r)
      /\ BenchmarkSound(r) /\ SelectedSound(r) /\ r.at = db.at
  <2> DEFINE tables == {"cursor", "reasons"}
  <2>1. {"at", "phase", "documents", "applied", "benchContent", "benchFinal", "selected"} \cap tables = {}
    OBVIOUS
  <2>2. Same(r, db, tables)
    BY <1>1
  <2> HIDE DEF tables
  <2> QED BY <1>6, <2>1, <2>2, Untouched
<1>8. /\ r.exact = db.exact /\ r.map = db.map /\ r.documents = db.documents /\ db.documents \subseteq AllDocuments
  BY <1>1 DEF Same, Columns, Curated, DocumentsSound
<1>9. StillEligible(r) = StillEligible(db)
  <2>1. \A d \in db.documents : ReasonsOf(r, d) \subseteq Residual <=> ReasonsOf(db, d) \subseteq Residual
    BY <1>4, <1>5, <1>8
  <2> QED BY <1>8, <2>1 DEF StillEligible
<1>10. \A d \in db.documents : ReasonsOf(r, d) \cap Residual # {} => d \in StillEligible(db)
  <2>1. ASSUME NEW d \in db.documents, d \notin docs, ReasonsOf(r, d) \cap Residual # {}
        PROVE  d \in StillEligible(db)
    <3>1. ReasonsOf(r, d) = ReasonsOf(db, d)
      BY <1>5, <1>8, <2>1
    <3> QED BY <2>1, <3>1 DEF Curated, ChoiceSound
  <2> QED BY <1>2, <2>1
<1>11. ChoiceSound(r)
  BY <1>6, <1>7, <1>8, <1>9, <1>10 DEF Curated, ChoiceSound
<1>12. Curated(r)
  BY <1>5, <1>7, <1>11 DEF Curated
<1> QED BY <1>12 DEF r

\* The documents of a job have finitely many contents, clusters and ranks, all numbers.
LEMMA FlaggedKeys ==
    ASSUME SoundJob
    PROVE  /\ FlaggedContents \subseteq Nat /\ IsFiniteSet(FlaggedContents)
           /\ FlaggedClusters \subseteq Nat /\ IsFiniteSet(FlaggedClusters)
           /\ \A k \in FlaggedContents \cup FlaggedClusters : k > 0
<1> DEFINE S == Flagged(AllDocuments)
           P == job.profile
           f == [d \in S |-> d.content]
           g == [d \in S |-> Cluster(P, d)]
<1>1. S \subseteq AllDocuments
  BY DEF Flagged
<1>2. IsFiniteSet(S)
  BY <1>1, FinitelyMany, FS_Subset
<1>3. \A d \in S : d.content \in Nat \ {0} /\ Cluster(P, d) \in Nat \ {0}
  BY <1>1, Fields
<1> HIDE DEF S
<1>4. {f[d] : d \in S} = {d.content : d \in S} /\ {g[d] : d \in S} = {Cluster(P, d) : d \in S}
  OBVIOUS
<1>5. IsFiniteSet({f[d] : d \in S}) /\ IsFiniteSet({g[d] : d \in S})
  <2> HIDE DEF f, g
  <2> QED BY <1>2, FiniteImage
<1>6. FlaggedContents = {d.content : d \in S} /\ FlaggedClusters = {Cluster(P, d) : d \in S}
  BY DEF FlaggedContents, FlaggedClusters, S
<1>7. IsFiniteSet(FlaggedContents) /\ IsFiniteSet(FlaggedClusters)
  BY <1>4, <1>5, <1>6
<1>8. \A k \in FlaggedContents \cup FlaggedClusters : k \in Nat /\ k > 0
  BY <1>3, <1>6
<1> QED BY <1>7, <1>8

\* A pass over the keys of flagged documents has reached its cursor.
LEMMA ReachedBatch ==
    ASSUME NEW K, K \subseteq Nat, IsFiniteSet(K), NEW db, SubphaseKeys(db) = K, Pending(db) # {},
           NEW i, db.at = i, i \in Nat, NEW table, Reached(db, i, table, K), job.rows \in Positive,
           NEW r, r.at = db.at, r.cursor = Max(Batch(db))
    PROVE  Reached(r, i, table \cup Batch(db), K)
<1>1. db.cursor \in Nat /\ table = {k \in K : k <= db.cursor}
  BY DEF Reached
<1>2. Pending(db) = After(K, db.cursor)
  BY DEF Pending, After
<1>3. Batch(db) = FirstOf(After(K, db.cursor), job.rows)
  BY <1>2 DEF Batch, FirstOf
<1>4. Visited(K, db.cursor, Batch(db))
  BY <1>1, <1>2, <1>3, BatchIsPrefix
<1> QED BY <1>1, <1>4 DEF Reached, Visited

\* The contents and the clusters of flagged documents.
LEMMA KeysBatch ==
    ASSUME SoundJob, NEW db, Curated(db), Pending(db) # {},
           \/ db.at = Mapped + 1 /\ Stage(db) = <<"benchmark_content_clusters">>
           \/ db.at = Mapped + 2 /\ Stage(db) = <<"benchmark_final_clusters">>
    PROVE  Curated(BoundedBatch(db))
<1> DEFINE r == BoundedBatch(db)
           keys == Batch(db)
<1>1. /\ db.at = Mapped + 1 =>
            /\ Same(r, db, {"cursor", "benchContent"}) /\ r.cursor = Max(keys)
            /\ r.benchContent = db.benchContent \cup keys
      /\ db.at = Mapped + 2 =>
            /\ Same(r, db, {"cursor", "benchFinal"}) /\ r.cursor = Max(keys)
            /\ r.benchFinal = db.benchFinal \cup keys
  <2>1. Mapped \in Nat
    BY Ordered, Zenon
  <2>2. /\ db.at = Mapped + 1 => Stage(db)[1] = "benchmark_content_clusters"
        /\ db.at = Mapped + 2 => Stage(db)[1] = "benchmark_final_clusters"
        /\ DOMAIN db = Columns
    BY <2>1 DEF Curated, IsDatabase
  <2> QED BY <2>2, BatchWrites
<1>2. /\ db.at \in Nat /\ db.at <= Grouped /\ Mapped \in Nat /\ Listed \in Nat /\ db.at > Listed
      /\ db.at > Mapped
  BY Ordered
<1>3. db.documents = AllDocuments
  BY <1>2 DEF Curated, DocumentsSound
<1>4. Benchmarked(db) = Flagged(AllDocuments)
  BY <1>3, BenchmarkedAre DEF Curated
<1>5. /\ db.at = Mapped + 1 => SubphaseKeys(db) = FlaggedContents
      /\ db.at = Mapped + 2 => SubphaseKeys(db) = FlaggedClusters
  <2>1. ASSUME db.at = Mapped + 1 PROVE SubphaseKeys(db) = FlaggedContents
    <3>1. Stage(db)[1] = "benchmark_content_clusters"
      BY <1>2, <2>1
    <3>2. SubphaseKeys(db) = {d.content : d \in Benchmarked(db)}
      BY <3>1 DEF SubphaseKeys
    <3> QED BY <1>4, <3>2 DEF FlaggedContents
  <2>2. ASSUME db.at = Mapped + 2 PROVE SubphaseKeys(db) = FlaggedClusters
    <3>1. Stage(db)[1] = "benchmark_final_clusters"
      BY <1>2, <2>2
    <3>2. SubphaseKeys(db) = {FinalCluster(db, d) : d \in Benchmarked(db)}
      BY <3>1 DEF SubphaseKeys
    <3>3. \A d \in Flagged(AllDocuments) : FinalCluster(db, d) = Cluster(job.profile, d)
      <4>1. \A d \in AllDocuments : FinalCluster(db, d) = Cluster(job.profile, d)
        BY <1>2, ClusterIs DEF Curated
      <4> QED BY <4>1 DEF Flagged
    <3> QED BY <1>4, <3>2, <3>3 DEF FlaggedClusters
  <2> QED BY <2>1, <2>2
<1> HIDE DEF r, keys
<1>6. /\ IsDatabase(r) /\ DocumentsSound(r) /\ ReasonsSound(r) /\ AppliedSound(r)
      /\ ChoiceSound(r) /\ SelectedSound(r) /\ r.at = db.at
  <2>1. PICK tables \in {{"cursor", "benchContent"}, {"cursor", "benchFinal"}} : Same(r, db, tables)
    BY <1>1
  <2>2. /\ {"at", "documents", "reasons", "applied", "selected"} \cap tables = {}
        /\ tables \cap {"documents", "reasons", "exact", "map"} = {}
    BY <2>1
  <2> QED BY <1>2, <2>1, <2>2, Untouched
<1>7. job.rows \in Positive
  BY DEF SoundJob
<1>8. BenchmarkSound(r)
  <2>1. CASE db.at = Mapped + 1
    <3>1. /\ Same(r, db, {"cursor", "benchContent"}) /\ r.cursor = Max(Batch(db))
          /\ r.benchContent = db.benchContent \cup Batch(db) /\ r.benchFinal = db.benchFinal
      BY <1>1, <2>1 DEF Same, Columns, keys
    <3>2. Reached(db, Mapped + 1, db.benchContent, FlaggedContents)
      BY DEF Curated, BenchmarkSound
    <3>3. Reached(r, Mapped + 1, db.benchContent \cup Batch(db), FlaggedContents)
      BY <1>2, <1>5, <1>6, <1>7, <2>1, <3>1, <3>2, ReachedBatch, FlaggedKeys
    <3>4. Reached(r, Mapped + 2, r.benchFinal, FlaggedClusters)
      <4>1. db.at < Mapped + 2 /\ ~(db.at = Mapped + 2) /\ ~(db.at > Mapped + 2)
        BY <1>2, <2>1
      <4>2. Reached(db, Mapped + 2, db.benchFinal, FlaggedClusters)
        BY DEF Curated, BenchmarkSound
      <4> QED BY <1>6, <3>1, <4>1, <4>2 DEF Reached
    <3> QED BY <3>1, <3>3, <3>4 DEF BenchmarkSound
  <2>2. CASE db.at = Mapped + 2
    <3>1. /\ Same(r, db, {"cursor", "benchFinal"}) /\ r.cursor = Max(Batch(db))
          /\ r.benchFinal = db.benchFinal \cup Batch(db) /\ r.benchContent = db.benchContent
      BY <1>1, <2>2 DEF Same, Columns, keys
    <3>2. Reached(db, Mapped + 2, db.benchFinal, FlaggedClusters)
      BY DEF Curated, BenchmarkSound
    <3>3. Reached(r, Mapped + 2, db.benchFinal \cup Batch(db), FlaggedClusters)
      BY <1>2, <1>5, <1>6, <1>7, <2>2, <3>1, <3>2, ReachedBatch, FlaggedKeys
    <3>4. Reached(r, Mapped + 1, r.benchContent, FlaggedContents)
      <4>1. db.at > Mapped + 1 /\ ~(db.at = Mapped + 1) /\ ~(db.at < Mapped + 1)
        BY <1>2, <2>2
      <4>2. Reached(db, Mapped + 1, db.benchContent, FlaggedContents)
        BY DEF Curated, BenchmarkSound
      <4> QED BY <1>6, <3>1, <4>1, <4>2 DEF Reached
    <3> QED BY <3>1, <3>3, <3>4 DEF BenchmarkSound
  <2> QED BY <2>1, <2>2
<1>9. Curated(r)
  BY <1>6, <1>8 DEF Curated
<1> QED BY <1>9 DEF r

\* Copies are chosen among the clean.
LEMMA ExactBatch ==
    ASSUME SoundJob, NEW db, Curated(db), db.at = Mapped + 5, Stage(db) = <<"exact_choice">>
    PROVE  Curated(BoundedBatch(db))
<1> DEFINE r == BoundedBatch(db)
           keys == Batch(db)
           best == BestOfContents(Clean(db), keys)
<1>1. Same(r, db, {"cursor", "exact"}) /\ r.exact = db.exact \cup best
  <2>1. Stage(db)[1] = "exact_choice" /\ DOMAIN db = Columns
    BY DEF Curated, IsDatabase
  <2> QED BY <2>1, BatchWrites
<1>2. Clean(db) \subseteq StillEligible(db) /\ Clean(db) \subseteq AllDocuments
  BY DEF Clean, StillEligible, Curated, DocumentsSound
<1>3. best \subseteq StillEligible(db)
  <2>1. ASSUME NEW k \in keys PROVE Best({d \in Clean(db) : d.content = k}) \in StillEligible(db)
    <3> DEFINE S == {d \in Clean(db) : d.content = k}
    <3>1. keys \subseteq {d.content : d \in Clean(db)}
      BY DEF Batch, Pending, SubphaseKeys
    <3>2. S # {}
      <4> HIDE DEF keys
      <4> QED BY <2>1, <3>1
    <3>3. S \subseteq AllDocuments /\ S \subseteq StillEligible(db)
      BY <1>2
    <3> HIDE DEF S
    <3>4. Best(S) \in S
      BY <3>2, <3>3, BestIsOne
    <3>5. Best(S) \in StillEligible(db)
      BY <3>3, <3>4
    <3> QED BY <3>5 DEF S
  <2> HIDE DEF keys
  <2> QED BY <2>1 DEF BestOfContents
<1> HIDE DEF r, keys, best
<1>4. db.at \notin {Mapped + 1, Mapped + 2} /\ db.at <= Grouped /\ ~(db.at < Mapped + 5) /\ ~(db.at > Mapped + 10)
  BY Ordered
<1>5. /\ IsDatabase(r) /\ DocumentsSound(r) /\ ReasonsSound(r) /\ AppliedSound(r)
      /\ BenchmarkSound(r) /\ SelectedSound(r) /\ r.at = db.at
      /\ StillEligible(r) = StillEligible(db) /\ \A d : ReasonsOf(r, d) = ReasonsOf(db, d)
  <2> DEFINE tables == {"cursor", "exact"}
  <2>1. {"at", "phase", "documents", "reasons", "applied", "benchContent", "benchFinal", "selected"} \cap tables = {}
    OBVIOUS
  <2>2. Same(r, db, tables)
    BY <1>1
  <2> HIDE DEF tables
  <2> QED BY <1>4, <2>1, <2>2, Untouched
<1>6. ChoiceSound(r)
  <2>1. r.map = db.map /\ r.documents = db.documents
    BY <1>1 DEF Same, Columns
  <2> QED BY <1>1, <1>3, <1>4, <1>5, <2>1 DEF Curated, ChoiceSound
<1>7. Curated(r)
  BY <1>5, <1>6 DEF Curated
<1> QED BY <1>7 DEF r

\* Only a clean document is mapped to its copy.
LEMMA MapBatch ==
    ASSUME SoundJob, NEW db, Curated(db), db.at = Mapped + 7, Stage(db) = <<"canonical_map">>
    PROVE  Curated(BoundedBatch(db))
<1> DEFINE r == BoundedBatch(db)
           docs == Named(db, Batch(db))
           pairs == UNION {{<<d.id, f.id>> : f \in CanonicalOf(db, d)} : d \in docs}
<1>1. Same(r, db, {"cursor", "map"}) /\ r.map = db.map \cup pairs
  <2>1. Stage(db)[1] = "canonical_map" /\ DOMAIN db = Columns
    BY DEF Curated, IsDatabase
  <2> QED BY <2>1, BatchWrites
<1>2. docs \subseteq StillEligible(db) /\ docs \subseteq AllDocuments
  <2>1. ASSUME NEW d \in docs PROVE d \in StillEligible(db) /\ d \in AllDocuments
    <3>1. d \in db.documents /\ d.id \in SubphaseKeys(db) /\ d \in AllDocuments
      BY DEF Named, Batch, Pending, Curated, DocumentsSound
    <3>2. SubphaseKeys(db) = {e.id : e \in {e \in Clean(db) : CanonicalOf(db, e) # {}}}
      BY DEF SubphaseKeys
    <3>3. PICK e \in Clean(db) : e.id = d.id
      BY <3>1, <3>2
    <3>4. e = d
      BY <3>1, <3>3, Documents DEF Clean, Curated, DocumentsSound
    <3> QED BY <3>1, <3>3, <3>4 DEF Clean, StillEligible
  <2> QED BY <2>1
<1> HIDE DEF docs
<1>3. \A m \in pairs : \A d \in db.documents : d.id = m[1] => d \in StillEligible(db)
  <2>1. ASSUME NEW m \in pairs, NEW d \in db.documents, d.id = m[1] PROVE d \in StillEligible(db)
    <3>1. PICK e \in docs : m \in {<<e.id, f.id>> : f \in CanonicalOf(db, e)}
      BY <2>1
    <3>2. m[1] = e.id
      BY <3>1
    <3>3. d = e
      BY <1>2, <2>1, <3>2, Documents DEF Curated, DocumentsSound
    <3> QED BY <1>2, <3>3
  <2> QED BY <2>1
<1> HIDE DEF r, pairs
<1>4. db.at \notin {Mapped + 1, Mapped + 2} /\ db.at <= Grouped /\ ~(db.at < Mapped + 5) /\ ~(db.at > Mapped + 10)
  BY Ordered
<1>5. /\ IsDatabase(r) /\ DocumentsSound(r) /\ ReasonsSound(r) /\ AppliedSound(r)
      /\ BenchmarkSound(r) /\ SelectedSound(r) /\ r.at = db.at
      /\ StillEligible(r) = StillEligible(db) /\ \A d : ReasonsOf(r, d) = ReasonsOf(db, d)
  <2> DEFINE tables == {"cursor", "map"}
  <2>1. {"at", "phase", "documents", "reasons", "applied", "benchContent", "benchFinal", "selected"} \cap tables = {}
    OBVIOUS
  <2>2. Same(r, db, tables)
    BY <1>1
  <2> HIDE DEF tables
  <2> QED BY <1>4, <2>1, <2>2, Untouched
<1>6. ChoiceSound(r)
  <2>1. r.exact = db.exact /\ r.documents = db.documents
    BY <1>1 DEF Same, Columns
  <2>2. \A m \in r.map : \A d \in r.documents : d.id = m[1] => d \in StillEligible(r)
    BY <1>1, <1>3, <1>5, <2>1 DEF Curated, ChoiceSound
  <2> QED BY <1>4, <1>5, <2>1, <2>2 DEF Curated, ChoiceSound
<1>7. Curated(r)
  BY <1>5, <1>6 DEF Curated
<1> QED BY <1>7 DEF r

-----------------------------------------------------------------------------
(* Tokens and quotas.                                                      *)

Positions(S) == UNION {{d.id} \X (1 .. d.tokens) : d \in S}
Counted(S) == IsFiniteSet(S) /\ \A d \in S : d.tokens \in Nat

\* The smaller of two numbers.
LEMMA MinOfTwo ==
    ASSUME NEW a \in Int, NEW b \in Int
    PROVE  Min({a, b}) = IF a <= b THEN a ELSE b
<1>1. Min({a, b}) = CHOOSE x \in {a, b} : \A y \in {a, b} : x <= y
  BY DEF Min
<1>2. \A x \in {a, b} : (\A y \in {a, b} : x <= y) => x = IF a <= b THEN a ELSE b
  OBVIOUS
<1>3. \E x \in {a, b} : \A y \in {a, b} : x <= y
  OBVIOUS
<1> QED BY <1>1, <1>2, <1>3

\* The positions of one document.
LEMMA OneCounted ==
    ASSUME NEW d, d.tokens \in Nat
    PROVE  IsFiniteSet({d.id} \X (1..d.tokens)) /\ Cardinality({d.id} \X (1..d.tokens)) = d.tokens
<1>1. IsFiniteSet({d.id}) /\ Cardinality({d.id}) = 1
  BY FS_Singleton
<1>2. IsFiniteSet(1..d.tokens) /\ Cardinality(1..d.tokens) = d.tokens
  BY FS_Interval
<1>3. /\ IsFiniteSet({d.id} \X (1..d.tokens))
      /\ Cardinality({d.id} \X (1..d.tokens)) = Cardinality({d.id}) * Cardinality(1..d.tokens)
  BY <1>1, <1>2, FS_Product
<1> QED BY <1>1, <1>2, <1>3

\* The tokens of documents are a number, no smaller for more positions.
LEMMA TokensCounted ==
    ASSUME NEW S, Counted(S)
    PROVE  /\ IsFiniteSet(Positions(S)) /\ TokensOf(S) = Cardinality(Positions(S)) /\ TokensOf(S) \in Nat
           /\ \A T : Positions(T) \subseteq Positions(S) => TokensOf(T) <= TokensOf(S) /\ TokensOf(T) \in Nat
<1> DEFINE block(d) == {d.id} \X (1..d.tokens)
           f == [d \in S |-> block(d)]
           T == {f[d] : d \in S}
<1>1. \A d \in S : IsFiniteSet(block(d))
  BY OneCounted DEF Counted
<1>2. IsFiniteSet(T)
  <2> HIDE DEF f
  <2> QED BY FiniteImage DEF Counted
<1>3. T = {block(d) : d \in S}
  <2> HIDE DEF block
  <2> QED OBVIOUS
<1>4. \A x \in T : IsFiniteSet(x)
  <2> HIDE DEF block, T
  <2> QED BY <1>1, <1>3
<1>5. IsFiniteSet(UNION T)
  <2> HIDE DEF T
  <2> QED BY <1>2, <1>4, FS_UNION
<1>6. Positions(S) = UNION T
  <2> HIDE DEF T
  <2> QED BY <1>3 DEF Positions
<1>7. IsFiniteSet(Positions(S)) /\ \A U : TokensOf(U) = Cardinality(Positions(U))
  BY <1>5, <1>6 DEF TokensOf, Positions
<1>8. ASSUME NEW U, Positions(U) \subseteq Positions(S)
      PROVE  TokensOf(U) <= TokensOf(S) /\ TokensOf(U) \in Nat
  <2>1. IsFiniteSet(Positions(U)) /\ Cardinality(Positions(U)) <= Cardinality(Positions(S))
    BY <1>7, <1>8, FS_Subset
  <2> QED BY <1>7, <2>1, FS_CardinalityType
<1> QED BY <1>7, <1>8, FS_CardinalityType

\* Documents with different ids have different positions.
LEMMA TokensJoin ==
    ASSUME NEW S, NEW T, Counted(S), Counted(T), \A d \in S, e \in T : d.id # e.id
    PROVE  TokensOf(S \cup T) = TokensOf(S) + TokensOf(T) /\ Counted(S \cup T)
<1>1. Counted(S \cup T)
  BY FS_Union DEF Counted
<1>2. Positions(S \cup T) = Positions(S) \cup Positions(T)
  BY DEF Positions
<1>3. Positions(S) \cap Positions(T) = {}
  <2>1. ASSUME NEW x \in Positions(S), x \in Positions(T) PROVE FALSE
    <3>1. PICK d \in S : x \in {d.id} \X (1..d.tokens)
      BY <2>1 DEF Positions
    <3>2. PICK e \in T : x \in {e.id} \X (1..e.tokens)
      BY <2>1 DEF Positions
    <3>3. x[1] = d.id /\ x[1] = e.id
      BY <3>1, <3>2
    <3> QED BY <3>3
  <2> QED BY <2>1
<1>4. IsFiniteSet(Positions(S)) /\ IsFiniteSet(Positions(T))
  BY TokensCounted
<1>5. Cardinality(Positions(S) \cup Positions(T)) = Cardinality(Positions(S)) + Cardinality(Positions(T)) - Cardinality({})
  BY <1>3, <1>4, FS_Union
<1>6. Cardinality({}) = 0
  BY FS_EmptySet
<1>7. /\ TokensOf(S \cup T) = Cardinality(Positions(S \cup T)) /\ TokensOf(S) \in Nat /\ TokensOf(T) \in Nat
      /\ TokensOf(S) = Cardinality(Positions(S)) /\ TokensOf(T) = Cardinality(Positions(T))
  BY <1>1, TokensCounted
<1>8. TokensOf(S \cup T) = TokensOf(S) + TokensOf(T) - 0
  BY <1>2, <1>5, <1>6, <1>7, Zenon
<1>9. \A m, n \in Nat : m + n - 0 = m + n
  OBVIOUS
<1> QED BY <1>1, <1>7, <1>8, <1>9, Zenon

\* One document.
LEMMA TokensOfOne ==
    ASSUME NEW d, d.tokens \in Nat
    PROVE  TokensOf({d}) = d.tokens /\ Counted({d})
<1>1. Counted({d})
  BY FS_Singleton DEF Counted
<1>2. Positions({d}) = {d.id} \X (1..d.tokens)
  BY DEF Positions
<1> QED BY <1>1, <1>2, OneCounted, TokensCounted

(* A queue of documents, the room a quota leaves each, and what a cursor   *)
(* has taken.                                                              *)
Earlier(L, d) == {e \in L : e.rank < d.rank}
RoomIn(L, q, d) == q - TokensOf(Earlier(L, d))
PrefixRow(L, q, s, d) == [id |-> d.id, split |-> s, tokens |-> Min({d.tokens, RoomIn(L, q, d)})]
Taken(L, q, s, c) == {PrefixRow(L, q, s, d) : d \in {d \in L : RoomIn(L, q, d) > 0 /\ d.rank <= c}}
IsQueue(L) ==
    /\ IsFiniteSet(L)
    /\ \A d \in L : d.rank \in Nat /\ d.tokens \in Nat /\ d.tokens > 0
    /\ \A d, e \in L : d.rank = e.rank \/ d.id = e.id => d = e

\* A queue's documents are counted, and so is what is taken of it.
LEMMA QueueCounted ==
    ASSUME NEW L, IsQueue(L), NEW q \in Nat, NEW s
    PROVE  /\ \A T : T \subseteq L => Counted(T)
           /\ \A d \in L : RoomIn(L, q, d) \in Int /\ TokensOf(Earlier(L, d)) \in Nat
           /\ \A c : Counted(Taken(L, q, s, c))
<1>1. \A T : T \subseteq L => Counted(T)
  BY FS_Subset DEF IsQueue, Counted
<1>2. \A d : TokensOf(Earlier(L, d)) \in Nat
  <2>1. \A d : Earlier(L, d) \subseteq L
    BY DEF Earlier
  <2> QED BY <1>1, <2>1, TokensCounted
<1>3. \A d \in L : RoomIn(L, q, d) \in Int
  BY <1>2 DEF RoomIn
<1>4. ASSUME NEW c PROVE Counted(Taken(L, q, s, c))
  <2> DEFINE U == {d \in L : RoomIn(L, q, d) > 0 /\ d.rank <= c}
             row == [d \in U |-> PrefixRow(L, q, s, d)]
  <2>1. IsFiniteSet(U)
    BY FS_Subset DEF IsQueue
  <2>2. ASSUME NEW d \in U PROVE PrefixRow(L, q, s, d).tokens \in Nat
    <3>1. d.tokens \in Nat /\ RoomIn(L, q, d) \in Int /\ RoomIn(L, q, d) > 0
      BY <1>3 DEF IsQueue
    <3>2. Min({d.tokens, RoomIn(L, q, d)}) \in Nat
      BY <3>1, MinOfTwo
    <3> QED BY <3>2 DEF PrefixRow
  <2> HIDE DEF U
  <2>3. {row[d] : d \in U} = {PrefixRow(L, q, s, d) : d \in U}
    OBVIOUS
  <2>4. Taken(L, q, s, c) = {PrefixRow(L, q, s, d) : d \in U}
    BY DEF Taken, U
  <2>5. IsFiniteSet({row[d] : d \in U})
    <3> HIDE DEF row
    <3> QED BY <2>1, FiniteImage
  <2>6. \A x \in Taken(L, q, s, c) : x.tokens \in Nat
    BY <2>2, <2>4
  <2> QED BY <2>3, <2>4, <2>5, <2>6 DEF Counted
<1> QED BY <1>1, <1>2, <1>3, <1>4

(* What a cursor leaves, and the room that leaves each document ahead.     *)
Ahead(L, c) == {d \in L : d.rank > c}
Left(L, q, s, c, d) == (q - TokensOf(Taken(L, q, s, c))) - TokensOf(Earlier(Ahead(L, c), d))

\* A document that fits whole is taken whole.
LEMMA WholeRow ==
    ASSUME NEW L, IsQueue(L), NEW q \in Nat, NEW s, NEW d \in L, d.tokens <= RoomIn(L, q, d)
    PROVE  /\ RoomIn(L, q, d) > 0 /\ PrefixRow(L, q, s, d).id = d.id
           /\ PrefixRow(L, q, s, d).tokens = d.tokens
<1>1. d.tokens \in Nat /\ d.tokens > 0 /\ RoomIn(L, q, d) \in Int
  BY QueueCounted DEF IsQueue
<1>2. Min({d.tokens, RoomIn(L, q, d)}) = d.tokens
  BY <1>1, MinOfTwo
<1> QED BY <1>1, <1>2 DEF PrefixRow

\* Filling a quota again from its cursor gives every document the room it would
\* have had at once: what was taken whole counts the same, and behind a document
\* that was cut there is no room in either case.
LEMMA QueueResumes ==
    ASSUME NEW L, IsQueue(L), NEW q \in Nat, NEW s, NEW c \in Nat, NEW d \in Ahead(L, c)
    PROVE  /\ RoomIn(L, q, d) > 0 <=> Left(L, q, s, c, d) > 0
           /\ RoomIn(L, q, d) > 0 => Left(L, q, s, c, d) = RoomIn(L, q, d)
<1> DEFINE P == {e \in L : e.rank <= c}
           T == Taken(L, q, s, c)
           A == Earlier(Ahead(L, c), d)
           Whole(e) == e.tokens <= RoomIn(L, q, e)
<1>1. /\ \A S : S \subseteq L => Counted(S)
      /\ \A e \in L : RoomIn(L, q, e) \in Int /\ TokensOf(Earlier(L, e)) \in Nat
      /\ Counted(T)
  BY QueueCounted
<1>2. P \subseteq L /\ A \subseteq L /\ d \in L /\ d.rank > c /\ Earlier(L, d) \subseteq L
  BY DEF Ahead, Earlier
<1>3. \A e \in L : e.rank \in Nat /\ e.tokens \in Nat /\ e.tokens > 0
  BY DEF IsQueue
<1>4. TokensOf(T) \in Nat /\ TokensOf(P) \in Nat /\ TokensOf(A) \in Nat /\ Counted(P) /\ Counted(A)
  BY <1>1, <1>2, TokensCounted
<1>5. /\ \A e \in P : Whole(e) => \E x \in T : x.id = e.id /\ x.tokens = e.tokens
      /\ \A x \in T : \E e \in P : x = PrefixRow(L, q, s, e)
  <2>1. \A e \in P : Whole(e) => PrefixRow(L, q, s, e) \in T
    BY <1>2, WholeRow DEF Taken
  <2>2. \A x \in T : \E e \in P : x = PrefixRow(L, q, s, e)
    BY DEF Taken
  <2>3. \A e \in P : Whole(e) => PrefixRow(L, q, s, e).id = e.id /\ PrefixRow(L, q, s, e).tokens = e.tokens
    BY <1>2, WholeRow
  <2> HIDE DEF P, T
  <2> QED BY <2>1, <2>2, <2>3
<1> HIDE DEF T
<1>6. CASE \A e \in P : Whole(e)
  <2>1. Positions(T) = Positions(P)
    <3>1. ASSUME NEW x \in T PROVE \E e \in P : x.id = e.id /\ x.tokens = e.tokens
      <4>1. PICK e \in P : x = PrefixRow(L, q, s, e)
        BY <1>5
      <4> QED BY <1>2, <1>6, <4>1, WholeRow
    <3>2. \A e \in P : \E x \in T : x.id = e.id /\ x.tokens = e.tokens
      BY <1>5, <1>6
    <3> HIDE DEF P
    <3> QED BY <3>1, <3>2 DEF Positions
  <2>2. TokensOf(T) = TokensOf(P)
    BY <1>1, <1>4, <2>1, TokensCounted
  <2>3. Earlier(L, d) = P \cup A
    <3>1. \A e \in L : e.rank \in Nat /\ d.rank \in Nat /\ c \in Nat
      BY <1>2, <1>3
    <3>2. \A e \in L : e.rank < d.rank <=> e.rank <= c \/ (e.rank > c /\ e.rank < d.rank)
      BY <1>2, <3>1
    <3> QED BY <3>2 DEF Earlier, Ahead
  <2>4. \A e \in P, f \in A : e.id # f.id
    <3>1. \A e \in P, f \in A : e # f
      <4>1. \A e \in P, f \in A : e.rank <= c /\ f.rank > c /\ e.rank \in Nat /\ f.rank \in Nat
        BY <1>2, <1>3 DEF Earlier, Ahead
      <4> QED BY <4>1
    <3> QED BY <1>2, <3>1 DEF IsQueue
  <2> HIDE DEF P, A
  <2>5. TokensOf(Earlier(L, d)) = TokensOf(P) + TokensOf(A)
    BY <1>4, <2>3, <2>4, TokensJoin
  <2>6. Left(L, q, s, c, d) = RoomIn(L, q, d)
    BY <1>4, <2>2, <2>5 DEF Left, RoomIn, T, A
  <2> QED BY <2>6
<1>7. CASE ~\A e \in P : Whole(e)
  <2> DEFINE cuts == {e.rank : e \in {e \in P : ~Whole(e)}}
  <2>1. cuts \subseteq Nat /\ cuts # {}
    BY <1>2, <1>3, <1>7
  <2>2. PICK n \in cuts : \A m \in cuts : n <= m
    <3> HIDE DEF cuts
    <3> QED BY <2>1, LeastNumber
  <2>3. PICK e \in P : ~Whole(e) /\ \A f \in P : ~Whole(f) => e.rank <= f.rank
    BY <2>2
  <2>4. /\ e \in L /\ e.rank \in Nat /\ e.tokens \in Nat /\ e.tokens > 0 /\ e.rank <= c
        /\ RoomIn(L, q, e) \in Int /\ TokensOf(Earlier(L, e)) \in Nat /\ Earlier(L, e) \subseteq L
        /\ e.tokens > RoomIn(L, q, e)
    BY <1>1, <1>2, <1>3, <2>3 DEF Earlier
  <2>5. \A f \in Earlier(L, e) : f \in P /\ Whole(f)
    <3>1. \A f \in Earlier(L, e) : f \in L /\ f.rank < e.rank
      BY DEF Earlier
    <3>2. \A f \in Earlier(L, e) : f.rank \in Nat /\ f.rank <= c /\ ~(e.rank <= f.rank)
      BY <1>3, <2>4, <3>1
    <3> QED BY <2>3, <3>1, <3>2
  <2>6. Positions(Earlier(L, e)) \subseteq Positions(T)
    <3>1. \A f \in Earlier(L, e) : \E x \in T : x.id = f.id /\ x.tokens = f.tokens
      BY <1>5, <2>5
    <3> QED BY <3>1 DEF Positions
  <2>7. \A f \in Earlier(L, e) : f.id # e.id
    <3>1. \A f \in Earlier(L, e) : f \in L /\ f.rank \in Nat /\ f.rank < e.rank
      BY <1>3 DEF Earlier
    <3>2. \A f \in Earlier(L, e) : f # e
      BY <2>4, <3>1
    <3> QED BY <2>4, <3>1, <3>2 DEF IsQueue
  <2>8. Counted(Earlier(L, e)) /\ Counted(Earlier(L, d))
    BY <1>1, <1>2, <2>4
  <2>9. TokensOf(T) >= q
    <3>1. CASE RoomIn(L, q, e) > 0
      <4> DEFINE x == PrefixRow(L, q, s, e)
      <4>1. x \in T /\ x.id = e.id /\ x.tokens = RoomIn(L, q, e)
        <5>1. Min({e.tokens, RoomIn(L, q, e)}) = RoomIn(L, q, e)
          BY <2>4, MinOfTwo
        <5> QED BY <2>4, <3>1, <5>1 DEF PrefixRow, T, Taken
      <4> HIDE DEF x
      <4>2. x.tokens \in Nat
        BY <2>4, <3>1, <4>1
      <4>3. TokensOf(Earlier(L, e) \cup {x}) = TokensOf(Earlier(L, e)) + RoomIn(L, q, e)
        <5>1. \A f \in Earlier(L, e), y \in {x} : f.id # y.id
          BY <2>7, <4>1
        <5>2. Counted({x}) /\ TokensOf({x}) = x.tokens
          BY <4>2, TokensOfOne
        <5> QED BY <2>8, <4>1, <5>1, <5>2, TokensJoin
      <4>4. Positions(Earlier(L, e) \cup {x}) \subseteq Positions(T)
        <5>1. Positions(Earlier(L, e) \cup {x}) = Positions(Earlier(L, e)) \cup Positions({x})
          BY DEF Positions
        <5>2. Positions({x}) \subseteq Positions(T)
          BY <4>1 DEF Positions
        <5> QED BY <2>6, <5>1, <5>2
      <4>5. TokensOf(Earlier(L, e) \cup {x}) <= TokensOf(T)
        BY <1>1, <4>4, TokensCounted
      <4>6. RoomIn(L, q, e) = q - TokensOf(Earlier(L, e))
        BY DEF RoomIn
      <4> QED BY <1>4, <2>4, <4>3, <4>5, <4>6
    <3>2. CASE ~(RoomIn(L, q, e) > 0)
      <4>1. TokensOf(Earlier(L, e)) <= TokensOf(T)
        BY <1>1, <2>6, TokensCounted
      <4>2. RoomIn(L, q, e) = q - TokensOf(Earlier(L, e))
        BY DEF RoomIn
      <4> QED BY <1>4, <2>4, <3>2, <4>1, <4>2
    <3> QED BY <3>1, <3>2
  <2>10. ~(Left(L, q, s, c, d) > 0)
    <3>1. Left(L, q, s, c, d) = (q - TokensOf(T)) - TokensOf(A)
      BY DEF Left, T, A
    <3> QED BY <1>4, <2>9, <3>1
  <2>11. TokensOf(Earlier(L, d)) >= TokensOf(Earlier(L, e)) + e.tokens
    <3>1. TokensOf(Earlier(L, e) \cup {e}) = TokensOf(Earlier(L, e)) + e.tokens
      <4>1. \A f \in Earlier(L, e), y \in {e} : f.id # y.id
        BY <2>7
      <4>2. Counted({e}) /\ TokensOf({e}) = e.tokens
        BY <2>4, TokensOfOne
      <4> QED BY <2>8, <4>1, <4>2, TokensJoin
    <3>2. Earlier(L, e) \cup {e} \subseteq Earlier(L, d)
      <4>1. e.rank < d.rank /\ d.rank \in Nat
        BY <1>2, <1>3, <2>4
      <4>2. \A f \in L : f.rank < e.rank => f.rank < d.rank
        BY <1>3, <2>4, <4>1
      <4> QED BY <2>4, <4>1, <4>2 DEF Earlier
    <3>3. Positions(Earlier(L, e) \cup {e}) \subseteq Positions(Earlier(L, d))
      BY <3>2 DEF Positions
    <3>4. TokensOf(Earlier(L, e) \cup {e}) <= TokensOf(Earlier(L, d))
      BY <2>8, <3>3, TokensCounted
    <3> QED BY <3>1, <3>4
  <2>12. ~(RoomIn(L, q, d) > 0)
    <3>1. RoomIn(L, q, d) = q - TokensOf(Earlier(L, d)) /\ RoomIn(L, q, e) = q - TokensOf(Earlier(L, e))
      BY DEF RoomIn
    <3>2. TokensOf(Earlier(L, d)) \in Nat
      BY <1>1, <1>2
    <3> QED BY <2>4, <2>11, <3>1, <3>2
  <2> QED BY <2>10, <2>12
<1> QED BY <1>6, <1>7

(* The chosen documents of a split and category.                           *)
Line(s, c) == {d \in Chosen : SplitOf[d.group] = s /\ Category(d) = c}

\* A chosen document has a split and a category, and is counted.
LEMMA ChosenFields ==
    ASSUME SoundJob, NEW d \in Chosen
    PROVE  /\ d \in AllDocuments /\ SplitOf[d.group] \in ToSet(SplitOrder)
           /\ Category(d) \in ToSet(Categories) /\ QuotaOf(d) \in Quotas
           /\ Quota[QuotaOf(d)] \in Nat /\ Quota[QuotaOf(d)] > 0
<1>1. d \in AllDocuments /\ d \in Candidates
  BY ChoicesNest
<1>2. d.group # 0
  BY <1>1 DEF Candidates, Eligible
<1>3. d.group \in DOMAIN SplitOf /\ Category(d) \in ToSet(Categories)
  BY <1>1, <1>2, Fields
<1>4. SplitOf[d.group] \in ToSet(SplitOrder) /\ Quota \in [Quotas -> Positive]
  BY <1>3, PolicyAssumption
<1>5. QuotaOf(d) \in Quotas
  BY <1>3, <1>4 DEF QuotaOf, Quotas
<1> QED BY <1>1, <1>3, <1>4, <1>5 DEF Positive

\* They queue for its quota, in which each has the room of the reference.
LEMMA LinesQueue ==
    ASSUME SoundJob, NEW s, NEW c
    PROVE  /\ IsQueue(Line(s, c)) /\ Line(s, c) \subseteq Chosen
           /\ \A d \in Line(s, c) :
                 /\ QuotaOf(d) = <<s, c>> /\ QuotaStage(d) = <<"quota", s, c>>
                 /\ Room(d) = RoomIn(Line(s, c), Quota[<<s, c>>], d)
                 /\ RowOf(d) = PrefixRow(Line(s, c), Quota[<<s, c>>], s, d)
<1> DEFINE L == Line(s, c)
<1>1. L \subseteq Chosen /\ Chosen \subseteq AllDocuments
  BY ChoicesNest DEF Line
<1>2. IsFiniteSet(L)
  BY <1>1, FinitelyMany, FS_Subset
<1>3. \A d \in L : d.rank \in Nat /\ d.tokens \in Nat /\ d.tokens > 0
  <2> HIDE DEF L
  <2>1. \A d \in L : d \in AllDocuments
    BY <1>1
  <2>2. \A d \in AllDocuments : d.rank \in Nat \ {0} /\ d.tokens \in Nat \ {0}
    BY Fields
  <2> QED BY <2>1, <2>2
<1>4. \A d, e \in L : d.rank = e.rank \/ d.id = e.id => d = e
  BY <1>1, Documents
<1>5. IsQueue(L)
  BY <1>2, <1>3, <1>4, Zenon DEF IsQueue
<1>6. ASSUME NEW d \in L
      PROVE  /\ QuotaOf(d) = <<s, c>> /\ QuotaStage(d) = <<"quota", s, c>>
             /\ Room(d) = RoomIn(L, Quota[<<s, c>>], d) /\ RowOf(d) = PrefixRow(L, Quota[<<s, c>>], s, d)
  <2>1. SplitOf[d.group] = s /\ Category(d) = c /\ d \in Chosen
    BY DEF Line
  <2>2. QuotaOf(d) = <<s, c>> /\ QuotaStage(d) = <<"quota", s, c>>
    BY <2>1 DEF QuotaOf, QuotaStage
  <2>3. {e \in Chosen : QuotaOf(e) = QuotaOf(d) /\ e.rank < d.rank} = Earlier(L, d)
    <3>1. \A e \in Chosen : QuotaOf(e) = QuotaOf(d) <=> SplitOf[e.group] = s /\ Category(e) = c
      BY <2>1 DEF QuotaOf
    <3> QED BY <3>1 DEF Earlier, Line
  <2>4. Room(d) = RoomIn(L, Quota[<<s, c>>], d)
    BY <2>2, <2>3 DEF Room, RoomIn
  <2>5. RowOf(d) = PrefixRow(L, Quota[<<s, c>>], s, d)
    BY <2>1, <2>4 DEF RowOf, PrefixRow
  <2> QED BY <2>2, <2>4, <2>5
<1> QED BY <1>1, <1>5, <1>6

\* Every split and category has one stage.
LEMMA OneStageEach ==
    ASSUME SoundJob
    PROVE  /\ \A i, j \in 1..Len(QuotaStages) : QuotaStages[i] = QuotaStages[j] => i = j
           /\ \A i \in 1..Len(QuotaStages) : \E s \in ToSet(SplitOrder), c \in ToSet(Categories) :
                 QuotaStages[i] = <<"quota", s, c>>
           /\ \A d \in Chosen : \E i \in 1..Len(QuotaStages) : QuotaStages[i] = QuotaStage(d)
<1> DEFINE n == Len(SplitOrder)
           m == Len(QuotaStages)
           sp(i) == 1 + ((i - 1) \div 3)
           ct(i) == 1 + ((i - 1) % 3)
<1>1. /\ m = 3 * n /\ n \in Nat
      /\ \A i \in 1..m : QuotaStages[i] = <<"quota", SplitOrder[sp(i)], Categories[ct(i)]>>
  BY QuotaStagesAre
<1>2. DOMAIN SplitOrder = 1..n /\ ToSet(SplitOrder) = {SplitOrder[i] : i \in 1..n}
        /\ \A i, j \in 1..n : SplitOrder[i] = SplitOrder[j] => i = j
  BY PolicyAssumption, LenProperties DEF ToSet, IsInjective
<1>3. DOMAIN Categories = 1..3 /\ Categories[1] = "python" /\ Categories[2] = "other_code"
        /\ Categories[3] = "english"
  BY DEF Categories
<1> HIDE DEF n, m
<1>4. \A i \in 1..m : sp(i) \in 1..n /\ ct(i) \in 1..3 /\ i = 3 * (sp(i) - 1) + ct(i)
  BY <1>1
<1>5. \A k \in 1..n, l \in 1..3 : 3 * (k - 1) + l \in 1..m /\ sp(3 * (k - 1) + l) = k /\ ct(3 * (k - 1) + l) = l
  BY <1>1
<1>6. \A k, l \in 1..3 : Categories[k] = Categories[l] => k = l
  BY <1>3
<1> HIDE DEF sp, ct
<1>7. ASSUME NEW i \in 1..m, NEW j \in 1..m, QuotaStages[i] = QuotaStages[j] PROVE i = j
  <2>1. SplitOrder[sp(i)] = SplitOrder[sp(j)] /\ Categories[ct(i)] = Categories[ct(j)]
    BY <1>1, <1>7
  <2>2. sp(i) = sp(j) /\ ct(i) = ct(j)
    BY <1>2, <1>4, <1>6, <2>1
  <2> QED BY <1>4, <2>2
<1>8. ToSet(Categories) = {Categories[l] : l \in 1..3}
  BY <1>3 DEF ToSet
<1>9. \A i \in 1..m : \E s \in ToSet(SplitOrder), c \in ToSet(Categories) : QuotaStages[i] = <<"quota", s, c>>
  <2>1. ASSUME NEW i \in 1..m
        PROVE  \E s \in ToSet(SplitOrder), c \in ToSet(Categories) : QuotaStages[i] = <<"quota", s, c>>
    <3>1. SplitOrder[sp(i)] \in ToSet(SplitOrder) /\ Categories[ct(i)] \in ToSet(Categories)
      BY <1>2, <1>4, <1>8
    <3>2. QuotaStages[i] = <<"quota", SplitOrder[sp(i)], Categories[ct(i)]>>
      BY <1>1
    <3> QED BY <3>1, <3>2, Zenon
  <2> QED BY <2>1
<1>10. ASSUME NEW d \in Chosen PROVE \E i \in 1..m : QuotaStages[i] = QuotaStage(d)
  <2>1. SplitOf[d.group] \in ToSet(SplitOrder) /\ Category(d) \in ToSet(Categories)
    BY ChosenFields
  <2>2. PICK k \in 1..n : SplitOf[d.group] = SplitOrder[k]
    BY <1>2, <2>1
  <2>3. PICK l \in 1..3 : Category(d) = Categories[l]
    BY <1>8, <2>1
  <2> DEFINE i == 3 * (k - 1) + l
  <2>4. i \in 1..m /\ sp(i) = k /\ ct(i) = l
    BY <1>5
  <2> HIDE DEF i
  <2>5. QuotaStages[i] = QuotaStage(d)
    BY <1>1, <2>2, <2>3, <2>4 DEF QuotaStage
  <2> QED BY <2>4, <2>5
<1> QED BY <1>7, <1>9, <1>10 DEF m

\* At a quota's stage the selection of it is what its cursor has taken, and the
\* rows to come are the documents ahead that fit.
LEMMA QuotaRowsAre ==
    ASSUME SoundJob, NEW db, Curated(db), ~Handoff, NEW i \in 1..Len(QuotaStages), db.at = Grouped + i,
           NEW s, NEW c, QuotaStages[i] = <<"quota", s, c>>
    PROVE  /\ s \in ToSet(SplitOrder) /\ c \in ToSet(Categories) /\ db.cursor \in Nat
           /\ \A d \in Chosen : Behind(db, d) <=>
                 IF d \in Line(s, c) THEN d.rank <= db.cursor
                 ELSE \E j \in 1..Len(QuotaStages) : QuotaStages[j] = QuotaStage(d) /\ j < i
           /\ QuotaRows(db, s, c) = {[doc |-> d, room |-> Room(d)] : d \in Ahead(Line(s, c), db.cursor) \cap Fits}
<1> DEFINE n == Len(QuotaStages)
           L == Line(s, c)
           q == Quota[<<s, c>>]
<1>1. n \in Nat /\ Grouped \in Nat /\ Filled = Grouped + n /\ Grouped = Mapped + 11 /\ Mapped \in Nat
  BY PlacesOrdered, Zenon
<1>2. s \in ToSet(SplitOrder) /\ c \in ToSet(Categories)
  <2>1. PICK t \in ToSet(SplitOrder), e \in ToSet(Categories) : QuotaStages[i] = <<"quota", t, e>>
    BY OneStageEach
  <2> QED BY <2>1
<1>3. q \in Nat /\ q > 0
  <2>1. <<s, c>> \in Quotas
    BY <1>2 DEF Quotas
  <2> QED BY <2>1, PolicyAssumption DEF Positive
<1> HIDE DEF q
<1>4. db.at > Grouped /\ db.at <= Filled /\ db.at > Mapped + 10
  <2> HIDE DEF n
  <2>1. i \in 1..n
    BY DEF n
  <2> QED BY <1>1, <2>1
<1>5. db.cursor \in Nat /\ db.groups = {<<d.group, SplitOf[d.group]>> : d \in Chosen}
        /\ db.selected = {RowOf(d) : d \in {d \in Fits : Behind(db, d)}}
  BY <1>4 DEF Curated, SelectedSound
<1>6. db.documents = AllDocuments /\ Clean(db) = Chosen
  BY <1>4, ReferenceTables
<1>7. /\ IsQueue(L) /\ L \subseteq Chosen /\ Chosen \subseteq AllDocuments
      /\ \A d \in L : /\ QuotaStage(d) = <<"quota", s, c>> /\ Room(d) = RoomIn(L, q, d)
                      /\ RowOf(d) = PrefixRow(L, q, s, d)
  BY LinesQueue, ChoicesNest DEF q
<1>8. ASSUME NEW d \in Chosen
      PROVE  Behind(db, d) <=>
                 IF d \in L THEN d.rank <= db.cursor
                 ELSE \E j \in 1..n : QuotaStages[j] = QuotaStage(d) /\ j < i
  <2>1. Behind(db, d) <=>
           \E j \in 1..n : /\ QuotaStages[j] = QuotaStage(d)
                           /\ j < i \/ (j = i /\ d.rank <= db.cursor)
    <3>1. \A j \in 1..n : /\ Grouped + j < db.at <=> j < i
                          /\ Grouped + j = db.at <=> j = i
      <4> HIDE DEF n
      <4>1. i \in 1..n
        BY DEF n
      <4> QED BY <1>1, <4>1
    <3> QED BY <3>1 DEF Behind
  <2>2. d \in L <=> QuotaStages[i] = QuotaStage(d)
    BY DEF Line, QuotaStage
  <2>3. \A j \in 1..n : QuotaStages[j] = QuotaStages[i] => j = i
    BY OneStageEach
  <2>4. ~(i < i)
    BY <1>1
  <2>5. CASE d \in L
    BY <2>1, <2>2, <2>3, <2>4, <2>5
  <2>6. CASE d \notin L
    BY <2>1, <2>2, <2>3, <2>4, <2>6
  <2> QED BY <2>5, <2>6
<1>9. QuotaCandidates(db, s, c) = L
  <2>1. \A d \in Chosen : <<d.group, s>> \in db.groups <=> SplitOf[d.group] = s
    BY <1>5
  <2> QED BY <1>6, <2>1 DEF QuotaCandidates, Line
<1>10. {x \in db.selected : x.split = s /\ \E d \in Named(db, {x.id}) : Category(d) = c} = Taken(L, q, s, db.cursor)
  <2>1. ASSUME NEW d \in Chosen
        PROVE  RowOf(d).split = s /\ (\E e \in Named(db, {RowOf(d).id}) : Category(e) = c) <=> d \in L
    <3>1. RowOf(d).id = d.id /\ RowOf(d).split = SplitOf[d.group]
      BY DEF RowOf
    <3>2. \A e : e \in Named(db, {d.id}) <=> e = d
      BY <1>6, <1>7, Documents DEF Named
    <3> QED BY <3>1, <3>2 DEF Line
  <2>2. Fits \subseteq Chosen /\ \A d \in L : d \in Fits <=> RoomIn(L, q, d) > 0
    BY <1>7 DEF Fits
  <2> DEFINE S == {x \in db.selected : x.split = s /\ \E d \in Named(db, {x.id}) : Category(d) = c}
             T == {d \in L : RoomIn(L, q, d) > 0 /\ d.rank <= db.cursor}
  <2>3. ASSUME NEW x PROVE x \in S <=> \E d \in T : x = PrefixRow(L, q, s, d)
    <3>1. x \in S <=> /\ \E d \in Fits : Behind(db, d) /\ x = RowOf(d)
                      /\ x.split = s /\ \E d \in Named(db, {x.id}) : Category(d) = c
      BY <1>5
    <3>2. x \in S <=> \E d \in Fits : Behind(db, d) /\ x = RowOf(d) /\ d \in L
      BY <2>1, <2>2, <3>1
    <3>3. \A d \in L : Behind(db, d) <=> d.rank <= db.cursor
      BY <1>7, <1>8
    <3>4. \A d : d \in Fits /\ Behind(db, d) /\ d \in L <=> d \in T
      BY <2>2, <3>3
    <3> HIDE DEF T
    <3>5. \A d \in T : d \in L
      BY DEF T
    <3> HIDE DEF S
    <3> QED BY <1>7, <3>2, <3>4, <3>5
  <2>4. Taken(L, q, s, db.cursor) = {PrefixRow(L, q, s, d) : d \in T}
    BY DEF Taken
  <2> HIDE DEF S, T
  <2>5. S = Taken(L, q, s, db.cursor)
    BY <2>3, <2>4
  <2> QED BY <2>5 DEF S
<1>11. SelectedTokens(db, s, c) = TokensOf(Taken(L, q, s, db.cursor))
  BY <1>10 DEF SelectedTokens
<1>12. QuotaRows(db, s, c) = {[doc |-> d, room |-> Room(d)] : d \in Ahead(L, db.cursor) \cap Fits}
  <2> DEFINE A == Ahead(L, db.cursor)
             rows == {r \in {[doc |-> d, room |-> Left(L, q, s, db.cursor, d)] : d \in A} : r.room > 0}
  <2>1. QuotaRows(db, s, c) = rows
    <3>1. {d \in L : d.rank > db.cursor} = A
      BY DEF Ahead
    <3>2. \A d : {e \in A : e.rank < d.rank} = Earlier(A, d)
      BY DEF Earlier
    <3>3. \A d : (q - SelectedTokens(db, s, c)) - TokensOf({e \in A : e.rank < d.rank}) = Left(L, q, s, db.cursor, d)
      BY <1>11, <3>2 DEF Left
    <3>4. QuotaRows(db, s, c) =
             {r \in {[doc |-> d, room |-> (q - SelectedTokens(db, s, c)) - TokensOf({e \in A : e.rank < d.rank})] :
                        d \in A} : r.room > 0}
      <4> HIDE DEF A
      <4> QED BY <1>9, <3>1 DEF QuotaRows, q
    <3> HIDE DEF A
    <3> QED BY <3>3, <3>4
  <2>2. \A d \in A : /\ d \in L /\ d \in Chosen
                     /\ Room(d) > 0 <=> Left(L, q, s, db.cursor, d) > 0
                     /\ Room(d) > 0 => Left(L, q, s, db.cursor, d) = Room(d)
    <3>1. ASSUME NEW d \in A
          PROVE  /\ d \in L
                 /\ RoomIn(L, q, d) > 0 <=> Left(L, q, s, db.cursor, d) > 0
                 /\ RoomIn(L, q, d) > 0 => Left(L, q, s, db.cursor, d) = RoomIn(L, q, d)
      <4>1. IsQueue(L) /\ q \in Nat /\ db.cursor \in Nat /\ d \in Ahead(L, db.cursor)
        BY <1>3, <1>5, <1>7
      <4>2. d \in L
        BY DEF Ahead
      <4> HIDE DEF L
      <4> QED BY <4>1, <4>2, QueueResumes
    <3> QED BY <1>7, <3>1
  <2>3. \A x : x \in rows <=> \E d \in A \cap Fits : x = [doc |-> d, room |-> Room(d)]
    <3>1. \A x : x \in rows <=> \E d \in A : x = [doc |-> d, room |-> Left(L, q, s, db.cursor, d)]
                                             /\ Left(L, q, s, db.cursor, d) > 0
      <4> HIDE DEF A
      <4> QED OBVIOUS
    <3>2. \A d \in A : d \in Fits <=> Room(d) > 0
      BY <2>2 DEF Fits
    <3> HIDE DEF A, rows
    <3> QED BY <2>2, <3>1, <3>2
  <2> HIDE DEF rows
  <2> QED BY <2>1, <2>3
<1> QED BY <1>2, <1>5, <1>8, <1>12

\* A batch of a quota takes the next documents that fit, as far as they fit.
LEMMA QuotaBatch ==
    ASSUME SoundJob, NEW db, Curated(db), Pending(db) # {}, ~Handoff,
           NEW i \in 1..Len(QuotaStages), db.at = Grouped + i, Stage(db) = QuotaStages[i]
    PROVE  Curated(BoundedBatch(db))
<1>1. PICK s \in ToSet(SplitOrder), c \in ToSet(Categories) : QuotaStages[i] = <<"quota", s, c>>
  BY OneStageEach
<1> DEFINE r == BoundedBatch(db)
           keys == Batch(db)
           L == Line(s, c)
           K == {d.rank : d \in Ahead(L, db.cursor) \cap Fits}
           RowFor(x) == [id |-> x.doc.id, split |-> s, tokens |-> Min({x.doc.tokens, x.room})]
           new == SelectedRows(QuotaRows(db, s, c), s, keys)
<1>2. Same(r, db, {"cursor", "selected"}) /\ r.cursor = Max(keys) /\ r.selected = db.selected \cup new
  <2>1. Stage(db)[1] = "quota" /\ Stage(db)[2] = s /\ Stage(db)[3] = c /\ DOMAIN db = Columns
    BY <1>1 DEF Curated, IsDatabase
  <2>2. /\ Same(r, db, {"cursor", "selected"}) /\ r.cursor = Max(keys)
        /\ r.selected = db.selected \cup SelectedRows(QuotaRows(db, Stage(db)[2], Stage(db)[3]), Stage(db)[2], keys)
    BY <2>1, BatchWrites
  <2> QED BY <2>1, <2>2
<1>3. /\ db.cursor \in Nat
      /\ \A d \in Chosen : Behind(db, d) <=>
            IF d \in L THEN d.rank <= db.cursor
            ELSE \E j \in 1..Len(QuotaStages) : QuotaStages[j] = QuotaStage(d) /\ j < i
      /\ QuotaRows(db, s, c) = {[doc |-> d, room |-> Room(d)] : d \in Ahead(L, db.cursor) \cap Fits}
  BY <1>1, QuotaRowsAre
<1>4. /\ IsQueue(L) /\ L \subseteq Chosen /\ Chosen \subseteq AllDocuments
      /\ \A d \in L : d.rank \in Nat /\ SplitOf[d.group] = s
  <2>1. IsQueue(L) /\ L \subseteq Chosen /\ Chosen \subseteq AllDocuments
    BY LinesQueue, ChoicesNest
  <2>2. \A d \in L : SplitOf[d.group] = s
    BY DEF Line
  <2> HIDE DEF L
  <2> QED BY <2>1, <2>2 DEF IsQueue
<1>5. SubphaseKeys(db) = K
  <2>1. Stage(db)[1] = "quota" /\ Stage(db)[2] = s /\ Stage(db)[3] = c
    BY <1>1
  <2>2. SubphaseKeys(db) = {x.doc.rank : x \in QuotaRows(db, s, c)}
    BY <2>1 DEF SubphaseKeys
  <2> DEFINE D == Ahead(L, db.cursor) \cap Fits
  <2>3. {x.doc.rank : x \in QuotaRows(db, s, c)} = {d.rank : d \in D}
    <3> HIDE DEF D
    <3>1. QuotaRows(db, s, c) = {[doc |-> d, room |-> Room(d)] : d \in D}
      BY <1>3 DEF D
    <3>2. \A d : [doc |-> d, room |-> Room(d)].doc.rank = d.rank
      OBVIOUS
    <3>3. ASSUME NEW k
          PROVE  k \in {x.doc.rank : x \in QuotaRows(db, s, c)} <=> k \in {d.rank : d \in D}
      <4>1. k \in {x.doc.rank : x \in QuotaRows(db, s, c)} <=> \E x \in QuotaRows(db, s, c) : k = x.doc.rank
        OBVIOUS
      <4>2. k \in {d.rank : d \in D} <=> \E d \in D : k = d.rank
        OBVIOUS
      <4>3. \A x : x \in QuotaRows(db, s, c) <=> \E d \in D : x = [doc |-> d, room |-> Room(d)]
        BY <3>1
      <4> DEFINE Rank(x) == x.doc.rank
                 Wide(d) == [doc |-> d, room |-> Room(d)]
      <4>4. \A d : Rank(Wide(d)) = d.rank
        BY <3>2
      <4>5. k \in {x.doc.rank : x \in QuotaRows(db, s, c)} <=> \E x \in QuotaRows(db, s, c) : k = Rank(x)
        BY <4>1
      <4>6. \A x : x \in QuotaRows(db, s, c) <=> \E d \in D : x = Wide(d)
        BY <4>3
      <4> HIDE DEF Rank, Wide
      <4> QED BY <4>2, <4>4, <4>5, <4>6
    <3> QED BY <3>3
  <2> QED BY <2>2, <2>3
<1>6. K \subseteq Nat /\ IsFiniteSet(K) /\ \A k \in K : k > db.cursor
  <2> DEFINE D == Ahead(L, db.cursor) \cap Fits
             f == [d \in D |-> d.rank]
  <2>1. D \subseteq L /\ \A d \in D : d.rank > db.cursor
    BY DEF Ahead
  <2>2. IsFiniteSet(D)
    BY <1>4, <2>1, FS_Subset DEF IsQueue
  <2> HIDE DEF D
  <2>3. {f[d] : d \in D} = {d.rank : d \in D}
    OBVIOUS
  <2>4. IsFiniteSet({f[d] : d \in D})
    <3> HIDE DEF f
    <3> QED BY <2>2, FiniteImage
  <2> QED BY <1>4, <2>1, <2>3, <2>4 DEF D
<1>7. /\ keys \subseteq K /\ Max(keys) \in keys /\ Max(keys) \in Nat
      /\ \A k \in K : k <= Max(keys) <=> k \in keys
  <2> HIDE DEF K
  <2>1. Pending(db) = After(K, db.cursor)
    BY <1>5 DEF Pending, After
  <2>2. keys = FirstOf(After(K, db.cursor), job.rows)
    BY <2>1 DEF Batch, FirstOf
  <2>3. job.rows \in Positive
    BY DEF SoundJob
  <2> HIDE DEF keys
  <2>4. Visited(K, db.cursor, keys)
    BY <1>3, <1>6, <2>1, <2>2, <2>3, BatchIsPrefix
  <2>5. /\ keys \subseteq After(K, db.cursor) /\ Max(keys) \in keys /\ Max(keys) \in Nat
        /\ {k \in K : k <= Max(keys)} = {k \in K : k <= db.cursor} \cup keys
    BY <2>4 DEF Visited
  <2>6. \A k \in K : ~(k <= db.cursor)
    <3>1. \A k \in K : k \in Nat /\ k > db.cursor
      BY <1>6
    <3> QED BY <1>3, <3>1
  <2> QED BY <2>5, <2>6 DEF After
<1>8. Max(keys) > db.cursor
  <2> HIDE DEF K, keys
  <2> QED BY <1>6, <1>7
<1>9. /\ Grouped \in Nat /\ Grouped = Mapped + 11 /\ Mapped \in Nat /\ Filled = Grouped + Len(QuotaStages)
      /\ Len(QuotaStages) \in Nat /\ Listed \in Nat /\ Mapped >= Listed
  BY PlacesOrdered, Zenon
<1>10. db.at > Grouped /\ db.at <= Filled /\ db.at > Mapped + 10 /\ db.at \in Nat /\ db.at \notin {Mapped + 1, Mapped + 2}
  <2> DEFINE n == Len(QuotaStages)
  <2>1. i \in 1..n /\ n \in Nat /\ Filled = Grouped + n
    BY <1>9
  <2> HIDE DEF n
  <2> QED BY <1>9, <2>1
<1> HIDE DEF r, keys, K
<1>11. /\ IsDatabase(r) /\ DocumentsSound(r) /\ ReasonsSound(r) /\ AppliedSound(r)
       /\ BenchmarkSound(r) /\ ChoiceSound(r) /\ r.at = db.at
  <2> DEFINE tables == {"cursor", "selected"}
  <2>1. /\ {"at", "phase", "documents", "reasons", "applied", "benchContent", "benchFinal"} \cap tables = {}
        /\ tables \cap {"documents", "reasons", "exact", "map"} = {}
    OBVIOUS
  <2>2. Same(r, db, tables)
    BY <1>2
  <2> HIDE DEF tables
  <2> QED BY <1>10, <2>1, <2>2, Untouched
<1>12. ASSUME NEW d \in Chosen
       PROVE  Behind(r, d) <=>
                 IF d \in L THEN d.rank <= Max(keys)
                 ELSE \E j \in 1..Len(QuotaStages) : QuotaStages[j] = QuotaStage(d) /\ j < i
  <2> DEFINE n == Len(QuotaStages)
  <2>1. Behind(r, d) <=>
           \E j \in 1..n : /\ QuotaStages[j] = QuotaStage(d)
                           /\ j < i \/ (j = i /\ d.rank <= Max(keys))
    <3>1. \A j \in 1..n : /\ Grouped + j < db.at <=> j < i
                          /\ Grouped + j = db.at <=> j = i
      <4>1. i \in 1..n /\ n \in Nat
        BY <1>9
      <4> HIDE DEF n
      <4> QED BY <1>9, <4>1
    <3> QED BY <1>2, <1>11, <3>1 DEF Behind
  <2>2. d \in L <=> QuotaStages[i] = QuotaStage(d)
    BY <1>1 DEF Line, QuotaStage
  <2>3. \A j \in 1..n : QuotaStages[j] = QuotaStages[i] => j = i
    BY OneStageEach
  <2>4. ~(i < i)
    BY <1>9
  <2>5. CASE d \in L
    BY <2>1, <2>2, <2>3, <2>4, <2>5
  <2>6. CASE d \notin L
    BY <2>1, <2>2, <2>3, <2>4, <2>6
  <2> QED BY <2>5, <2>6
<1>13. ASSUME NEW d \in Fits
       PROVE  Behind(r, d) <=> Behind(db, d) \/ (d \in Ahead(L, db.cursor) /\ d.rank \in keys)
  <2>1. d \in Chosen
    BY DEF Fits
  <2>2. CASE d \in L
    <3>1. d.rank \in Nat
      BY <1>4, <2>2
    <3>2. d.rank > db.cursor => d \in Ahead(L, db.cursor) /\ d.rank \in K
      BY <2>2 DEF Ahead, K
    <3>3. d.rank > db.cursor => (d.rank <= Max(keys) <=> d.rank \in keys)
      BY <1>7, <3>2
    <3>4. d.rank <= db.cursor => d.rank <= Max(keys) /\ d \notin Ahead(L, db.cursor)
      BY <1>3, <1>7, <1>8, <3>1 DEF Ahead
    <3>5. d.rank <= db.cursor \/ d.rank > db.cursor
      BY <1>3, <3>1
    <3>6. d.rank > db.cursor => ~(d.rank <= db.cursor)
      BY <1>3, <3>1
    <3> QED BY <1>3, <1>12, <2>1, <2>2, <3>2, <3>3, <3>4, <3>5, <3>6
  <2>3. CASE d \notin L
    BY <1>3, <1>12, <2>1, <2>3 DEF Ahead
  <2> QED BY <2>2, <2>3
<1>14. \A d \in L : RowFor([doc |-> d, room |-> Room(d)]) = RowOf(d)
  BY <1>4 DEF RowOf
<1>15. new = {RowOf(d) : d \in {d \in Ahead(L, db.cursor) \cap Fits : d.rank \in keys}}
  <2> DEFINE D == Ahead(L, db.cursor) \cap Fits
  <2>1. \A d \in D : d \in L
    BY DEF Ahead
  <2> HIDE DEF D
  <2>2. QuotaRows(db, s, c) = {[doc |-> d, room |-> Room(d)] : d \in D}
    BY <1>3 DEF D
  <2>3. {x \in QuotaRows(db, s, c) : x.doc.rank \in keys} = {[doc |-> d, room |-> Room(d)] : d \in {d \in D : d.rank \in keys}}
    BY <2>2
  <2>4. \A d \in D : RowFor([doc |-> d, room |-> Room(d)]) = RowOf(d)
    BY <1>14, <2>1
  <2> DEFINE T == {d \in D : d.rank \in keys}
  <2>8. new = {RowFor(x) : x \in {x \in QuotaRows(db, s, c) : x.doc.rank \in keys}}
    BY DEF SelectedRows
  <2>5. new = {RowFor([doc |-> d, room |-> Room(d)]) : d \in T}
    <3> HIDE DEF T, RowFor, new
    <3> QED BY <2>3, <2>8 DEF T
  <2>6. \A d \in T : RowFor([doc |-> d, room |-> Room(d)]) = RowOf(d)
    BY <2>4
  <2>7. new = {RowOf(d) : d \in T}
    <3> HIDE DEF T, RowFor, new
    <3> QED BY <2>5, <2>6
  <2> QED BY <2>7 DEF D
<1> HIDE DEF new, RowFor
<1>16. SelectedSound(r)
  <2>1. r.groups = db.groups
    BY <1>2 DEF Same, Columns
  <2>2. r.groups = {<<d.group, SplitOf[d.group]>> : d \in Chosen} /\ r.cursor \in Nat
    BY <1>2, <1>7, <1>10, <2>1 DEF Curated, SelectedSound
  <2>3. db.selected = {RowOf(d) : d \in {d \in Fits : Behind(db, d)}}
    BY DEF Curated, SelectedSound
  <2>4. {d \in Fits : Behind(r, d)} = {d \in Fits : Behind(db, d)} \cup {d \in Ahead(L, db.cursor) \cap Fits : d.rank \in keys}
    BY <1>13
  <2>5. r.selected = {RowOf(d) : d \in {d \in Fits : Behind(r, d)}}
    BY <1>2, <1>15, <2>3, <2>4
  <2> QED BY <2>2, <2>5 DEF SelectedSound
<1>17. Curated(r)
  BY <1>11, <1>16 DEF Curated
<1> QED BY <1>17 DEF r

\* A batch of any stage keeps the tables sound.
LEMMA BatchStep ==
    ASSUME SoundJob, NEW db, Curated(db), ~Finished(db), Pending(db) # {}
    PROVE  Curated(BoundedBatch(db))
<1>1. Standing(db)
  BY EveryStage DEF Curated, IsDatabase
<1>2. \/ Stage(db)[1] \notin {"phase", "emit", "ready"}
  <2>1. Stage(db)[1] \in {"phase", "emit", "ready"} => SubphaseKeys(db) = {}
    BY DEF SubphaseKeys
  <2> QED BY <2>1 DEF Pending
<1>3. CASE db.at <= Len(job.reports) /\ Stage(db) = <<"inventory", db.at>>
  BY <1>3, InventoryBatch
<1>4. CASE \/ job.profile = "near" /\ db.at = Listed + 1 /\ Stage(db) = <<"near_map_load">>
           \/ db.at = Mapped + 6 /\ Stage(db) = <<"final_choice">>
           \/ db.at = Grouped /\ Stage(db) = <<"groups">>
  BY <1>4, AsideBatch
<1>5. CASE job.profile = "near" /\ db.at = Listed + 2 /\ Stage(db) = <<"near_map_apply">>
  BY <1>5, ApplyBatch
<1>6. CASE \/ db.at = Mapped + 1 /\ Stage(db) = <<"benchmark_content_clusters">>
           \/ db.at = Mapped + 2 /\ Stage(db) = <<"benchmark_final_clusters">>
  BY <1>6, KeysBatch
<1>7. CASE \/ db.at = Mapped + 3 /\ Stage(db) = <<"benchmark_exact">>
           \/ db.at = Mapped + 4 /\ Stage(db) = <<"benchmark_final">>
  BY <1>7, ClusterBatch
<1>8. CASE db.at = Mapped + 5 /\ Stage(db) = <<"exact_choice">>
  BY <1>8, ExactBatch
<1>9. CASE db.at = Mapped + 7 /\ Stage(db) = <<"canonical_map">>
  BY <1>9, MapBatch
<1>10. CASE \/ db.at = Mapped + 8 /\ Stage(db) = <<"residual_exact">>
            \/ db.at = Mapped + 9 /\ Stage(db) = <<"residual_final">>
  BY <1>10, ResidualBatch
<1>11. CASE ~Handoff /\ \E i \in 1..Len(QuotaStages) : db.at = Grouped + i /\ Stage(db) = QuotaStages[i]
  BY <1>11, QuotaBatch
<1>12. CASE Stage(db)[1] \in {"phase", "emit", "ready"}
  BY <1>2, <1>12
<1>13. /\ Stage(db) = <<"phase", "inventory_complete">> => Stage(db)[1] \in {"phase", "emit", "ready"}
       /\ Stage(db) = <<"phase", "canonicalized">> => Stage(db)[1] \in {"phase", "emit", "ready"}
       /\ Stage(db) = <<"ready">> => Stage(db)[1] \in {"phase", "emit", "ready"}
       /\ Stage(db)[1] \in {"phase", "emit"} => Stage(db)[1] \in {"phase", "emit", "ready"}
  <2> DEFINE w == Stage(db)
  <2> HIDE DEF w
  <2>1. /\ w = <<"phase", "inventory_complete">> => w[1] \in {"phase", "emit", "ready"}
        /\ w = <<"phase", "canonicalized">> => w[1] \in {"phase", "emit", "ready"}
        /\ w = <<"ready">> => w[1] \in {"phase", "emit", "ready"}
        /\ w[1] \in {"phase", "emit"} => w[1] \in {"phase", "emit", "ready"}
    OBVIOUS
  <2> QED BY <2>1 DEF w
<1> QED BY <1>1, <1>3, <1>4, <1>5, <1>6, <1>7, <1>8, <1>9, <1>10, <1>11, <1>12, <1>13, Zenon DEF Standing

\* The completion of a stage moves on and touches nothing else.
LEMMA CompletedFields ==
    ASSUME NEW db, DOMAIN db = Columns
    PROVE  /\ Same(Completed(db), db, {"at", "cursor", "phase"})
           /\ Completed(db).at = db.at + 1 /\ Completed(db).cursor = 0
           /\ Completed(db).phase = IF Stage(db)[1] = "phase" THEN Stage(db)[2] ELSE db.phase
<1> DEFINE x == IF Stage(db)[1] = "phase" THEN Stage(db)[2] ELSE db.phase
           r == [[[db EXCEPT !.at = db.at + 1] EXCEPT !.cursor = 0] EXCEPT !.phase = x]
<1>1. Completed(db) = r
  BY DEF Completed
<1> HIDE DEF x
<1>2. DOMAIN r = Columns /\ r.at = db.at + 1 /\ r.cursor = 0 /\ r.phase = x
  BY DEF Columns
<1>3. \A f \in Columns \ {"at", "cursor", "phase"} : r[f] = db[f]
  BY DEF Columns
<1>4. r.phase = IF Stage(db)[1] = "phase" THEN Stage(db)[2] ELSE db.phase
  BY <1>2 DEF x
<1> HIDE DEF r
<1> QED BY <1>1, <1>2, <1>3, <1>4 DEF Same

\* What a stage checks as it ends, unless it only files an output.
Ends(db) == Filed(Stage(db)) \/ (Pending(db) = {} /\ Completable(db))

\* A pass that has nothing left to visit has visited everything, and the next
\* starts with nothing visited.
LEMMA ReachedCompleted ==
    ASSUME NEW K, K \subseteq Nat, \A k \in K : k > 0, NEW db, db.at \in Nat, NEW i \in Nat,
           NEW table, Reached(db, i, table, K), db.at = i => table = K,
           NEW r, r.at = db.at + 1, r.cursor = 0
    PROVE  Reached(r, i, table, K)
<1> DEFINE a == db.at
<1>1. /\ a < i => table = {}
      /\ a > i => table = K
      /\ a = i => table = K
  BY DEF Reached
<1>2. {k \in K : k <= 0} = {}
  <2>1. \A k \in K : ~(k <= 0)
    OBVIOUS
  <2> QED BY <2>1
<1>3. a \in Nat /\ r.at = a + 1
  OBVIOUS
<1> HIDE DEF a
<1>4. /\ a + 1 < i => a < i
      /\ a + 1 = i => a < i
      /\ a + 1 > i => a > i \/ a = i
  BY <1>3
<1> QED BY <1>1, <1>2, <1>3, <1>4 DEF Reached

\* The two benchmark passes end with every flagged content and every flagged
\* cluster propagated.
LEMMA PassEnds ==
    ASSUME SoundJob, NEW db, Curated(db), Ends(db),
           NEW i, NEW table, NEW K, db.at = i, Reached(db, i, table, K),
           \/ /\ i = Mapped + 1 /\ K = FlaggedContents /\ Stage(db) = <<"benchmark_content_clusters">>
           \/ /\ i = Mapped + 2 /\ K = FlaggedClusters /\ Stage(db) = <<"benchmark_final_clusters">>
    PROVE  table = K
<1>1. db.at > Listed /\ db.at > Mapped /\ db.at \in Nat
  BY Ordered
<1>2. db.documents = AllDocuments /\ Benchmarked(db) = Flagged(AllDocuments)
  BY <1>1, BenchmarkedAre DEF Curated, DocumentsSound
<1>3. SubphaseKeys(db) = K
  <2>1. CASE Stage(db) = <<"benchmark_content_clusters">> /\ K = FlaggedContents
    BY <1>2, <2>1 DEF SubphaseKeys, FlaggedContents
  <2>2. CASE Stage(db) = <<"benchmark_final_clusters">> /\ K = FlaggedClusters
    <3>1. \A d \in Flagged(AllDocuments) : FinalCluster(db, d) = Cluster(job.profile, d)
      BY <1>1, ClusterIs DEF Curated, Flagged
    <3>2. SubphaseKeys(db) = {FinalCluster(db, d) : d \in Flagged(AllDocuments)}
      BY <1>2, <2>2 DEF SubphaseKeys
    <3> QED BY <2>2, <3>1, <3>2 DEF FlaggedClusters
  <2> QED BY <2>1, <2>2
<1>4. ~Filed(Stage(db))
  BY DEF Filed
<1>5. \A k \in K : ~(k > db.cursor)
  BY <1>3, <1>4 DEF Ends, Pending
<1>6. K \subseteq Nat
  BY FlaggedKeys
<1>7. db.cursor \in Nat /\ table = {k \in K : k <= db.cursor}
  BY DEF Reached
<1>8. \A k \in K : k <= db.cursor
  BY <1>5, <1>6, <1>7
<1> QED BY <1>7, <1>8

\* A quota that has nothing left to take has taken what fits of its line.
LEMMA QuotaEnds ==
    ASSUME SoundJob, NEW db, Curated(db), Ends(db), ~Handoff,
           NEW i \in 1..Len(QuotaStages), db.at = Grouped + i, Stage(db) = QuotaStages[i],
           NEW d \in Fits, QuotaStages[i] = QuotaStage(d)
    PROVE  d.rank <= db.cursor
<1>1. PICK s \in ToSet(SplitOrder), c \in ToSet(Categories) : QuotaStages[i] = <<"quota", s, c>>
  BY OneStageEach
<1>2. s = SplitOf[d.group] /\ c = Category(d)
  BY <1>1 DEF QuotaStage
<1>3. d \in Chosen /\ d \in Line(s, c)
  BY <1>2 DEF Fits, Line
<1>4. db.cursor \in Nat /\ QuotaRows(db, s, c) = {[doc |-> e, room |-> Room(e)] : e \in Ahead(Line(s, c), db.cursor) \cap Fits}
  BY <1>1, QuotaRowsAre
<1>5. d.rank \in Nat
  BY <1>3, LinesQueue DEF IsQueue
<1>6. CASE d.rank > db.cursor
  <2>1. d \in Ahead(Line(s, c), db.cursor) \cap Fits
    BY <1>3, <1>6 DEF Ahead
  <2>2. [doc |-> d, room |-> Room(d)] \in QuotaRows(db, s, c)
    BY <1>4, <2>1
  <2>3. SubphaseKeys(db) = {x.doc.rank : x \in QuotaRows(db, s, c)}
    BY <1>1 DEF SubphaseKeys
  <2>4. d.rank \in SubphaseKeys(db)
    BY <2>2, <2>3
  <2>5. d.rank \in Pending(db)
    BY <1>6, <2>4 DEF Pending
  <2>6. ~Filed(Stage(db))
    BY <1>1 DEF Filed
  <2> QED BY <2>5, <2>6 DEF Ends
<1> QED BY <1>4, <1>5, <1>6

\* There are finitely many stages.
LEMMA StagesCounted ==
    ASSUME SoundJob
    PROVE  /\ Len(Stages) \in Nat /\ Len(Stages) > Grouped
           /\ Handoff => Len(Stages) = Grouped + 1
           /\ ~Handoff => Len(Stages) > Filled + 1
<1> DEFINE n == Len(Stages)
           m == Len(job.reports)
<1>1. /\ Handoff => n = Grouped + 1
      /\ ~Handoff => n = Filled + 4 + m
  BY StagePlaces, Zenon
<1>2. m \in Nat /\ Grouped \in Nat /\ Filled \in Nat /\ Filled = Grouped + Len(QuotaStages) /\ Len(QuotaStages) \in Nat
  BY PlacesOrdered, Zenon
<1> HIDE DEF n, m
<1>3. n \in Nat /\ n > Grouped /\ (Handoff => n = Grouped + 1) /\ (~Handoff => n > Filled + 1)
  <2>1. Filled >= Grouped
    BY <1>2
  <2> QED BY <1>1, <1>2, <2>1
<1> QED BY <1>3 DEF n

\* The end of a stage keeps the tables sound.
LEMMA CompleteStep ==
    ASSUME SoundJob, NEW db, Curated(db), ~Finished(db), Ends(db)
    PROVE  Curated(Completed(db))
<1> DEFINE r == Completed(db)
           a == db.at
<1>1. /\ Same(r, db, {"at", "cursor", "phase"}) /\ r.at = a + 1 /\ r.cursor = 0
  BY CompletedFields DEF Curated, IsDatabase
<1> HIDE DEF r
<1>2. /\ r.documents = db.documents /\ r.reasons = db.reasons /\ r.applied = db.applied
      /\ r.benchContent = db.benchContent /\ r.benchFinal = db.benchFinal /\ r.exact = db.exact
      /\ r.map = db.map /\ r.groups = db.groups /\ r.selected = db.selected
  BY <1>1 DEF Same, Columns
<1>3. Standing(db)
  BY EveryStage DEF Curated, IsDatabase
<1>4. /\ a \in Nat /\ a > 0 /\ Listed \in Nat /\ Mapped \in Nat /\ Grouped \in Nat /\ Filled \in Nat
      /\ Len(job.reports) \in Nat /\ Listed = Len(job.reports) + 1 /\ Listed <= Mapped
      /\ Grouped = Mapped + 11 /\ Filled = Grouped + Len(QuotaStages) /\ Len(QuotaStages) \in Nat
      /\ job.profile = "near" => Mapped = Listed + 2
      /\ job.profile # "near" => Mapped = Listed
  BY Ordered, PlacesOrdered, Zenon
<1>5. /\ Stages[Listed] = <<"phase", "inventory_complete">>
      /\ job.profile = "near" => Stages[Listed + 2] = <<"near_map_apply">>
      /\ Stages[Mapped + 1] = <<"benchmark_content_clusters">>
      /\ Stages[Mapped + 2] = <<"benchmark_final_clusters">>
      /\ Stages[Mapped + 10] = <<"phase", "canonicalized">>
      /\ Stages[Grouped] = <<"groups">>
      /\ ~Handoff => \A i \in 1..Len(QuotaStages) : Stages[Grouped + i] = QuotaStages[i]
  BY StagePlaces, Zenon
<1>6. Stage(db) = Stages[a]
  BY DEF Stage
<1>7. IsDatabase(r)
  <2>1. a + 1 \in Positive
    BY <1>4 DEF Positive
  <2>2. Within(a + 1)
    <3> DEFINE n == Len(Stages)
    <3>1. ~(a > n) /\ n \in Nat
      <4>1. Len(Stages) \in Nat
        BY StagesCounted
      <4> QED BY <4>1 DEF Finished
    <3> HIDE DEF n, a
    <3>2. a + 1 <= n + 1
      BY <1>4, <3>1
    <3> QED BY <3>2 DEF Within, n
  <2>3. Canonicalized(r)
    <3> SUFFICES ASSUME Handoff, r.at > Mapped + 10 PROVE r.phase = "canonicalized"
      BY DEF Canonicalized
    <3>1. Stages[Grouped + 1] = <<"ready">> /\ Len(Stages) = Grouped + 1
      BY StagePlaces, Zenon
    <3>2. ~(a > Grouped + 1)
      BY <3>1 DEF Finished
    <3>3. a = Mapped + 10 \/ a = Grouped \/ a = Grouped + 1
      <4> HIDE DEF a
      <4> QED BY <1>1, <1>4, <3>2
    <3>4. r.phase = IF Stage(db)[1] = "phase" THEN Stage(db)[2] ELSE db.phase
      BY CompletedFields DEF Curated, IsDatabase, r
    <3>5. CASE a = Mapped + 10
      <4>1. Stage(db) = <<"phase", "canonicalized">>
        BY <1>5, <1>6, <3>5
      <4> QED BY <3>4, <4>1
    <3>6. CASE a # Mapped + 10
      <4>1. Stage(db) = <<"groups">> \/ Stage(db) = <<"ready">>
        BY <1>5, <1>6, <3>1, <3>3, <3>6
      <4>2. r.phase = db.phase
        BY <3>4, <4>1
      <4>3. a > Mapped + 10
        <5> HIDE DEF a
        <5> QED BY <1>4, <3>3, <3>6
      <4> QED BY <4>2, <4>3 DEF Curated, IsDatabase, Canonicalized
    <3> QED BY <3>5, <3>6
  <2> QED BY <1>1, <2>1, <2>2, <2>3 DEF IsDatabase, Same
<1>8. DocumentsSound(r)
  <2>1. CASE a = Listed
    <3>1. Stage(db) = <<"phase", "inventory_complete">>
      BY <1>5, <1>6, <2>1
    <3>2. db.documents = AllDocuments
      BY <3>1 DEF Ends, Filed, Completable
    <3> QED BY <1>2, <3>2 DEF DocumentsSound
  <2>2. CASE a # Listed
    <3>1. r.at > Listed => a > Listed
      BY <1>1, <1>4, <2>2
    <3> QED BY <1>2, <3>1 DEF Curated, DocumentsSound
  <2> QED BY <2>1, <2>2
<1>9. /\ ReasonsSound(r) /\ StillEligible(r) = StillEligible(db)
      /\ \A d : ReasonsOf(r, d) = ReasonsOf(db, d)
  <2>1. \A d : ReasonsOf(r, d) = ReasonsOf(db, d)
    BY <1>2 DEF ReasonsOf
  <2> QED BY <1>2, <2>1 DEF Curated, ReasonsSound, StillEligible
<1>10. AppliedSound(r)
  <2>1. CASE job.profile = "near" /\ a = Mapped
    <3>1. Stage(db) = <<"near_map_apply">>
      BY <1>4, <1>5, <1>6, <2>1
    <3>2. NearApplied(db)
      BY <3>1 DEF Ends, Filed, Completable
    <3> QED BY <1>2, <3>2 DEF Curated, AppliedSound, NearApplied
  <2>2. CASE ~(job.profile = "near" /\ a = Mapped)
    <3>1. r.at > Mapped /\ job.profile = "near" => db.at > Mapped
      BY <1>1, <1>4, <2>2
    <3> QED BY <1>2, <3>1 DEF Curated, AppliedSound, NearApplied
  <2> QED BY <2>1, <2>2
<1>11. BenchmarkSound(r)
  <2>1. Reached(db, Mapped + 1, db.benchContent, FlaggedContents) /\ Reached(db, Mapped + 2, db.benchFinal, FlaggedClusters)
    BY DEF Curated, BenchmarkSound
  <2>2. a = Mapped + 1 => db.benchContent = FlaggedContents
    BY <1>5, <1>6, <2>1, PassEnds
  <2>3. a = Mapped + 2 => db.benchFinal = FlaggedClusters
    BY <1>5, <1>6, <2>1, PassEnds
  <2>4. Reached(r, Mapped + 1, db.benchContent, FlaggedContents)
    BY <1>1, <1>4, <2>1, <2>2, FlaggedKeys, ReachedCompleted
  <2>5. Reached(r, Mapped + 2, db.benchFinal, FlaggedClusters)
    BY <1>1, <1>4, <2>1, <2>3, FlaggedKeys, ReachedCompleted
  <2> QED BY <1>2, <2>4, <2>5 DEF BenchmarkSound
<1>12. ChoiceSound(r)
  <2>1. r.at < Mapped + 5 => db.at < Mapped + 5
    BY <1>1, <1>4
  <2>2. r.at > Mapped + 10 => \A d \in AllDocuments : ReasonsOf(db, d) = RefReasons(d)
    <3>1. CASE a = Mapped + 10
      <4>1. Stage(db) = <<"phase", "canonicalized">>
        BY <1>5, <1>6, <3>1
      <4>2. CanonicalizationValid(db)
        BY <4>1 DEF Ends, Filed, Completable
      <4> QED BY <3>1, <4>2, CanonicalIsReference
    <3>2. CASE a # Mapped + 10
      <4>1. r.at > Mapped + 10 => db.at > Mapped + 10
        BY <1>1, <1>4, <3>2
      <4> QED BY <4>1 DEF Curated, ChoiceSound
    <3> QED BY <3>1, <3>2
  <2>3. ChoiceSound(db)
    BY DEF Curated
  <2> QED BY <1>2, <1>9, <2>1, <2>2, <2>3 DEF ChoiceSound
<1>13. r.at > Grouped => r.groups = {<<d.group, SplitOf[d.group]>> : d \in Chosen}
  <2>1. CASE a = Grouped
    <3>1. Stage(db) = <<"groups">>
      BY <1>5, <1>6, <2>1
    <3>2. GroupsValid(db)
      BY <3>1 DEF Ends, Filed, Completable
    <3>3. Clean(db) = Chosen
      <4>1. db.at > Mapped + 10
        BY <1>4, <2>1
      <4> QED BY <4>1, ReferenceTables
    <3> QED BY <1>2, <3>2, <3>3 DEF GroupsValid
  <2>2. CASE a # Grouped
    <3>1. r.at > Grouped => db.at > Grouped
      BY <1>1, <1>4, <2>2
    <3> QED BY <1>2, <3>1 DEF Curated, SelectedSound
  <2> QED BY <2>1, <2>2
<1>14. ASSUME ~Handoff, NEW d \in Fits
       PROVE  Behind(r, d) <=> Behind(db, d)
  <2> DEFINE n == Len(QuotaStages)
  <2>1. d.rank \in Nat /\ d.rank > 0
    <3>1. d \in AllDocuments
      BY ChoicesNest DEF Fits
    <3> QED BY <3>1, Fields
  <2>2. ASSUME NEW i \in 1..n, QuotaStages[i] = QuotaStage(d), Grouped + i = a
        PROVE  d.rank <= db.cursor
    <3>1. Stage(db) = QuotaStages[i]
      BY <1>5, <1>6, <1>14, <2>2
    <3> QED BY <1>14, <2>2, <3>1, QuotaEnds
  <2>3. ASSUME NEW i \in 1..n
        PROVE  /\ Grouped + i < r.at <=> Grouped + i < a \/ Grouped + i = a
               /\ ~(d.rank <= r.cursor)
    <3>1. i \in Nat
      BY <1>4
    <3>2. r.at = a + 1 /\ r.cursor = 0
      BY <1>1
    <3> HIDE DEF a, n
    <3> QED BY <1>4, <2>1, <3>1, <3>2
  <2> QED BY <2>2, <2>3 DEF Behind
<1>15. SelectedSound(r)
  <2>1. r.cursor \in Nat
    BY <1>1
  <2>2. r.selected = IF Handoff THEN {} ELSE {RowOf(d) : d \in {d \in Fits : Behind(r, d)}}
    <3>1. db.selected = IF Handoff THEN {} ELSE {RowOf(d) : d \in {d \in Fits : Behind(db, d)}}
      BY DEF Curated, SelectedSound
    <3>2. CASE Handoff
      BY <1>2, <3>1, <3>2
    <3>3. CASE ~Handoff
      <4>1. {d \in Fits : Behind(r, d)} = {d \in Fits : Behind(db, d)}
        BY <1>14, <3>3
      <4> QED BY <1>2, <3>1, <3>3, <4>1
    <3> QED BY <3>2, <3>3
  <2> QED BY <1>13, <2>1, <2>2 DEF SelectedSound
<1>16. Curated(r)
  BY <1>7, <1>8, <1>9, <1>10, <1>11, <1>12, <1>15 DEF Curated
<1> QED BY <1>16 DEF r

\* The empty tables are sound.
LEMMA EmptyCurated == ASSUME SoundJob PROVE Curated(EmptyDatabase)
<1> DEFINE db == EmptyDatabase
<1>1. /\ IsDatabase(db) /\ db.at = 1 /\ db.cursor = 0 /\ db.documents = {} /\ db.reasons = {} /\ db.applied = {}
      /\ db.benchContent = {} /\ db.benchFinal = {} /\ db.exact = {} /\ db.map = {} /\ db.selected = {}
  <2>1. Within(1)
    <3> DEFINE n == Len(Stages)
    <3>1. n \in Nat
      BY StagesCounted
    <3> HIDE DEF n
    <3>2. 1 <= n + 1
      BY <3>1
    <3> QED BY <3>2 DEF Within, n
  <2>2. ~(1 > Mapped + 10)
    <3>1. Mapped \in Nat
      BY PlacesOrdered
    <3> QED BY <3>1
  <2> QED BY <2>1, <2>2 DEF EmptyDatabase, IsDatabase, Columns, Positive, Canonicalized
<1> HIDE DEF db
<1>2. /\ Listed \in Nat /\ Mapped \in Nat /\ Grouped \in Nat /\ Filled \in Nat
      /\ Len(job.reports) \in Nat /\ Listed = Len(job.reports) + 1 /\ Listed <= Mapped
      /\ Grouped = Mapped + 11 /\ Filled = Grouped + Len(QuotaStages) /\ Len(QuotaStages) \in Nat
  BY PlacesOrdered, Zenon
<1>3. ~(1 > Listed) /\ ~(1 > Mapped) /\ 1 < Mapped + 1 /\ 1 < Mapped + 2 /\ ~(1 > Mapped + 10) /\ ~(1 > Grouped)
  BY <1>2
<1>4. \A d : ~Behind(db, d)
  <2>1. \A i \in 1..Len(QuotaStages) : ~(Grouped + i < 1) /\ Grouped + i # 1
    BY <1>2
  <2> QED BY <1>1, <2>1 DEF Behind
<1>5. DocumentsSound(db) /\ ReasonsSound(db) /\ AppliedSound(db)
  BY <1>1, <1>3 DEF DocumentsSound, ReasonsSound, AppliedSound
<1>6. BenchmarkSound(db)
  <2>1. ~(1 = Mapped + 1) /\ ~(1 > Mapped + 1) /\ ~(1 = Mapped + 2) /\ ~(1 > Mapped + 2)
    BY <1>2
  <2> QED BY <1>1, <2>1 DEF BenchmarkSound, Reached
<1>7. ChoiceSound(db)
  BY <1>1, <1>3 DEF ChoiceSound
<1>8. SelectedSound(db)
  <2>1. {d \in Fits : Behind(db, d)} = {}
    BY <1>4
  <2>2. {RowOf(d) : d \in {d \in Fits : Behind(db, d)}} = {}
    BY <2>1
  <2> QED BY <1>1, <1>3, <2>2 DEF SelectedSound
<1>9. Curated(db)
  BY <1>1, <1>5, <1>6, <1>7, <1>8 DEF Curated
<1> QED BY <1>9 DEF db

\* What is curated never changes, and with it what sound tables are.
LEMMA JobStays ==
    ASSUME job' = job
    PROVE  /\ SoundJob' = SoundJob /\ Handoff' = Handoff /\ AllDocuments' = AllDocuments /\ Durable' = Durable
           /\ Listed' = Listed /\ Mapped' = Mapped /\ Grouped' = Grouped /\ Filled' = Filled
           /\ Stages' = Stages
           /\ FlaggedContents' = FlaggedContents /\ FlaggedClusters' = FlaggedClusters
           /\ Candidates' = Candidates /\ Kept' = Kept /\ Chosen' = Chosen /\ Fits' = Fits
           /\ \A d : RefReasons(d)' = RefReasons(d) /\ Room(d)' = Room(d) /\ RowOf(d)' = RowOf(d)
<1>1. SoundJob' = SoundJob /\ Handoff' = Handoff /\ AllDocuments' = AllDocuments /\ Durable' = Durable
  BY DEF SoundJob, Handoff, AllDocuments, Durable
<1>2. Listed' = Listed
  BY DEF Listed
<1>3. Mapped' = Mapped
  BY <1>2 DEF Mapped
<1>4. Grouped' = Grouped
  BY <1>3 DEF Grouped
<1>5. Filled' = Filled
  BY <1>4 DEF Filled
<1>6. Stages' = Stages
  <2>1. Inventory' = Inventory /\ NearMap' = NearMap /\ Emission' = Emission
    BY DEF Inventory, NearMap, Emission
  <2> QED BY <1>1, <2>1 DEF Stages
<1>7. FlaggedContents' = FlaggedContents /\ FlaggedClusters' = FlaggedClusters
  BY <1>1 DEF FlaggedContents, FlaggedClusters
<1>8. Candidates' = Candidates
  BY <1>1 DEF Candidates
<1>9. Kept' = Kept
  BY <1>8 DEF Kept
<1>10. Chosen' = Chosen
  BY <1>1 DEF Chosen
<1>11. \A d : RefReasons(d)' = RefReasons(d)
  BY <1>1, <1>8, <1>9, <1>10 DEF RefReasons
<1>12. \A d : Room(d)' = Room(d)
  BY <1>10 DEF Room
<1>13. \A d : RowOf(d)' = RowOf(d)
  BY <1>12 DEF RowOf
<1>14. Fits' = Fits
  BY <1>10, <1>12 DEF Fits
<1> QED BY <1>1, <1>2, <1>3, <1>4, <1>5, <1>6, <1>7, <1>8, <1>9, <1>10, <1>11, <1>12, <1>13, <1>14

\* What is a curated database does not change while the job does not.
LEMMA TablesStay ==
    ASSUME job' = job
    PROVE  \A db : /\ Curated(db)' <=> Curated(db)
                   /\ Finished(db)' <=> Finished(db)
                   /\ Stage(db)' = Stage(db)
<1> USE JobStays
<1>1. \A db : (Finished(db)' <=> Finished(db)) /\ Stage(db)' = Stage(db)
  BY DEF Finished, Stage
<1>2. \A db : IsDatabase(db)' <=> IsDatabase(db)
  <2>1. \A n : Within(n)' <=> Within(n)
    BY DEF Within
  <2>2. \A db : Canonicalized(db)' <=> Canonicalized(db)
    BY DEF Canonicalized
  <2> QED BY <2>1, <2>2 DEF IsDatabase
<1>3. \A db : DocumentsSound(db)' <=> DocumentsSound(db)
  BY DEF DocumentsSound
<1>4. \A db : ReasonsSound(db)' <=> ReasonsSound(db)
  BY DEF ReasonsSound
<1>5. \A db : AppliedSound(db)' <=> AppliedSound(db)
  BY DEF AppliedSound
<1>6. \A db : BenchmarkSound(db)' <=> BenchmarkSound(db)
  BY DEF BenchmarkSound
<1>7. \A db : ChoiceSound(db)' <=> ChoiceSound(db)
  BY DEF ChoiceSound
<1>8. \A db : SelectedSound(db)' <=> SelectedSound(db)
  <2>1. \A db, d : Behind(db, d)' <=> Behind(db, d)
    BY DEF Behind
  <2>2. ASSUME NEW db
        PROVE  {RowOf(d) : d \in {d \in Fits : Behind(db, d)}}' = {RowOf(d) : d \in {d \in Fits : Behind(db, d)}}
    <3>1. {d \in Fits : Behind(db, d)}' = {d \in Fits : Behind(db, d)}
      BY <2>1
    <3> QED BY <3>1
  <2>3. \A db : {RowOf(d) : d \in {d \in Fits : Behind(db, d)}}' = {RowOf(d) : d \in {d \in Fits : Behind(db, d)}}
    BY <2>2
  <2>4. {<<d.group, SplitOf[d.group]>> : d \in Chosen}' = {<<d.group, SplitOf[d.group]>> : d \in Chosen}
    OBVIOUS
  <2>5. /\ Handoff' = Handoff /\ Grouped' = Grouped /\ Filled' = Filled
    OBVIOUS
  <2> DEFINE Selecteds(db) == {RowOf(d) : d \in {d \in Fits : Behind(db, d)}}
             G == {<<d.group, SplitOf[d.group]>> : d \in Chosen}
  <2>6. ASSUME NEW db
        PROVE  SelectedSound(db) <=> /\ db.at > Grouped => db.groups = G
                                     /\ db.at > Grouped /\ db.at <= Filled => db.cursor \in Nat
                                     /\ db.selected = IF Handoff THEN {} ELSE Selecteds(db)
    BY DEF SelectedSound
  <2>7. ASSUME NEW db
        PROVE  SelectedSound(db)' <=> /\ db.at > Grouped' => db.groups = G'
                                      /\ db.at > Grouped' /\ db.at <= Filled' => db.cursor \in Nat
                                      /\ db.selected = IF Handoff' THEN {} ELSE Selecteds(db)'
    BY DEF SelectedSound
  <2>8. G' = G /\ \A db : Selecteds(db)' = Selecteds(db)
    BY <2>3, <2>4
  <2> HIDE DEF G, Selecteds
  <2> QED BY <2>5, <2>6, <2>7, <2>8
<1> QED BY <1>1, <1>2, <1>3, <1>4, <1>5, <1>6, <1>7, <1>8 DEF Curated

-----------------------------------------------------------------------------
(* What is published of sound tables.                                      *)
RefSelection == Selection(job.profile, AllDocuments)

\* What the reference selects is the rows of the documents that fit.
LEMMA SelectionIs == RefSelection = {RowOf(d) : d \in Fits}
<1>1. Chosen = FinalChoice(job.profile, AllDocuments)
  BY DEF Chosen
<1> HIDE DEF Chosen
<1> DEFINE Remaining(d) == Quota[QuotaOf(d)]
                        - TokensOf({e \in Chosen : QuotaOf(e) = QuotaOf(d) /\ e.rank < d.rank})
<1>2. RefSelection = {[id |-> d.id, split |-> SplitOf[d.group], tokens |-> Min({d.tokens, Remaining(d)})] :
                         d \in {e \in Chosen : Remaining(e) > 0}}
  BY <1>1 DEF RefSelection, Selection
<1>3. \A d : Remaining(d) = Room(d)
  BY DEF Room
<1> HIDE DEF Remaining
<1>4. {e \in Chosen : Remaining(e) > 0} = Fits
  BY <1>3 DEF Fits
<1>5. \A d : [id |-> d.id, split |-> SplitOf[d.group], tokens |-> Min({d.tokens, Remaining(d)})] = RowOf(d)
  BY <1>3 DEF RowOf
<1> HIDE DEF Fits, RowOf
<1> QED BY <1>2, <1>4, <1>5

\* Behind the quotas the selection is the reference's.
LEMMA SelectedIs ==
    ASSUME SoundJob, NEW db, Curated(db), ~Handoff, db.at > Filled
    PROVE  db.selected = RefSelection
<1>1. db.selected = {RowOf(d) : d \in {d \in Fits : Behind(db, d)}}
  BY DEF Curated, SelectedSound
<1>2. /\ db.at \in Nat /\ Grouped \in Nat /\ Len(QuotaStages) \in Nat
      /\ Filled = Grouped + Len(QuotaStages)
  BY Ordered, PlacesOrdered, Zenon
<1>3. ASSUME NEW d \in Fits PROVE Behind(db, d)
  <2>1. PICK i \in 1..Len(QuotaStages) : QuotaStages[i] = QuotaStage(d)
    BY OneStageEach DEF Fits
  <2>2. Grouped + i < db.at
    BY <1>2
  <2> QED BY <2>1, <2>2 DEF Behind
<1>4. {d \in Fits : Behind(db, d)} = Fits
  BY <1>3
<1> QED BY <1>1, <1>4, SelectionIs

\* A document has one row at most.
LEMMA OneRow ==
    ASSUME SoundJob, NEW x \in RefSelection, NEW y \in RefSelection, x.id = y.id
    PROVE  x = y
<1>1. PICK d \in Fits : x = RowOf(d)
  BY SelectionIs
<1>2. PICK e \in Fits : y = RowOf(e)
  BY SelectionIs
<1>3. d.id = e.id
  BY <1>1, <1>2 DEF RowOf
<1>4. d \in AllDocuments /\ e \in AllDocuments
  BY ChoicesNest DEF Fits
<1>5. d = e
  BY <1>3, <1>4, Documents
<1> QED BY <1>1, <1>2, <1>5

\* The decision of the reference on a document, and its shard of a report.
RefMine(d) == {x \in RefSelection : x.id = d.id}
RefRow(d) == IF RefMine(d) = {} THEN [split |-> None, tokens |-> 0] ELSE CHOOSE x \in RefMine(d) : TRUE
RefDecision(d) ==
    [id |-> d.id, keep |-> RefMine(d) # {}, split |-> RefRow(d).split, tokens |-> RefRow(d).tokens,
     reasons |-> IF RefMine(d) = {} /\ RefReasons(d) = {} THEN {"quota_overflow"} ELSE RefReasons(d)]
RefShard(n) == [k \in DOMAIN job.reports[n] |-> RefDecision(job.reports[n][k])]
RefShards == [n \in DOMAIN job.reports |-> RefShard(n)]

\* The decisions a database gives are the reference's.
LEMMA DecisionIs ==
    ASSUME SoundJob, NEW db, Curated(db), ~Handoff, db.at > Filled
    PROVE  /\ \A d \in AllDocuments : Decision(db, d) = RefDecision(d)
           /\ \A n \in DOMAIN job.reports : DecisionShard(db, n) = RefShard(n)
<1>1. db.selected = RefSelection
  BY SelectedIs
<1>2. \A d \in AllDocuments : ReasonsOf(db, d) = RefReasons(d)
  <2>1. db.at > Mapped + 10
    BY Ordered
  <2> QED BY <2>1, ReferenceTables
<1>3. ASSUME NEW d \in AllDocuments PROVE Decision(db, d) = RefDecision(d)
  <2>1. Mine(db, d) = RefMine(d)
    BY <1>1 DEF Mine, RefMine
  <2>2. ReasonsOf(db, d) = RefReasons(d)
    BY <1>2
  <2> HIDE DEF RefMine
  <2>3. Decision(db, d) =
          [id |-> d.id, keep |-> RefMine(d) # {}, split |-> RefRow(d).split, tokens |-> RefRow(d).tokens,
           reasons |-> IF ~(RefMine(d) # {}) /\ RefReasons(d) = {} THEN {"quota_overflow"} ELSE RefReasons(d)]
    BY <2>1, <2>2 DEF Decision, DecisionIf, RefRow
  <2> QED BY <2>3 DEF RefDecision
<1>4. ASSUME NEW n \in DOMAIN job.reports PROVE DecisionShard(db, n) = RefShard(n)
  <2>1. \A k \in DOMAIN job.reports[n] : job.reports[n][k] \in AllDocuments
    BY Documents
  <2>2. \A k \in DOMAIN job.reports[n] : Decision(db, job.reports[n][k]) = RefDecision(job.reports[n][k])
    BY <1>3, <2>1
  <2> QED BY <2>2 DEF DecisionShard, RefShard
<1> QED BY <1>3, <1>4

\* It is exact: the document is kept with the split and the prefix of its row.
LEMMA ShardExact ==
    ASSUME SoundJob, NEW n \in DOMAIN job.reports
    PROVE  DecidedExactly(RefSelection, RefShard(n), job.reports[n])
<1>1. ASSUME NEW k \in DOMAIN job.reports[n], NEW d, d = job.reports[n][k]
      PROVE  /\ RefShard(n)[k].id = d.id
             /\ RefShard(n)[k].keep = (RefMine(d) # {})
             /\ \A x \in RefMine(d) : RefShard(n)[k].split = x.split /\ RefShard(n)[k].tokens = x.tokens
  <2>1. RefShard(n)[k] = RefDecision(d)
    BY <1>1 DEF RefShard
  <2>2. ASSUME NEW x \in RefMine(d) PROVE RefRow(d) = x
    <3>1. \A y \in RefMine(d) : y = x
      BY OneRow DEF RefMine
    <3> QED BY <3>1 DEF RefRow
  <2>3. /\ RefDecision(d).id = d.id /\ RefDecision(d).keep = (RefMine(d) # {})
        /\ RefDecision(d).split = RefRow(d).split /\ RefDecision(d).tokens = RefRow(d).tokens
    BY DEF RefDecision
  <2> QED BY <2>1, <2>2, <2>3
<1> QED BY <1>1 DEF DecidedExactly, RefMine

\* A selection that fills every quota was supplied with the tokens for it.
LEMMA ValidSupplied ==
    ASSUME SoundJob, NEW db, Curated(db), ~Handoff, db.at > Filled, SelectionValid(db)
    PROVE  Supplied(job.profile, AllDocuments)
<1>1. db.selected = RefSelection
  BY SelectedIs
<1>2. db.documents = AllDocuments
  <2>1. db.at > Mapped + 10
    BY Ordered
  <2> QED BY <2>1, ReferenceTables
<1>3. ASSUME NEW q \in Quotas PROVE TokensOf({d \in Chosen : QuotaOf(d) = q}) >= Quota[q]
  <2> DEFINE D == {d \in Chosen : QuotaOf(d) = q}
             rows == {x \in db.selected : x.split = q[1] /\ \E d \in Named(db, {x.id}) : Category(d) = q[2]}
  <2>1. TokensOf(rows) = Quota[q]
    BY DEF SelectionValid, SelectedTokens
  <2>2. q = <<q[1], q[2]>>
    BY DEF Quotas
  <2>3. Counted(D)
    <3>1. D \subseteq AllDocuments
      BY ChoicesNest
    <3>2. IsFiniteSet(D)
      BY <3>1, FinitelyMany, FS_Subset
    <3>3. \A d \in D : d.tokens \in Nat
      BY <3>1, Fields
    <3> QED BY <3>2, <3>3 DEF Counted
  <2>4. ASSUME NEW x \in rows
        PROVE  \E d \in D : x.id = d.id /\ {x.id} \X (1..x.tokens) \subseteq {d.id} \X (1..d.tokens)
    <3>1. PICK d \in Fits : x = RowOf(d)
      BY <1>1, SelectionIs
    <3>2. d \in Chosen /\ d \in AllDocuments /\ Room(d) > 0
      BY ChoicesNest DEF Fits
    <3>3. PICK e \in Named(db, {x.id}) : Category(e) = q[2]
      OBVIOUS
    <3>4. e = d
      BY <1>2, <3>1, <3>2, <3>3, Documents DEF Named, RowOf
    <3>5. x.id = d.id /\ x.split = SplitOf[d.group] /\ x.tokens = Min({d.tokens, Room(d)})
      BY <3>1 DEF RowOf
    <3>6. QuotaOf(d) = q
      BY <2>2, <3>3, <3>4, <3>5 DEF QuotaOf
    <3>7. Room(d) \in Int /\ d.tokens \in Nat
      <4>1. d \in Line(q[1], q[2])
        BY <3>2, <3>3, <3>4, <3>5 DEF Line
      <4>2. IsQueue(Line(q[1], q[2])) /\ Room(d) = RoomIn(Line(q[1], q[2]), Quota[<<q[1], q[2]>>], d)
        BY <4>1, LinesQueue
      <4>3. Quota[<<q[1], q[2]>>] \in Nat
        BY <2>2, <3>2, <3>6, ChosenFields
      <4>4. RoomIn(Line(q[1], q[2]), Quota[<<q[1], q[2]>>], d) \in Int
        BY <4>1, <4>2, <4>3, QueueCounted
      <4> QED BY <3>2, <4>2, <4>4, Fields
    <3>8. x.tokens = IF d.tokens <= Room(d) THEN d.tokens ELSE Room(d)
      BY <3>5, <3>7, MinOfTwo
    <3>9. x.tokens \in Int /\ x.tokens <= d.tokens
      BY <3>7, <3>8
    <3>10. 1..x.tokens \subseteq 1..d.tokens
      BY <3>7, <3>9
    <3> QED BY <3>2, <3>5, <3>6, <3>10
  <2> HIDE DEF D, rows
  <2>5. Positions(rows) \subseteq Positions(D)
    BY <2>4 DEF Positions
  <2>6. TokensOf(rows) <= TokensOf(D)
    BY <2>3, <2>5, TokensCounted
  <2>7. TokensOf(D) \in Nat /\ TokensOf(rows) \in Nat
    BY <2>3, <2>5, TokensCounted
  <2> QED BY <2>1, <2>6, <2>7 DEF D
<1>4. \A q \in Quotas : TokensOf({d \in Chosen : QuotaOf(d) = q}) >= Quota[q]
  BY <1>3
<1> HIDE DEF Quotas
<1> QED BY <1>4 DEF Supplied, Chosen

-----------------------------------------------------------------------------
(* The databases of the volume.                                            *)
Working == Owning \ {"open", "release"}
VolumesSound ==
    /\ SoundJob /\ local = [p \in Pods |-> local[p]]
    /\ canonical = None \/ Curated(canonical)
    /\ \A p \in Pods : local[p] = None \/ Curated(local[p])
HistorySound == \A g \in 1..Len(snaps) : Curated(snaps[g].db)

(* A process is at work on a sound database, and files an output only at a *)
(* stage that ends with one.                                               *)
Files(db) == ~Finished(db) /\ Filed(Stage(db))
WorkSound ==
    /\ \A p \in Pods : procs[p].pc \in Working => Curated(Work(p))
    /\ \A p \in Pods : procs[p].pc \in {"filed", "sign"} => Files(Work(p))
BooksSound == VolumesSound /\ HistorySound /\ WorkSound

\* Where nothing is written, everything stays sound.
LEMMA VolumesStay ==
    ASSUME VolumesSound, UNCHANGED <<job, local, canonical>>
    PROVE  VolumesSound' /\ \A p : Work(p)' = Work(p)
<1>1. /\ SoundJob' = SoundJob /\ Durable' = Durable
      /\ \A db : Curated(db)' <=> Curated(db)
  BY JobStays, TablesStay
<1>2. canonical' = None \/ Curated(canonical)'
  BY <1>1 DEF VolumesSound
<1>3. ASSUME NEW p \in Pods PROVE local'[p] = None \/ Curated(local[p])'
  <2>1. local'[p] = local[p]
    OBVIOUS
  <2> QED BY <1>1, <2>1 DEF VolumesSound
<1>4. local' = [p \in Pods |-> local'[p]]
  BY DEF VolumesSound
<1>5. \A p : Work(p)' = Work(p)
  BY <1>1 DEF Work
<1> QED BY <1>1, <1>2, <1>3, <1>4, <1>5 DEF VolumesSound

\* Snapshots left alone stay curated.
LEMMA HistoryStays ==
    ASSUME HistorySound, UNCHANGED <<job, snaps>>
    PROVE  HistorySound'
<1>1. \A db : Curated(db)' <=> Curated(db)
  BY TablesStay
<1>2. ASSUME NEW g \in 1..Len(snaps) PROVE Curated(snaps[g].db)'
  <2>1. snaps'[g].db = snaps[g].db
    OBVIOUS
  <2> QED BY <1>1, <1>2, <2>1 DEF HistorySound
<1> QED BY <1>2 DEF HistorySound

\* A sound database is written.
LEMMA VolumesKept ==
    ASSUME VolumesSound, NEW p \in Pods, NEW db, Curated(db), KeepWork(p, db), UNCHANGED job
    PROVE  VolumesSound' /\ Work(p)' = db /\ Curated(Work(p))'
<1>1. /\ SoundJob' = SoundJob /\ Durable' = Durable
      /\ \A x : Curated(x)' <=> Curated(x)
  BY JobStays, TablesStay
<1>2. CASE Durable
  <2>1. canonical' = db /\ local' = local
    BY <1>2 DEF KeepWork
  <2>2. Curated(canonical)'
    BY <1>1, <2>1
  <2>3. ASSUME NEW q \in Pods PROVE local'[q] = None \/ Curated(local[q])'
    <3>1. local'[q] = local[q]
      BY <2>1
    <3> QED BY <1>1, <3>1 DEF VolumesSound
  <2>4. local' = [q \in Pods |-> local'[q]]
    BY <2>1 DEF VolumesSound
  <2>5. Work(p)' = db
    BY <1>1, <1>2, <2>1 DEF Work
  <2>6. Curated(Work(p))'
    BY <1>1, <2>5
  <2> QED BY <1>1, <2>2, <2>3, <2>4, <2>5, <2>6 DEF VolumesSound
<1>3. CASE ~Durable
  <2>1. canonical' = canonical /\ local' = [local EXCEPT ![p] = db]
    BY <1>3 DEF KeepWork
  <2>2. canonical' = None \/ Curated(canonical)'
    BY <1>1, <2>1 DEF VolumesSound
  <2>3. local'[p] = db /\ \A q \in Pods : q # p => local'[q] = local[q]
    BY <2>1 DEF VolumesSound
  <2>4. ASSUME NEW q \in Pods PROVE local'[q] = None \/ Curated(local[q])'
    <3>1. CASE q = p
      <4>1. local'[q] = db
        BY <2>3, <3>1
      <4> QED BY <1>1, <4>1
    <3>2. CASE q # p
      <4>1. local'[q] = local[q]
        BY <2>3, <3>2
      <4> QED BY <1>1, <4>1 DEF VolumesSound
    <3> QED BY <3>1, <3>2
  <2>5. local' = [q \in Pods |-> local'[q]]
    BY <2>1 DEF VolumesSound
  <2>6. Work(p)' = db
    BY <1>1, <1>3, <2>3 DEF Work
  <2>7. Curated(Work(p))'
    BY <1>1, <2>6
  <2> QED BY <1>1, <2>2, <2>4, <2>5, <2>6, <2>7 DEF VolumesSound
<1> QED BY <1>2, <1>3

\* Only the owner of the lease is at work.
LEMMA OwnerWorks ==
    ASSUME IInv, NEW p \in Pods, procs[p].pc \in Owning, NEW q \in Pods, q # p
    PROVE  procs[q].pc \notin Owning
  BY DEF IInv, Holders

\* A step of the one process that owns the volume has to answer for its own
\* database only.
LEMMA OwnerStep ==
    ASSUME IInv, NEW p \in Pods, procs[p].pc \in Owning, \A q \in Pods : q # p => procs'[q] = procs[q],
           VolumesSound', HistorySound',
           procs'[p].pc \in Working => Curated(Work(p))',
           procs'[p].pc \in {"filed", "sign"} => Files(Work(p))'
    PROVE  BooksSound'
<1>1. \A q \in Pods : q # p => procs'[q].pc \notin Owning
  BY OwnerWorks
<1>2. WorkSound'
  BY <1>1 DEF WorkSound, Working, Owning
<1> QED BY <1>2 DEF BooksSound

\* Where a process goes, the others stay.
LEMMA Moves ==
    ASSUME IInv, NEW p \in Pods
    PROVE  /\ \A pc : Goto(p, pc) => procs'[p].pc = pc /\ \A q \in Pods : q # p => procs'[q] = procs[q]
           /\ Ended(p) => procs'[p].pc = "off" /\ \A q \in Pods : q # p => procs'[q] = procs[q]
           /\ UNCHANGED procs => procs'[p].pc = procs[p].pc /\ \A q \in Pods : q # p => procs'[q] = procs[q]
<1>1. procs \in [Pods -> Processes] /\ procs[p] \in Processes
  BY DEF IInv, VolumeTypeOK
<1>2. ASSUME NEW pc, Goto(p, pc)
      PROVE  procs'[p].pc = pc /\ \A q \in Pods : q # p => procs'[q] = procs[q]
  <2>1. procs' = [procs EXCEPT ![p] = [procs[p] EXCEPT !.pc = pc]]
    BY <1>1, <1>2 DEF Goto
  <2>2. [procs[p] EXCEPT !.pc = pc].pc = pc
    BY <1>1 DEF Processes
  <2> QED BY <1>1, <2>1, <2>2
<1>3. ASSUME Ended(p)
      PROVE  procs'[p].pc = "off" /\ \A q \in Pods : q # p => procs'[q] = procs[q]
  BY <1>1, <1>3 DEF Ended, Off
<1> QED BY <1>2, <1>3

\* A step that writes no database, and files only what a stage ends with.
LEMMA QuietSystem ==
    ASSUME BooksSound, UNCHANGED <<job, local, snaps, canonical>>,
           \A q \in Pods : /\ procs'[q].pc \in Working => procs[q].pc \in Working
                           /\ procs'[q].pc \in {"filed", "sign"} => Files(Work(q))
    PROVE  BooksSound'
<1>1. VolumesSound' /\ HistorySound' /\ \A q : Work(q)' = Work(q)
  BY VolumesStay, HistoryStays DEF BooksSound
<1>2. \A db : (Curated(db)' <=> Curated(db)) /\ (Files(db)' <=> Files(db))
  BY TablesStay DEF Files, Filed
<1>3. ASSUME NEW q \in Pods, procs'[q].pc \in Working PROVE Curated(Work(q))'
  <2>1. Curated(Work(q))
    BY <1>3 DEF BooksSound, WorkSound
  <2>2. Work(q)' = Work(q)
    BY <1>1
  <2> QED BY <1>2, <2>1, <2>2
<1>4. ASSUME NEW q \in Pods, procs'[q].pc \in {"filed", "sign"} PROVE Files(Work(q))'
  <2>1. Files(Work(q))
    BY <1>4
  <2>2. Work(q)' = Work(q)
    BY <1>1
  <2> QED BY <1>2, <2>1, <2>2
<1>5. WorkSound'
  BY <1>3, <1>4 DEF WorkSound
<1> QED BY <1>1, <1>5 DEF BooksSound

\* A step that touches no database keeps the books.
LEMMA QuietStep ==
    ASSUME BooksSound, NEW p \in Pods, UNCHANGED <<job, local, snaps, canonical>>,
           \A q \in Pods : q # p => procs'[q] = procs[q],
           procs'[p].pc \in Working => procs[p].pc \in Working,
           procs'[p].pc \in {"filed", "sign"} => Files(Work(p))
    PROVE  BooksSound'
<1>1. \A q \in Pods : /\ procs'[q].pc \in Working => procs[q].pc \in Working
                     /\ procs'[q].pc \in {"filed", "sign"} => Files(Work(q))
  BY DEF BooksSound, WorkSound
<1> QED BY <1>1, QuietSystem

\* The lease, publication, and the way out.
LEMMA QuietSteps ==
    ASSUME IInv, BooksSound, NEW p \in Pods,
           \/ Start(p) \/ PublishClaim(p) \/ Reread(p) \/ ArchiveStale(p) \/ Link(p) \/ Release(p)
           \/ Emit(p) \/ Finalize(p) \/ Sign(p) \/ Finish(p) \/ Stop(p) \/ Leave(p) \/ Capture(p)
    PROVE  BooksSound'
<1>1. UNCHANGED <<job, local, snaps, canonical>>
  BY DEF Start, PublishClaim, Reread, ArchiveStale, Link, Release, Emit, Finalize, Sign, Finish, Stop,
         Leave, Capture, outputVars
<1>2. procs \in [Pods -> Processes] /\ procs[p] \in Processes
  BY DEF IInv, VolumeTypeOK
<1>3. CASE Start(p) \/ Link(p)
  <2>1. /\ procs'[p].pc \in {"link", "claim", "open", "off"}
        /\ \A q \in Pods : q # p => procs'[q] = procs[q]
    <3>1. CASE Start(p) /\ Goto(p, "link")
      BY <3>1, Moves
    <3>2. CASE procs' = [procs EXCEPT ![p].pc = "claim", ![p].stale = lease]
      BY <1>2, <3>2 DEF Processes
    <3>3. CASE procs' = [procs EXCEPT ![p] = [Off EXCEPT !.pc = "open", !.token = tokens']]
      BY <1>2, <3>3 DEF Off
    <3>4. CASE Ended(p)
      BY <3>4, Moves
    <3> QED BY <1>3, <3>1, <3>2, <3>3, <3>4 DEF Start, Link
  <2>2. procs'[p].pc \notin Working \cup {"filed", "sign"}
    BY <2>1 DEF Working, Owning
  <2> QED BY <1>1, <2>1, <2>2, QuietStep
<1>4. CASE PublishClaim(p) \/ Reread(p) \/ ArchiveStale(p) \/ Release(p)
  <2>1. (\E pc \in {"reread", "archive", "link"} : Goto(p, pc)) \/ Ended(p)
    BY <1>4 DEF PublishClaim, Reread, ArchiveStale, Release
  <2>2. /\ procs'[p].pc \in {"reread", "archive", "link", "off"}
        /\ \A q \in Pods : q # p => procs'[q] = procs[q]
    BY <2>1, Moves
  <2>3. procs'[p].pc \notin Working \cup {"filed", "sign"}
    BY <2>2 DEF Working, Owning
  <2> QED BY <1>1, <2>2, <2>3, QuietStep
<1>5. CASE Emit(p) \/ Finalize(p) \/ Sign(p)
  <2>1. procs[p].pc \in {"work", "sign"} /\ Files(Work(p))
    <3>1. CASE Emit(p)
      BY <3>1 DEF Emit, Ready, At, Files, Filed
    <3>2. CASE Finalize(p)
      BY <3>2 DEF Finalize, Ready, At, Files, Filed
    <3>3. CASE Sign(p)
      BY <3>3 DEF Sign, At, BooksSound, WorkSound
    <3> QED BY <1>5, <3>1, <3>2, <3>3
  <2>2. \E pc \in {"filed", "sign", "leave"} : Goto(p, pc)
    BY <1>5 DEF Emit, Finalize, Sign
  <2>3. procs[p].pc \in Working
    BY <2>1 DEF Working, Owning
  <2> QED BY <1>1, <2>1, <2>2, <2>3, Moves, QuietStep
<1>6. CASE Stop(p) \/ Capture(p)
  <2>1. procs[p].pc \in Working /\ \E pc \in {"leave", "snapshot"} : Goto(p, pc)
    BY <1>6 DEF Stop, Capture, Ready, At, Working, Owning
  <2> QED BY <1>1, <2>1, Moves, QuietStep
<1>7. CASE Finish(p) \/ Leave(p)
  <2>1. procs[p].pc \in Working
    BY <1>7 DEF Finish, Leave, At, Working, Owning
  <2>2. /\ procs'[p].pc \in {"snapshot", "leave", "release"}
        /\ \A q \in Pods : q # p => procs'[q] = procs[q]
    <3>1. CASE Finish(p)
      BY <1>2, <3>1 DEF Finish, Processes
    <3>2. CASE Leave(p)
      BY <1>2, <3>2 DEF Leave, Processes
    <3> QED BY <1>7, <3>1, <3>2
  <2> QED BY <1>1, <2>1, <2>2, QuietStep
<1> QED BY <1>3, <1>4, <1>5, <1>6, <1>7

\* Databases of a history that come from the one before, or are sound.
LEMMA HistoryWrites ==
    ASSUME HistorySound, UNCHANGED job,
           \A g \in 1..Len(snaps') : \/ g \in 1..Len(snaps) /\ snaps'[g].db = snaps[g].db
                                     \/ Curated(snaps'[g].db)
    PROVE  HistorySound'
<1>1. \A db : Curated(db)' <=> Curated(db)
  BY TablesStay
<1>2. ASSUME NEW g \in 1..Len(snaps') PROVE Curated(snaps[g].db)'
  <2>1. Curated(snaps'[g].db)
    BY <1>2 DEF HistorySound
  <2> QED BY <1>1, <2>1
<1> QED BY <1>2 DEF HistorySound

\* Cleaning, and a changed stage or receipt, keep the databases.
LEMMA CleanedBooks ==
    ASSUME NEW s, IsHistory(s)
    PROVE  /\ Len(Cleaned(s)) = Len(s) /\ DOMAIN Cleaned(s) = 1..Len(s)
           /\ \A g \in 1..Len(s) : Cleaned(s)[g].db = s[g].db
<1> DEFINE n == Len(s)
<1>1. n \in Nat /\ DOMAIN s = 1..n /\ \A g \in 1..n : IsGeneration(s[g])
  BY DEF IsHistory
<1>2. Len(Cleaned(s)) = n /\ DOMAIN Cleaned(s) = 1..n
  BY CleanedHistory
<1>3. ASSUME NEW g \in 1..n PROVE Cleaned(s)[g].db = s[g].db
  <2>1. Cleaned(s)[g] = IF s[g].receipt = "whole" THEN [s[g] EXCEPT !.payload = FALSE] ELSE s[g]
    BY <1>1 DEF Cleaned
  <2>2. IsGeneration(s[g])
    BY <1>1
  <2>3. [s[g] EXCEPT !.payload = FALSE].db = s[g].db
    BY <2>2 DEF IsGeneration
  <2> QED BY <2>1, <2>3
<1> QED BY <1>2, <1>3

\* Marking a generation changes no database.
LEMMA ChangedBooks ==
    ASSUME NEW s, NEW n \in Nat, DOMAIN s = 1..n, NEW i, NEW x, NEW t,
           i \in 1..n => IsGeneration(s[i]),
           t = [s EXCEPT ![i].stage = x] \/ t = [s EXCEPT ![i].receipt = x]
    PROVE  Len(t) = n /\ DOMAIN t = 1..n /\ \A g \in 1..n : t[g].db = s[g].db
<1>1. DOMAIN t = 1..n
  OBVIOUS
<1>2. ASSUME NEW g \in 1..n PROVE t[g].db = s[g].db
  <2>1. CASE g # i
    BY <2>1
  <2>2. CASE g = i
    <3>1. IsGeneration(s[i])
      BY <2>2
    <3>2. [s[i] EXCEPT !.stage = x].db = s[i].db /\ [s[i] EXCEPT !.receipt = x].db = s[i].db
      BY <3>1 DEF IsGeneration
    <3>3. t[i] = [s[i] EXCEPT !.stage = x] \/ t[i] = [s[i] EXCEPT !.receipt = x]
      BY <2>2
    <3> QED BY <2>2, <3>2, <3>3
  <2> QED BY <2>1, <2>2
<1>3. Len(t) = n
  BY <1>1
<1> QED BY <1>1, <1>2, <1>3

\* The newest snapshot that can be recovered is one.
LEMMA NewestIs ==
    ASSUME IInv, Recoverable # {}
    PROVE  Newest \in Recoverable /\ Newest \in 1..Len(snaps) /\ \A g \in Recoverable : g <= Newest
<1> DEFINE n == Len(snaps)
<1>1. n \in Nat /\ DOMAIN snaps = 1..n
  BY DEF IInv, VolumeTypeOK, IsHistory
<1>2. Recoverable \subseteq 1..n
  BY <1>1 DEF Recoverable
<1> HIDE DEF n
<1>3. IsFiniteSet(1..n) /\ 1..n \subseteq Nat
  BY <1>1, FS_Interval
<1>4. IsFiniteSet(Recoverable) /\ Recoverable \subseteq Nat
  BY <1>2, <1>3, FS_Subset
<1>5. Max(Recoverable) \in Recoverable /\ \A g \in Recoverable : g <= Max(Recoverable)
  BY <1>4, GreatestNumber
<1> QED BY <1>2, <1>5 DEF Newest, n

\* What a process finds as it opens is sound.
LEMMA PreparedSound ==
    ASSUME IInv, BooksSound, NEW p \in Pods
    PROVE  /\ Curated(Prepared(p))
           /\ Curated(IF canonical = None THEN EmptyDatabase ELSE canonical)
<1>1. SoundJob /\ Curated(EmptyDatabase)
  BY EmptyCurated DEF BooksSound, VolumesSound
<1>2. Recoverable # {} => Curated(snaps[Newest].db)
  BY NewestIs DEF BooksSound, HistorySound
<1> QED BY <1>1, <1>2 DEF Prepared, BooksSound, VolumesSound

\* Opening starts from a curated database: the snapshot, the canonical one or a
\* fresh one.
LEMMA OpenBooks == ASSUME IInv, BooksSound, NEW p \in Pods, Open(p) PROVE BooksSound'
<1>1. procs[p].pc = "open" /\ Goto(p, "work") /\ snaps' = Cleaned(Swept) /\ UNCHANGED job
  BY DEF Open, At
<1>2. PICK db : Curated(db) /\ KeepWork(p, db)
  BY PreparedSound DEF Open
<1>3. VolumesSound' /\ Curated(Work(p))'
  BY <1>1, <1>2, VolumesKept DEF BooksSound
<1> DEFINE m == Len(Swept)
<1>4. /\ IsHistory(Swept) /\ m \in Nat /\ m <= Len(snaps) /\ Len(snaps) \in Nat
      /\ \A g \in 1..m : Swept[g] = snaps[g]
  BY SweptIs DEF IInv, VolumeTypeOK, IsHistory
<1>5. Len(snaps') = m /\ \A g \in 1..m : snaps'[g].db = Swept[g].db
  BY <1>1, <1>4, CleanedBooks
<1> HIDE DEF m
<1>6. \A g \in 1..Len(snaps') : g \in 1..Len(snaps) /\ snaps'[g].db = snaps[g].db
  BY <1>4, <1>5
<1>7. HistorySound'
  BY <1>1, <1>6, HistoryWrites DEF BooksSound
<1> QED BY <1>1, <1>3, <1>7, Moves, OwnerStep DEF Owning

\* A transaction keeps the database it works on sound.
LEMMA TransactBooks == ASSUME IInv, BooksSound, NEW p \in Pods, Transact(p) \/ CommitFiled(p) PROVE BooksSound'
<1> DEFINE db == Work(p)
<1>1. procs[p].pc \in {"work", "filed"} /\ procs[p].pc \in Working /\ procs[p].pc \in Owning
        /\ UNCHANGED <<job, snaps>>
  BY DEF Transact, CommitFiled, Ready, At, Working, Owning
<1>2. SoundJob /\ Curated(db) /\ HistorySound'
  BY <1>1, HistoryStays DEF BooksSound, VolumesSound, WorkSound
<1>3. CASE Transact(p) /\ Verdict(db) = "refuse"
  <2>1. procs[p].pc = "work" /\ Goto(p, "leave") /\ UNCHANGED <<local, canonical>>
    BY <1>3 DEF Transact, Ready, At
  <2>2. /\ procs'[p].pc = "leave" /\ \A q \in Pods : q # p => procs'[q] = procs[q]
    BY <2>1, Moves
  <2> QED BY <1>1, <2>1, <2>2, QuietStep
<1>4. CASE (Transact(p) /\ Verdict(db) # "refuse") \/ CommitFiled(p)
  <2>1. ~Finished(db)
    BY <1>4 DEF Transact, CommitFiled, Ready, At, BooksSound, WorkSound, Files
  <2>2. PICK new : Curated(new) /\ KeepWork(p, new)
    <3>1. CASE Transact(p) /\ Verdict(db) # "refuse" /\ Pending(db) # {}
      <4>1. Verdict(db) = "batch"
        BY <3>1 DEF Verdict
      <4>2. KeepWork(p, BoundedBatch(db))
        BY <3>1, <4>1 DEF Transact
      <4> QED BY <1>2, <2>1, <3>1, <4>2, BatchStep
    <3>2. CASE Transact(p) /\ Verdict(db) # "refuse" /\ Pending(db) = {}
      <4>1. Verdict(db) = "complete" /\ Completable(db)
        BY <3>2 DEF Verdict
      <4>2. KeepWork(p, Completed(db))
        BY <3>2, <4>1 DEF Transact
      <4>3. Ends(db)
        BY <3>2, <4>1 DEF Ends
      <4> QED BY <1>2, <2>1, <4>2, <4>3, CompleteStep
    <3>3. CASE CommitFiled(p)
      <4>1. Ends(db) /\ KeepWork(p, Completed(db))
        BY <3>3 DEF CommitFiled, At, BooksSound, WorkSound, Files, Ends
      <4> QED BY <1>2, <2>1, <4>1, CompleteStep
    <3> QED BY <1>4, <3>1, <3>2, <3>3
  <2>3. VolumesSound' /\ Curated(Work(p))'
    BY <1>1, <2>2, VolumesKept DEF BooksSound
  <2>4. Goto(p, "work") \/ (procs[p].pc = "work" /\ UNCHANGED procs)
    BY <1>4 DEF Transact, CommitFiled, Ready, At
  <2>5. procs'[p].pc = "work" /\ \A q \in Pods : q # p => procs'[q] = procs[q]
    BY <2>4, Moves
  <2> QED BY <1>1, <1>2, <2>3, <2>5, OwnerStep
<1> QED BY <1>3, <1>4

\* Snapshots are copies of the database at work.
LEMMA SnapshotBooks ==
    ASSUME IInv, BooksSound, NEW p \in Pods,
           Snapshot(p) \/ Retire(p) \/ UnlinkRetired(p) \/ PublishGeneration(p) \/ SealGeneration(p)
    PROVE  BooksSound'
<1> DEFINE n == Len(snaps)
           old == Cleaned(snaps)
<1>1. /\ procs[p].pc \in {"snapshot", "retire", "unlink", "copied", "published"}
      /\ UNCHANGED <<job, local, canonical>>
  BY DEF Snapshot, Retire, UnlinkRetired, PublishGeneration, SealGeneration, At, outputVars
<1>2. procs[p].pc \in Working /\ procs[p].pc \in Owning
  BY <1>1 DEF Working, Owning
<1>3. IsHistory(snaps) /\ n \in Nat /\ DOMAIN snaps = 1..n /\ \A g \in 1..n : IsGeneration(snaps[g])
  BY DEF IInv, VolumeTypeOK, IsHistory
<1>4. /\ IsHistory(old) /\ Len(old) = n /\ DOMAIN old = 1..n
      /\ \A g \in 1..n : old[g].db = snaps[g].db
      /\ \A g \in 1..n : IsGeneration(old[g])
  BY <1>3, CleanedBooks, CleanedHistory DEF IsHistory
<1>5. Curated(Work(p))
  BY <1>2 DEF BooksSound, WorkSound
<1>6. \A g \in 1..Len(snaps') : \/ g \in 1..n /\ snaps'[g].db = snaps[g].db
                                \/ Curated(snaps'[g].db)
  <2> HIDE DEF n, old
  <2>1. CASE UNCHANGED snaps
    BY <2>1 DEF n
  <2>2. CASE snaps' = Append(old, Generation(Work(p), IF Recoverable = {} THEN 0 ELSE Newest))
    <3> DEFINE new == Generation(Work(p), IF Recoverable = {} THEN 0 ELSE Newest)
    <3>1. new.db = Work(p)
      BY DEF Generation
    <3> HIDE DEF new
    <3>2. snaps' = Append(old, new) /\ old \in Seq({old[g] : g \in 1..n} \cup {new})
      <4>1. old = [g \in 1..n |-> old[g]]
        BY <1>4 DEF IsHistory
      <4> DEFINE S == {old[g] : g \in 1..n} \cup {new}
      <4>2. \A g \in 1..n : old[g] \in S
        OBVIOUS
      <4>3. old \in Seq(S)
        <5> HIDE DEF S
        <5> QED BY <1>3, <4>1, <4>2
      <4> QED BY <2>2, <4>3 DEF new
    <3> DEFINE S == {old[g] : g \in 1..n} \cup {new}
    <3>3. old \in Seq(S) /\ new \in S
      BY <3>2
    <3> HIDE DEF S
    <3>4. Len(snaps') = n + 1 /\ snaps'[n + 1] = new /\ \A g \in 1..n : snaps'[g] = old[g]
      BY <1>3, <1>4, <3>2, <3>3
    <3>5. \A g \in 1..n + 1 : g \in 1..n \/ g = n + 1
      BY <1>3
    <3> QED BY <1>4, <1>5, <3>1, <3>4, <3>5
  <2>3. ASSUME NEW i, \/ snaps' = [old EXCEPT ![i].receipt = "torn"]
                      \/ snaps' = [snaps EXCEPT ![i].receipt = "whole"]
                      \/ snaps' = [snaps EXCEPT ![i].stage = "manifest"]
                      \/ snaps' = [snaps EXCEPT ![i].stage = "complete"]
        PROVE  \A g \in 1..Len(snaps') : g \in 1..n /\ snaps'[g].db = snaps[g].db
    <3>1. i \in 1..n => IsGeneration(old[i]) /\ IsGeneration(snaps[i])
      BY <1>3, <1>4
    <3>2. CASE snaps' = [old EXCEPT ![i].receipt = "torn"]
      <4>1. Len(snaps') = n /\ \A g \in 1..n : snaps'[g].db = old[g].db
        BY <1>3, <1>4, <3>1, <3>2, ChangedBooks
      <4> QED BY <1>4, <4>1
    <3>3. CASE ~(snaps' = [old EXCEPT ![i].receipt = "torn"])
      <4>1. PICK x : snaps' = [snaps EXCEPT ![i].stage = x] \/ snaps' = [snaps EXCEPT ![i].receipt = x]
        BY <2>3, <3>3
      <4>2. Len(snaps') = n /\ \A g \in 1..n : snaps'[g].db = snaps[g].db
        <5>1. CASE snaps' = [snaps EXCEPT ![i].stage = x]
          BY <1>3, <3>1, <5>1, ChangedBooks
        <5>2. CASE snaps' = [snaps EXCEPT ![i].receipt = x]
          BY <1>3, <3>1, <5>2, ChangedBooks
        <5> QED BY <4>1, <5>1, <5>2
      <4> QED BY <4>2
    <3> QED BY <3>2, <3>3
  <2>4. CASE snaps' = old
    BY <1>4, <2>4
  <2>5. CASE Snapshot(p)
    BY <2>1, <2>2, <2>3, <2>5 DEF Snapshot, old
  <2>6. CASE Retire(p)
    <3>1. PICK i : snaps' = [snaps EXCEPT ![i].receipt = "whole"]
      BY <2>6 DEF Retire
    <3> QED BY <2>3, <3>1
  <2>7. CASE UnlinkRetired(p)
    BY <2>4, <2>7 DEF UnlinkRetired, old
  <2>8. CASE PublishGeneration(p) \/ SealGeneration(p)
    BY <2>3, <2>8 DEF PublishGeneration, SealGeneration, n
  <2> QED BY <2>5, <2>6, <2>7, <2>8
<1>7. HistorySound'
  BY <1>1, <1>6, HistoryWrites DEF BooksSound
<1>8. VolumesSound' /\ Work(p)' = Work(p)
  BY <1>1, VolumesStay DEF BooksSound
<1>9. Curated(Work(p))'
  BY <1>1, <1>5, <1>8, TablesStay
<1>10. \E pc \in {"release", "retire", "copied", "unlink", "snapshot", "published", "promote", "work"} : Goto(p, pc)
  BY DEF Snapshot, Retire, UnlinkRetired, PublishGeneration, SealGeneration
<1>11. /\ procs'[p].pc \notin {"filed", "sign"} /\ \A q \in Pods : q # p => procs'[q] = procs[q]
  BY <1>10, Moves
<1> QED BY <1>2, <1>7, <1>8, <1>9, <1>11, OwnerStep

\* The volume's database becomes a snapshot's.
LEMMA PromoteBooks == ASSUME IInv, BooksSound, NEW p \in Pods, Promote(p) PROVE BooksSound'
<1>1. procs[p].pc = "promote" /\ Goto(p, "release") /\ UNCHANGED <<job, local, snaps>>
  BY DEF Promote, At
<1>2. procs'[p].pc = "release" /\ \A q \in Pods : q # p => procs'[q] = procs[q]
  BY <1>1, Moves
<1>3. \A db : Curated(db)' <=> Curated(db)
  BY <1>1, TablesStay
<1>4. canonical' = None \/ Curated(canonical')
  BY NewestIs DEF Promote, BooksSound, VolumesSound, HistorySound
<1>5. canonical' = None \/ Curated(canonical)'
  BY <1>3, <1>4
<1>6. ASSUME NEW q \in Pods PROVE local'[q] = None \/ Curated(local[q])'
  <2>1. local'[q] = local[q]
    BY <1>1
  <2> QED BY <1>3, <2>1 DEF BooksSound, VolumesSound
<1>7. VolumesSound'
  BY <1>1, <1>5, <1>6, JobStays DEF BooksSound, VolumesSound
<1>8. HistorySound'
  BY <1>1, HistoryStays DEF BooksSound
<1> QED BY <1>1, <1>2, <1>7, <1>8, OwnerStep DEF Owning, Working

\* A killed process may take its disk along.
LEMMA KillBooks == ASSUME IInv, BooksSound, NEW p \in Pods, Kill(p) PROVE BooksSound'
<1>1. Ended(p) /\ UNCHANGED <<job, snaps, canonical>>
        /\ (UNCHANGED local \/ local' = [local EXCEPT ![p] = None])
  BY DEF Kill, outputVars
<1>2. procs'[p].pc = "off" /\ \A q \in Pods : q # p => procs'[q] = procs[q]
  BY <1>1, Moves
<1>3. CASE UNCHANGED local
  BY <1>1, <1>2, <1>3, QuietStep DEF Working, Owning
<1>4. CASE local' = [local EXCEPT ![p] = None]
  <2>1. local'[p] = None /\ (\A q \in Pods : q # p => local'[q] = local[q]) /\ local' = [q \in Pods |-> local'[q]]
    BY <1>4 DEF BooksSound, VolumesSound
  <2>2. \A db : (Curated(db)' <=> Curated(db)) /\ (Files(db)' <=> Files(db))
    BY <1>1, TablesStay DEF Files, Filed
  <2>3. Durable' = Durable /\ SoundJob' = SoundJob
    BY <1>1, JobStays
  <2>4. canonical' = None \/ Curated(canonical)'
    <3>1. canonical' = canonical
      BY <1>1
    <3> QED BY <2>2, <3>1 DEF BooksSound, VolumesSound
  <2>5. ASSUME NEW q \in Pods PROVE local'[q] = None \/ Curated(local[q])'
    <3>1. local'[q] = None \/ local'[q] = local[q]
      BY <2>1
    <3> QED BY <2>2, <3>1 DEF BooksSound, VolumesSound
  <2>6. VolumesSound'
    BY <2>1, <2>3, <2>4, <2>5 DEF BooksSound, VolumesSound
  <2>7. HistorySound'
    BY <1>1, HistoryStays DEF BooksSound
  <2>8. ASSUME NEW q \in Pods, q # p PROVE Work(q)' = Work(q) /\ procs'[q] = procs[q]
    BY <1>1, <1>2, <2>1, <2>3, <2>8 DEF Work
  <2>9. procs'[p].pc \notin Working \cup {"filed", "sign"}
    BY <1>2 DEF Working, Owning
  <2>10. ASSUME NEW q \in Pods
         PROVE  /\ procs'[q].pc \in Working => Curated(Work(q))'
                /\ procs'[q].pc \in {"filed", "sign"} => Files(Work(q))'
    <3>1. CASE q = p
      BY <2>9, <3>1
    <3>2. CASE q # p
      <4>1. Work(q)' = Work(q) /\ procs'[q] = procs[q]
        BY <2>8, <3>2
      <4>2. /\ procs[q].pc \in Working => Curated(Work(q))
            /\ procs[q].pc \in {"filed", "sign"} => Files(Work(q))
        BY DEF BooksSound, WorkSound
      <4> QED BY <2>2, <4>1, <4>2
    <3> QED BY <3>1, <3>2
  <2>11. WorkSound'
    BY <2>10 DEF WorkSound
  <2> QED BY <2>6, <2>7, <2>11 DEF BooksSound
<1> QED BY <1>1, <1>3, <1>4

\* Every step of a process keeps the databases sound.
LEMMA ProcessBooks == ASSUME IInv, BooksSound, NEW p \in Pods, ProcessStep(p) PROVE BooksSound'
<1>1. CASE \/ Start(p) \/ PublishClaim(p) \/ Reread(p) \/ ArchiveStale(p) \/ Link(p) \/ Release(p)
           \/ Emit(p) \/ Finalize(p) \/ Sign(p) \/ Finish(p) \/ Stop(p) \/ Leave(p) \/ Capture(p)
  BY <1>1, QuietSteps
<1>2. CASE Open(p)
  BY <1>2, OpenBooks
<1>3. CASE Transact(p) \/ CommitFiled(p)
  BY <1>3, TransactBooks
<1>4. CASE Snapshot(p) \/ Retire(p) \/ UnlinkRetired(p) \/ PublishGeneration(p) \/ SealGeneration(p)
  BY <1>4, SnapshotBooks
<1>5. CASE Promote(p) \/ Kill(p)
  BY <1>5, PromoteBooks, KillBooks
<1> QED BY <1>1, <1>2, <1>3, <1>4, <1>5, Zenon DEF ProcessStep, Runs

\* Nothing of the databases changes.
LEMMA BooksStay == ASSUME BooksSound, UNCHANGED <<job, local, snaps, canonical, procs>> PROVE BooksSound'
<1>1. \A q \in Pods : /\ procs'[q].pc \in Working => procs[q].pc \in Working
                     /\ procs'[q].pc \in {"filed", "sign"} => Files(Work(q))
  BY DEF BooksSound, WorkSound
<1> QED BY <1>1, QuietSystem

\* There is none at first.
LEMMA InitialBooks == CurationInit => BooksSound
  BY DEF CurationInit, BooksSound, VolumesSound, HistorySound, WorkSound, Off, Working, Owning

\* No step of curation, of its launcher or of what follows spoils one.
LEMMA BooksStep == IInv /\ BooksSound /\ [SelectionNext]_selectionVars => BooksSound'
<1> SUFFICES ASSUME IInv, BooksSound, [SelectionNext]_selectionVars PROVE BooksSound'
  OBVIOUS
<1>1. CASE UNCHANGED handoffVars
  BY <1>1, BooksStay DEF handoffVars, curationVars, outputVars
<1>2. CASE CurationOnly
  <2>1. PICK p \in Pods : Launch(p) \/ Curate(p) \/ Capture(p) \/ Stop(p) \/ Kill(p)
    BY <1>2, Zenon DEF CurationOnly, CurationNext
  <2>2. ProcessStep(p)
    BY <2>1, Zenon DEF ProcessStep, Launch, Curate
  <2> QED BY <2>2, ProcessBooks
<1>3. CASE \E p \in Pods : StartsChild(p) \/ StepsOf(p) \/ Recovers(p) \/ RunsByHand(p)
  <2>1. PICK p \in Pods : StartsChild(p) \/ StepsOf(p) \/ Recovers(p) \/ RunsByHand(p)
    BY <1>3, Zenon
  <2>2. ProcessStep(p)
    BY <2>1, Zenon DEF ProcessStep, StartsChild, StepsOf, Recovers, RunsByHand
  <2> QED BY <2>2, ProcessBooks
<1>4. CASE \/ WritesResult \/ WritesReceipt \/ Resumes \/ Orchestrates \/ PublishesByHand \/ Publishes
           \/ LauncherDies \/ PublisherStops
  <2>1. UNCHANGED <<job, local, snaps, canonical, procs>>
    BY <1>4 DEF WritesResult, WritesReceipt, Resumes, Orchestrates, PublishesByHand, Publishes,
                LauncherDies, PublisherStops, curationVars, outputVars
  <2> QED BY <2>1, BooksStay
<1> QED BY <1>1, <1>2, <1>3, <1>4, Zenon DEF SelectionNext, NearStage, CurationStage, HandoffNext, selectionVars

\* Every database of the volume, at any step of any process, holds what the
\* stages behind its cursor are to have decided.
THEOREM BooksStaySound == SelectionSpec => []BooksSound
<1>1. SelectionInit => BooksSound
  BY InitialBooks DEF SelectionInit, HandoffInit
<1> QED BY <1>1, BooksStep, VolumeInvariant, PTL DEF SelectionSpec

\* What lies behind a cursor.
LEMMA PastIs ==
    ASSUME SoundJob, NEW db, Curated(db)
    PROVE  /\ Past(db, <<"phase", "inventory_complete">>) => db.at > Listed
           /\ Past(db, <<"phase", "canonicalized">>) => db.at > Mapped + 10
           /\ Past(db, <<"phase", "selected">>) => db.at > Filled /\ ~Handoff
<1>1. /\ db.at \in Nat /\ Listed \in Nat /\ Mapped \in Nat /\ Filled \in Nat /\ Grouped \in Nat
      /\ Listed <= Mapped /\ Grouped = Mapped + 11
  BY Ordered
<1>2. ASSUME NEW t \in {"inventory_complete", "canonicalized", "selected"}, Past(db, <<"phase", t>>)
      PROVE  /\ t = "inventory_complete" => db.at > Listed
             /\ t = "canonicalized" => db.at > Mapped + 10
             /\ t = "selected" => db.at > Filled /\ ~Handoff
  <2>1. PICK i \in 1..db.at - 1 : Stages[i] = <<"phase", t>>
    BY <1>2 DEF Past
  <2>2. i \in Nat /\ i > 0 /\ i < db.at
    BY <1>1
  <2>3. ~(i > Len(Stages)) /\ Len(Stages) \in Nat /\ (Handoff => Len(Stages) = Grouped + 1)
    <3> DEFINE n == Len(Stages)
    <3>1. n \in Nat /\ db.at <= n + 1
      BY StagesCounted DEF Curated, IsDatabase, Within
    <3>2. Handoff => n = Grouped + 1
      BY StagesCounted
    <3> HIDE DEF n
    <3>3. ~(i > n)
      BY <1>1, <2>2, <3>1
    <3> QED BY <3>1, <3>2, <3>3 DEF n
  <2> DEFINE x == [at |-> i]
  <2>4. x.at \in Positive /\ x.at = i /\ Stage(x) = <<"phase", t>> /\ ~Finished(x)
    BY <2>1, <2>2, <2>3 DEF Positive, Stage, Finished
  <2> HIDE DEF x
  <2>5. Standing(x)
    BY <2>4, EveryStage
  <2>6. \/ x.at = Listed /\ t = "inventory_complete"
        \/ x.at = Mapped + 10 /\ t = "canonicalized"
        \/ ~Handoff /\ x.at > Filled
    <3>1. \A k \in 1..Len(QuotaStages) : Stage(x) # QuotaStages[k]
      <4>1. ASSUME NEW k \in 1..Len(QuotaStages) PROVE QuotaStages[k][1] = "quota"
        <5>1. PICK s \in ToSet(SplitOrder), c \in ToSet(Categories) : QuotaStages[k] = <<"quota", s, c>>
          BY OneStageEach
        <5> QED BY <5>1
      <4> QED BY <2>4, <4>1
    <3> DEFINE y == Stage(x)
    <3>2. y = <<"phase", t>>
      BY <2>4
    <3>3. Standing(x) /\ y = Stage(x)
      BY <2>5
    <3> HIDE DEF y
    <3>4. /\ \A k : y # <<"inventory", k>>
          /\ y # <<"near_map_load">> /\ y # <<"near_map_apply">> /\ y # <<"benchmark_content_clusters">>
          /\ y # <<"benchmark_final_clusters">> /\ y # <<"benchmark_exact">> /\ y # <<"benchmark_final">>
          /\ y # <<"exact_choice">> /\ y # <<"final_choice">> /\ y # <<"canonical_map">>
          /\ y # <<"residual_exact">> /\ y # <<"residual_final">> /\ y # <<"groups">> /\ y # <<"ready">>
      BY <3>2
    <3>5. /\ y = <<"phase", "inventory_complete">> => t = "inventory_complete"
          /\ y = <<"phase", "canonicalized">> => t = "canonicalized"
      BY <3>2
    <3> QED BY <3>1, <3>3, <3>4, <3>5, Zenon DEF Standing
  <2>7. /\ t = "inventory_complete" => x.at >= Listed
        /\ t = "canonicalized" => x.at >= Mapped + 10
        /\ t = "selected" => x.at > Filled /\ ~Handoff
    <3>1. x.at \in Nat /\ x.at = i
      BY <2>2, <2>4
    <3>2. x.at > Filled => x.at >= Listed /\ x.at >= Mapped + 10
      <4>1. Filled >= Grouped
        BY Ordered
      <4> QED BY <1>1, <3>1, <4>1
    <3> QED BY <1>1, <2>6, <3>1, <3>2
  <2> QED BY <1>1, <2>2, <2>4, <2>7
<1> QED BY <1>2

\* TablesExact: the tables behind a cursor are the reference result for the
\* frozen inventory, in every database of the volume and its pods, whatever
\* was killed, resumed from a snapshot or promoted on the way (_ingest,
\* canonicalize, select).
THEOREM TablesStayExact == SelectionSpec => []TablesExact
<1>1. IInv /\ BooksSound => TablesExact
  <2> SUFFICES ASSUME IInv, BooksSound PROVE TablesExact
    OBVIOUS
  <2>1. SoundJob
    BY DEF BooksSound, VolumesSound
  <2>2. ASSUME NEW db \in Databases PROVE Curated(db)
    <3>1. DOMAIN snaps = 1..Len(snaps)
      BY DEF IInv, VolumeTypeOK, IsHistory
    <3> QED BY <2>2, <3>1 DEF Databases, BooksSound, VolumesSound, HistorySound
  <2>3. ASSUME NEW db \in Databases
        PROVE  /\ Past(db, <<"phase", "inventory_complete">>) => db.documents = AllDocuments
               /\ Past(db, <<"phase", "canonicalized">>) => Clean(db) = Chosen
               /\ Past(db, <<"phase", "selected">>) => db.selected = RefSelection
    <3>1. Curated(db)
      BY <2>2
    <3>2. Past(db, <<"phase", "inventory_complete">>) => db.documents = AllDocuments
      BY <2>1, <3>1, PastIs DEF Curated, DocumentsSound
    <3>3. Past(db, <<"phase", "canonicalized">>) => Clean(db) = Chosen
      BY <2>1, <3>1, PastIs, ReferenceTables
    <3>4. Past(db, <<"phase", "selected">>) => db.selected = RefSelection
      BY <2>1, <3>1, PastIs, SelectedIs
    <3> QED BY <3>2, <3>3, <3>4
  <2> QED BY <2>3 DEF TablesExact, Chosen, RefSelection
<1> QED BY <1>1, VolumeInvariant, BooksStaySound, PTL

-----------------------------------------------------------------------------
(* The published decisions.                                                *)
RefTotals == QuotaTotals([selected |-> RefSelection, documents |-> AllDocuments])
Filling == \A q \in Quotas : RefTotals[q].tokens = Quota[q]
IsManifest(m) ==
    /\ m = [f \in {"shards", "totals", "signed"} |-> m[f]]
    /\ m.shards = RefShards /\ Supplied(job.profile, AllDocuments)
    /\ m.totals = RefTotals /\ Filling
OutputsSound ==
    /\ decisions = [n \in DOMAIN job.reports |-> decisions[n]]
    /\ \A n \in DOMAIN job.reports : decisions[n] = None \/ decisions[n] = RefShard(n)
    /\ manifest = None \/ (IsManifest(manifest) /\ decisions = RefShards)
    /\ \A p \in Pods : procs[p].pc = "sign" => IsManifest(manifest) /\ decisions = RefShards

\* What the decisions should be does not change while the job does not.
LEMMA OutputsStay ==
    ASSUME job' = job
    PROVE  /\ RefSelection' = RefSelection /\ RefShards' = RefShards /\ RefTotals' = RefTotals
           /\ Supplied(job.profile, AllDocuments)' = Supplied(job.profile, AllDocuments)
           /\ \A n : RefShard(n)' = RefShard(n)
           /\ \A m : IsManifest(m)' <=> IsManifest(m)
<1>1. AllDocuments' = AllDocuments /\ \A d : RefReasons(d)' = RefReasons(d)
  BY JobStays
<1>2. RefSelection' = RefSelection
  BY <1>1 DEF RefSelection
<1>3. Supplied(job.profile, AllDocuments)' = Supplied(job.profile, AllDocuments)
  BY <1>1
<1>4. \A d : RefMine(d)' = RefMine(d)
  BY <1>2 DEF RefMine
<1>5. \A d : RefRow(d)' = RefRow(d)
  <2> DEFINE First(S) == IF S = {} THEN [split |-> None, tokens |-> 0] ELSE CHOOSE x \in S : TRUE
  <2>1. \A d : RefRow(d) = First(RefMine(d)) /\ RefRow(d)' = First(RefMine(d)')
    BY DEF RefRow
  <2> HIDE DEF First
  <2> QED BY <1>4, <2>1
<1>6. \A d : RefDecision(d)' = RefDecision(d)
  BY <1>1, <1>4, <1>5 DEF RefDecision
<1>7. \A n : RefShard(n)' = RefShard(n)
  BY <1>6 DEF RefShard
<1>8. RefShards' = RefShards
  BY <1>7 DEF RefShards
<1>9. RefTotals' = RefTotals
  BY <1>1, <1>2 DEF RefTotals, QuotaTotals, QuotaRow, Named
<1>10. Filling' <=> Filling
  BY <1>9 DEF Filling
<1>11. \A m : IsManifest(m)' <=> IsManifest(m)
  BY <1>3, <1>8, <1>9, <1>10 DEF IsManifest
<1> QED BY <1>2, <1>3, <1>7, <1>8, <1>9, <1>11

\* The totals of a database are those of its documents and its selection.
LEMMA TotalsAre ==
    ASSUME NEW db, db.selected = RefSelection, db.documents = AllDocuments
    PROVE  /\ QuotaTotals(db) = RefTotals
           /\ SelectionValid(db) => Filling
<1> DEFINE ref == [selected |-> RefSelection, documents |-> AllDocuments]
<1>1. ref.selected = db.selected /\ ref.documents = db.documents /\ RefTotals = QuotaTotals(ref)
  BY DEF RefTotals
<1> HIDE DEF ref
<1>2. \A keys : Named(ref, keys) = Named(db, keys)
  BY <1>1 DEF Named
<1>3. ASSUME NEW s, NEW c PROVE QuotaRow(ref, s, c) = QuotaRow(db, s, c)
  <2> DEFINE rows(x) == {y \in x.selected : y.split = s /\ \E d \in Named(x, {y.id}) : Category(d) = c}
             cut(x) == {y \in rows(x) : \E d \in Named(x, {y.id}) : y.tokens < d.tokens}
  <2>1. rows(ref) = rows(db)
    BY <1>1, <1>2
  <2>2. cut(ref) = cut(db)
    BY <1>2, <2>1
  <2>3. \A x : QuotaRow(x, s, c) = Summary(rows(x), TokensOf(rows(x)), Cardinality(cut(x)))
    BY DEF QuotaRow
  <2> HIDE DEF rows, cut
  <2> QED BY <2>1, <2>2, <2>3
<1>4. RefTotals = QuotaTotals(db)
  BY <1>1, <1>3 DEF QuotaTotals
<1>5. \A s, c : QuotaRow(db, s, c).tokens = SelectedTokens(db, s, c)
  BY DEF QuotaRow, SelectedTokens, Summary
<1>6. ASSUME SelectionValid(db), NEW q \in Quotas PROVE RefTotals[q].tokens = Quota[q]
  <2>1. RefTotals[q] = QuotaRow(db, q[1], q[2])
    BY <1>4 DEF QuotaTotals
  <2> QED BY <1>5, <1>6, <2>1 DEF SelectionValid
<1> QED BY <1>4, <1>6 DEF Filling

\* A step that publishes nothing.
LEMMA OutputsKept ==
    ASSUME OutputsSound, UNCHANGED <<job, decisions, manifest>>,
           \A p \in Pods : procs'[p].pc = "sign" => procs[p].pc = "sign"
    PROVE  OutputsSound'
<1> USE OutputsStay
<1>1. decisions' = [n \in DOMAIN job'.reports |-> decisions'[n]]
  BY DEF OutputsSound
<1>2. \A n \in DOMAIN job'.reports : decisions'[n] = None \/ decisions'[n] = RefShard(n)'
  BY DEF OutputsSound
<1>3. manifest' = None \/ (IsManifest(manifest)' /\ decisions' = RefShards')
  <2>1. manifest' = manifest
    OBVIOUS
  <2> QED BY <2>1 DEF OutputsSound
<1>4. \A p \in Pods : procs'[p].pc = "sign" => IsManifest(manifest)' /\ decisions' = RefShards'
  <2>1. manifest' = manifest
    OBVIOUS
  <2> QED BY <2>1 DEF OutputsSound
<1> QED BY <1>1, <1>2, <1>3, <1>4 DEF OutputsSound

\* Outputs are filed behind the quotas, of the reference's decisions.
LEMMA FiledIs ==
    ASSUME SoundJob, NEW db, Curated(db), Files(db)
    PROVE  ~Handoff /\ db.at > Filled
<1>1. Standing(db)
  BY EveryStage DEF Curated, IsDatabase, Files
<1> DEFINE y == Stage(db)
<1>2. y[1] = "emit" \/ y = <<"phase", "complete">>
  BY DEF Files, Filed
<1>3. \A k \in 1..Len(QuotaStages) : y # QuotaStages[k]
  <2>1. ASSUME NEW k \in 1..Len(QuotaStages) PROVE QuotaStages[k][1] = "quota"
    <3>1. PICK s \in ToSet(SplitOrder), c \in ToSet(Categories) : QuotaStages[k] = <<"quota", s, c>>
      BY OneStageEach
    <3> QED BY <3>1
  <2>2. y[1] \in {"emit", "phase"}
    BY <1>2
  <2> QED BY <2>1, <2>2
<1>4. Standing(db) /\ y = Stage(db)
  BY <1>1
<1> HIDE DEF y
<1>5. /\ \A k : y # <<"inventory", k>>
      /\ y # <<"near_map_load">> /\ y # <<"near_map_apply">> /\ y # <<"benchmark_content_clusters">>
      /\ y # <<"benchmark_final_clusters">> /\ y # <<"benchmark_exact">> /\ y # <<"benchmark_final">>
      /\ y # <<"exact_choice">> /\ y # <<"final_choice">> /\ y # <<"canonical_map">>
      /\ y # <<"residual_exact">> /\ y # <<"residual_final">> /\ y # <<"groups">> /\ y # <<"ready">>
      /\ y # <<"phase", "inventory_complete">> /\ y # <<"phase", "canonicalized">>
  BY <1>2
<1> QED BY <1>3, <1>4, <1>5, Zenon DEF Standing

\* Emission and finalization run on a database whose decisions are final.
LEMMA FiledOutputs ==
    ASSUME BooksSound, NEW p \in Pods, Emit(p) \/ Finalize(p)
    PROVE  /\ Curated(Work(p)) /\ ~Handoff /\ Work(p).at > Filled
           /\ \A n \in DOMAIN job.reports : DecisionShard(Work(p), n) = RefShard(n)
<1>1. procs[p].pc = "work" /\ Files(Work(p))
  BY DEF Emit, Finalize, Ready, At, Files, Filed
<1>2. SoundJob /\ Curated(Work(p))
  BY <1>1 DEF BooksSound, VolumesSound, WorkSound, Working, Owning
<1>3. ~Handoff /\ Work(p).at > Filled
  BY <1>1, <1>2, FiledIs
<1> QED BY <1>2, <1>3, DecisionIs

\* A shard is replaced by the decisions of the reference.
LEMMA EmitOutputs == ASSUME IInv, BooksSound, OutputsSound, NEW p \in Pods, Emit(p) PROVE OutputsSound'
<1> DEFINE i == Stage(Work(p))[2]
<1>1. /\ decisions' = [decisions EXCEPT ![i] = DecisionShard(Work(p), i)]
      /\ UNCHANGED <<job, manifest>> /\ Goto(p, "filed") /\ procs[p].pc = "work"
  BY DEF Emit, Ready, At
<1>2. \A n \in DOMAIN job.reports : DecisionShard(Work(p), n) = RefShard(n)
  BY FiledOutputs
<1> HIDE DEF i
<1>3. decisions = [n \in DOMAIN job.reports |-> decisions[n]]
  BY DEF OutputsSound
<1>4. \A n \in DOMAIN job.reports : decisions'[n] = IF n = i THEN RefShard(n) ELSE decisions[n]
  BY <1>1, <1>2, <1>3
<1>5. decisions' = [n \in DOMAIN job.reports |-> decisions'[n]]
  BY <1>1, <1>3
<1>6. decisions = RefShards => decisions' = RefShards
  <2>1. ASSUME decisions = RefShards, NEW n \in DOMAIN job.reports PROVE decisions'[n] = RefShard(n)
    <3>1. decisions[n] = RefShard(n)
      BY <2>1 DEF RefShards
    <3> QED BY <1>4, <3>1
  <2>2. ASSUME decisions = RefShards PROVE decisions' = [n \in DOMAIN job.reports |-> RefShard(n)]
    BY <1>5, <2>1, <2>2
  <2> QED BY <2>2 DEF RefShards
<1>7. \A q \in Pods : procs'[q].pc # "sign"
  <2>1. procs'[p].pc = "filed" /\ \A q \in Pods : q # p => procs'[q] = procs[q]
    BY <1>1, Moves
  <2>2. \A q \in Pods : q # p => procs[q].pc # "sign"
    BY <1>1, OwnerWorks DEF Owning
  <2> QED BY <2>1, <2>2
<1> USE OutputsStay
<1>8. decisions' = [n \in DOMAIN job'.reports |-> decisions'[n]]
  BY <1>1, <1>5
<1>9. \A n \in DOMAIN job'.reports : decisions'[n] = None \/ decisions'[n] = RefShard(n)'
  BY <1>1, <1>4 DEF OutputsSound
<1>10. manifest' = None \/ (IsManifest(manifest)' /\ decisions' = RefShards')
  <2>1. manifest' = manifest
    BY <1>1
  <2> QED BY <1>1, <1>6, <2>1 DEF OutputsSound
<1> QED BY <1>7, <1>8, <1>9, <1>10 DEF OutputsSound

\* A manifest names the shards that are there, of a selection that fills every quota.
LEMMA FinalizeOutputs == ASSUME IInv, BooksSound, OutputsSound, NEW p \in Pods, Finalize(p) PROVE OutputsSound'
<1>1. UNCHANGED <<job, decisions>> /\ procs[p].pc = "work"
  BY DEF Finalize, Ready, At
<1>2. CASE Goto(p, "leave") /\ UNCHANGED manifest
  <2>1. \A q \in Pods : procs'[q].pc = "sign" => procs[q].pc = "sign"
    BY <1>2, Moves
  <2> QED BY <1>1, <1>2, <2>1, OutputsKept
<1>3. CASE /\ SelectionValid(Work(p)) /\ decisions = Outputs(p)
           /\ manifest' = [shards |-> decisions, totals |-> QuotaTotals(Work(p)), signed |-> FALSE]
           /\ Goto(p, "sign")
  <2>1. /\ Curated(Work(p)) /\ ~Handoff /\ Work(p).at > Filled
        /\ \A n \in DOMAIN job.reports : DecisionShard(Work(p), n) = RefShard(n)
    BY FiledOutputs
  <2>2. Supplied(job.profile, AllDocuments)
    BY <1>3, <2>1, ValidSupplied DEF BooksSound, VolumesSound
  <2>3. decisions = RefShards
    BY <1>3, <2>1 DEF Outputs, RefShards
  <2> DEFINE m == [shards |-> decisions, totals |-> QuotaTotals(Work(p)), signed |-> FALSE]
  <2>4. IsManifest(m)
    <3>1. /\ m = [f \in {"shards", "totals", "signed"} |-> m[f]]
          /\ m.shards = decisions /\ m.totals = QuotaTotals(Work(p))
      OBVIOUS
    <3> HIDE DEF m
    <3>2. Work(p).at > Mapped + 10 /\ SoundJob
      BY <2>1, Ordered DEF BooksSound, VolumesSound
    <3>3. Work(p).selected = RefSelection /\ Work(p).documents = AllDocuments
      BY <2>1, <3>2, SelectedIs, ReferenceTables
    <3>4. m.totals = RefTotals /\ Filling
      BY <1>3, <3>1, <3>3, TotalsAre
    <3> QED BY <2>2, <2>3, <3>1, <3>4 DEF IsManifest
  <2>5. manifest' = m
    BY <1>3
  <2> HIDE DEF m
  <2> USE OutputsStay
  <2>6. IsManifest(manifest)' /\ decisions' = RefShards'
    BY <1>1, <2>3, <2>4, <2>5
  <2>7. decisions' = [n \in DOMAIN job'.reports |-> decisions'[n]]
    BY <1>1 DEF OutputsSound
  <2>8. \A n \in DOMAIN job'.reports : decisions'[n] = None \/ decisions'[n] = RefShard(n)'
    BY <1>1 DEF OutputsSound
  <2> QED BY <2>6, <2>7, <2>8 DEF OutputsSound
<1> QED BY <1>2, <1>3 DEF Finalize

\* Its checksum changes nothing else of it.
LEMMA SignOutputs == ASSUME IInv, OutputsSound, NEW p \in Pods, Sign(p) PROVE OutputsSound'
<1>1. /\ procs[p].pc = "sign" /\ manifest' = [manifest EXCEPT !.signed = TRUE] /\ UNCHANGED <<job, decisions>>
      /\ Goto(p, "filed")
  BY DEF Sign, At
<1>2. IsManifest(manifest) /\ decisions = RefShards
  BY <1>1 DEF OutputsSound
<1>3. IsManifest(manifest')
  <2>1. manifest' = [f \in {"shards", "totals", "signed"} |-> IF f = "signed" THEN TRUE ELSE manifest[f]]
    BY <1>1, <1>2 DEF IsManifest
  <2>2. manifest'.shards = manifest.shards /\ manifest'.totals = manifest.totals /\ manifest' = [f \in {"shards", "totals", "signed"} |-> manifest'[f]]
    BY <2>1
  <2> QED BY <1>2, <2>2 DEF IsManifest
<1>4. \A q \in Pods : procs'[q].pc # "sign"
  <2>1. procs'[p].pc = "filed" /\ \A q \in Pods : q # p => procs'[q] = procs[q]
    BY <1>1, Moves
  <2>2. \A q \in Pods : q # p => procs[q].pc # "sign"
    BY <1>1, OwnerWorks DEF Owning
  <2> QED BY <2>1, <2>2
<1> USE OutputsStay
<1>5. IsManifest(manifest)' /\ decisions' = RefShards'
  BY <1>1, <1>2, <1>3
<1>6. decisions' = [n \in DOMAIN job'.reports |-> decisions'[n]]
  BY <1>1 DEF OutputsSound
<1>7. \A n \in DOMAIN job'.reports : decisions'[n] = None \/ decisions'[n] = RefShard(n)'
  BY <1>1 DEF OutputsSound
<1> QED BY <1>4, <1>5, <1>6, <1>7 DEF OutputsSound

\* No other step of a process publishes.
LEMMA ProcessOutputs == ASSUME IInv, BooksSound, OutputsSound, NEW p \in Pods, ProcessStep(p) PROVE OutputsSound'
<1>1. CASE Emit(p) \/ Finalize(p) \/ Sign(p)
  BY <1>1, EmitOutputs, FinalizeOutputs, SignOutputs
<1>2. procs \in [Pods -> Processes] /\ procs[p] \in Processes
  BY DEF IInv, VolumeTypeOK
<1>3. CASE Start(p) \/ Link(p) \/ Finish(p) \/ Leave(p)
  <2>1. UNCHANGED <<job, decisions, manifest>>
    BY <1>3 DEF Start, Link, Finish, Leave, outputVars
  <2>2. procs'[p].pc # "sign" /\ \A q \in Pods : q # p => procs'[q] = procs[q]
    <3>1. CASE \E pc \in {"link"} : Goto(p, pc)
      BY <3>1, Moves
    <3>2. CASE procs' = [procs EXCEPT ![p].pc = "claim", ![p].stale = lease]
      BY <1>2, <3>2 DEF Processes
    <3>3. CASE procs' = [procs EXCEPT ![p] = [Off EXCEPT !.pc = "open", !.token = tokens']]
      BY <1>2, <3>3 DEF Off
    <3>4. CASE Ended(p)
      BY <3>4, Moves
    <3>5. CASE Finish(p)
      BY <1>2, <3>5 DEF Finish, Processes
    <3>6. CASE Leave(p)
      BY <1>2, <3>6 DEF Leave, Processes
    <3> QED BY <1>3, <3>1, <3>2, <3>3, <3>4, <3>5, <3>6 DEF Start, Link
  <2> QED BY <2>1, <2>2, OutputsKept
<1>4. CASE \/ PublishClaim(p) \/ Reread(p) \/ ArchiveStale(p) \/ Release(p) \/ Open(p) \/ Transact(p)
           \/ CommitFiled(p) \/ Stop(p) \/ Capture(p) \/ Promote(p) \/ Kill(p)
           \/ Snapshot(p) \/ Retire(p) \/ UnlinkRetired(p) \/ PublishGeneration(p) \/ SealGeneration(p)
  <2>1. UNCHANGED <<job, decisions, manifest>>
    BY <1>4 DEF PublishClaim, Reread, ArchiveStale, Release, Open, Transact, CommitFiled, Stop, Capture,
                Promote, Kill, Snapshot, Retire, UnlinkRetired, PublishGeneration, SealGeneration,
                outputVars, KeepWork
  <2>2. \/ \E pc \in {"reread", "archive", "link", "work", "leave", "snapshot", "release", "retire",
                      "copied", "unlink", "published", "promote"} : Goto(p, pc)
        \/ Ended(p) \/ UNCHANGED procs
    BY <1>4 DEF PublishClaim, Reread, ArchiveStale, Release, Open, Transact, CommitFiled, Stop, Capture,
                Promote, Kill, Snapshot, Retire, UnlinkRetired, PublishGeneration, SealGeneration
  <2>3. \A q \in Pods : procs'[q].pc = "sign" => procs[q].pc = "sign"
    BY <2>2, Moves
  <2> QED BY <2>1, <2>3, OutputsKept
<1> QED BY <1>1, <1>3, <1>4, Zenon DEF ProcessStep, Runs

\* Nothing is published at first.
LEMMA InitialOutputs == CurationInit => OutputsSound
  BY DEF CurationInit, OutputsSound, Off

\* What follows curation publishes nothing of its.
LEMMA OutputsStep == IInv /\ BooksSound /\ OutputsSound /\ [SelectionNext]_selectionVars => OutputsSound'
<1> SUFFICES ASSUME IInv, BooksSound, OutputsSound, [SelectionNext]_selectionVars PROVE OutputsSound'
  OBVIOUS
<1>1. ASSUME UNCHANGED <<job, decisions, manifest, procs>> PROVE OutputsSound'
  BY <1>1, OutputsKept
<1>2. CASE UNCHANGED handoffVars
  BY <1>1, <1>2 DEF handoffVars, curationVars, outputVars
<1>3. CASE CurationOnly
  <2>1. PICK p \in Pods : Launch(p) \/ Curate(p) \/ Capture(p) \/ Stop(p) \/ Kill(p)
    BY <1>3, Zenon DEF CurationOnly, CurationNext
  <2>2. ProcessStep(p)
    BY <2>1, Zenon DEF ProcessStep, Launch, Curate
  <2> QED BY <2>2, ProcessOutputs
<1>4. CASE \E p \in Pods : StartsChild(p) \/ StepsOf(p) \/ Recovers(p) \/ RunsByHand(p)
  <2>1. PICK p \in Pods : StartsChild(p) \/ StepsOf(p) \/ Recovers(p) \/ RunsByHand(p)
    BY <1>4, Zenon
  <2>2. ProcessStep(p)
    BY <2>1, Zenon DEF ProcessStep, StartsChild, StepsOf, Recovers, RunsByHand
  <2> QED BY <2>2, ProcessOutputs
<1>5. CASE \/ WritesResult \/ WritesReceipt \/ Resumes \/ Orchestrates \/ PublishesByHand \/ Publishes
           \/ LauncherDies \/ PublisherStops
  <2>1. UNCHANGED <<job, decisions, manifest, procs>>
    BY <1>5 DEF WritesResult, WritesReceipt, Resumes, Orchestrates, PublishesByHand, Publishes,
                LauncherDies, PublisherStops, curationVars, outputVars
  <2> QED BY <1>1, <2>1
<1> QED BY <1>2, <1>3, <1>4, <1>5, Zenon DEF SelectionNext, NearStage, CurationStage, HandoffNext, selectionVars

\* Every shard that was ever published, and the manifest, hold the decisions of
\* the reference on their documents.
THEOREM OutputsStaySound == SelectionSpec => []OutputsSound
<1>1. SelectionInit => OutputsSound
  BY InitialOutputs DEF SelectionInit, HandoffInit
<1> QED BY <1>1, OutputsStep, VolumeInvariant, BooksStaySound, PTL DEF SelectionSpec

\* PublishedExact: the decision shards and the manifest are what the reference
\* decides, and a manifest is only published of a run that was not short of
\* documents (_decision_rows, _emit_archive, finalize), also by a run that
\* replaces the shards of one that died.
THEOREM PublicationStaysExact == SelectionSpec => []PublishedExact
<1>1. BooksSound /\ OutputsSound => PublishedExact
  <2> SUFFICES ASSUME BooksSound, OutputsSound PROVE PublishedExact
    OBVIOUS
  <2>1. ASSUME NEW n \in DOMAIN decisions, decisions[n] # None
        PROVE  DecidedExactly(RefSelection, decisions[n], job.reports[n])
    <3>1. n \in DOMAIN job.reports /\ decisions[n] = RefShard(n)
      BY <2>1 DEF OutputsSound
    <3> QED BY <3>1, ShardExact DEF BooksSound, VolumesSound
  <2>2. manifest # None => manifest.shards = decisions /\ Supplied(job.profile, AllDocuments)
    BY DEF OutputsSound, IsManifest
  <2> QED BY <2>1, <2>2 DEF PublishedExact, RefSelection
<1> QED BY <1>1, BooksStaySound, OutputsStaySound, PTL

-----------------------------------------------------------------------------
(* The handoff.  A generation with its checksum keeps its database; one is *)
(* concluded with a finished database, and bound with complete groups.     *)
Complete(g) == g \in 1..Len(snaps) /\ snaps[g].stage = "complete"
Concluded(g) == Complete(g) /\ Finished(snaps[g].db)
BoundTo(g) == Complete(g) /\ snaps[g].db.at > Grouped

(* A copied generation is the newest and has no manifest yet; a process    *)
(* that ends with a result snapshots the finished database it works on.    *)
Closing == {"snapshot", "retire", "unlink", "copied", "published", "release"}
BegunSound ==
    \A p \in Pods : procs[p].pc = "copied" => Len(snaps) > 0 /\ snaps[Len(snaps)].stage = "dir"
ClosingSound ==
    \A p \in Pods : procs[p].final =>
        /\ Handoff /\ procs[p].pc \in Closing
        /\ procs[p].pc \in {"snapshot", "retire", "unlink"} => Finished(Work(p))
        /\ procs[p].pc \in {"copied", "published"} => Len(snaps) > 0 /\ Finished(snaps[Len(snaps)].db)

(* What the launcher saw its child report, and a result it has written.    *)
LauncherFields == {"pc", "pod", "reported", "authority", "result", "completion"}
Launched(l) ==
    /\ l = [f \in LauncherFields |-> l[f]]
    /\ l.reported # 0 => Concluded(l.reported)
    /\ l.pc = "result" => l.reported # 0
    /\ l.result \notin {None, 0} => Concluded(l.result)
LauncherSound == Launched(launcher)

(* What the publisher has of the policy's choice: its bitmaps, the counts  *)
(* of a checkpoint for the committed ones, and the totals of a manifest    *)
(* with the generations it stands on.                                      *)
RefBitmap(n) == [k \in DOMAIN job.reports[n] |-> job.reports[n][k] \in Chosen]
Supply == [q \in Quotas |-> Summary(Line(q[1], q[2]), TokensOf(Line(q[1], q[2])), 0)]
Covered == \A q \in Quotas : Line(q[1], q[2]) # {}
CheckpointIs(c) ==
    /\ c # None /\ c \in [bound : Nat, kept : Seq(Nat)]
    /\ \A n \in DOMAIN c.kept :
          n \in DOMAIN job.reports /\ bitmaps[n] = RefBitmap(n) /\ c.kept[n] = KeptIn(RefBitmap(n))
EvidenceIs(e, g) ==
    /\ e.chain # <<>> /\ Last(e.chain) = g
    /\ \A i \in 1 .. Len(e.chain) - 1 : e.chain[i] < e.chain[i + 1]
    /\ e.phase = "canonicalized" /\ e.grouped
SupplyIs(m) ==
    /\ m = [f \in {"bound", "source", "totals", "kept", "signed"} |-> m[f]]
    /\ m.totals = Supply /\ Covered /\ EvidenceIs(m.source, m.bound)
    /\ CheckpointIs(checkpoint) /\ m.kept = checkpoint.kept
    /\ DOMAIN job.reports \subseteq DOMAIN checkpoint.kept
PublisherSound ==
    /\ publisher = [f \in {"pc", "bound"} |-> publisher[f]]
    /\ publisher.pc # "off" => BoundTo(publisher.bound) /\ Covered /\ publisher.bound \in Nat
    /\ publisher.pc \in {"work", "commit"} => CheckpointIs(checkpoint)
    /\ publisher.pc = "commit" => Missing # {} /\ bitmaps[Min(Missing)] = RefBitmap(Min(Missing))
    /\ publisher.pc = "sign" => SupplyIs(published)
    /\ bitmaps = [n \in DOMAIN job.reports |-> bitmaps[n]]
    /\ \A n \in DOMAIN job.reports : bitmaps[n] = None \/ bitmaps[n] = RefBitmap(n)
    /\ checkpoint = None \/ CheckpointIs(checkpoint)
    /\ published = None \/ SupplyIs(published)
HandoffSound == BegunSound /\ ClosingSound /\ LauncherSound /\ PublisherSound

(* A complete generation stays one, of the same database.                  *)
CompleteStays ==
    \A g \in 1..Len(snaps) : snaps[g].stage = "complete" =>
        /\ g \in 1..Len(snaps') /\ snaps'[g].stage = "complete"
        /\ snaps'[g].db = snaps[g].db

\* Cleaning keeps stages and databases.
LEMMA CleanedStays ==
    ASSUME NEW s, IsHistory(s)
    PROVE  /\ Len(s) \in Nat /\ Len(Cleaned(s)) = Len(s) /\ DOMAIN Cleaned(s) = 1..Len(s)
           /\ \A g \in 1..Len(s) : /\ Cleaned(s)[g].stage = s[g].stage /\ Cleaned(s)[g].db = s[g].db
                                    /\ IsGeneration(Cleaned(s)[g])
  BY CleanedHistory, CleanedBooks DEF IsHistory

\* A generation begun is the last, and stands beside those before it.
LEMMA Begins ==
    ASSUME NEW s, IsHistory(s), NEW x
    PROVE  /\ Len(Append(s, x)) = Len(s) + 1 /\ Append(s, x)[Len(s) + 1] = x
           /\ \A g \in 1..Len(s) : Append(s, x)[g] = s[g]
<1> DEFINE S == {s[g] : g \in 1..Len(s)} \cup {x}
<1>1. Len(s) \in Nat /\ s = [g \in 1..Len(s) |-> s[g]]
  BY DEF IsHistory
<1>2. \A g \in 1..Len(s) : s[g] \in S
  OBVIOUS
<1>3. x \in S
  OBVIOUS
<1> HIDE DEF S
<1>4. [g \in 1..Len(s) |-> s[g]] \in Seq(S)
  BY <1>1, <1>2, IsASeq
<1>5. s \in Seq(S)
  BY <1>1, <1>4
<1> QED BY <1>1, <1>3, <1>5

\* A stage or a receipt of one generation changes.
LEMMA MarkedStays ==
    ASSUME NEW s, IsHistory(s), NEW i, NEW v, NEW t,
           t = [s EXCEPT ![i].stage = v] \/ t = [s EXCEPT ![i].receipt = v]
    PROVE  /\ Len(t) = Len(s) /\ \A g \in 1..Len(s) : t[g].db = s[g].db
           /\ \A g \in 1..Len(s) : t[g].stage = IF g = i /\ t = [s EXCEPT ![i].stage = v] THEN v ELSE s[g].stage
<1> DEFINE n == Len(s)
<1>1. n \in Nat /\ DOMAIN s = 1..n /\ \A g \in 1..n : IsGeneration(s[g])
  BY DEF IsHistory
<1>2. Len(t) = n /\ \A g \in 1..n : t[g].db = s[g].db
  <2>1. i \in 1..n => IsGeneration(s[i])
    BY <1>1
  <2> HIDE DEF n
  <2>2. CASE t = [s EXCEPT ![i].stage = v]
    BY <1>1, <2>1, <2>2, ChangedBooks
  <2>3. CASE t = [s EXCEPT ![i].receipt = v]
    BY <1>1, <2>1, <2>3, ChangedBooks
  <2> QED BY <2>2, <2>3
<1>3. ASSUME NEW g \in 1..n
      PROVE  t[g].stage = IF g = i /\ t = [s EXCEPT ![i].stage = v] THEN v ELSE s[g].stage
  <2>1. CASE g # i
    BY <1>1, <2>1
  <2>2. CASE g = i /\ t = [s EXCEPT ![i].stage = v]
    <3>1. t[g] = [s[g] EXCEPT !.stage = v]
      BY <1>1, <2>2
    <3>2. [s[g] EXCEPT !.stage = v].stage = v
      BY <1>1 DEF IsGeneration
    <3> QED BY <2>2, <3>1, <3>2
  <2>3. CASE g = i /\ t # [s EXCEPT ![i].stage = v]
    <3>1. t[g] = [s[g] EXCEPT !.receipt = v]
      BY <1>1, <2>3
    <3>2. [s[g] EXCEPT !.receipt = v].stage = s[g].stage
      BY <1>1 DEF IsGeneration
    <3> QED BY <2>3, <3>1, <3>2
  <2> QED BY <2>1, <2>2, <2>3
<1> QED BY <1>2, <1>3

\* No process takes a complete generation back: it retires a payload, and
\* removes or rewrites only the one that lacks its manifest.
LEMMA StoreStep == ASSUME IInv, BegunSound, NEW p \in Pods, ProcessStep(p) PROVE CompleteStays /\ job' = job
<1> DEFINE n == Len(snaps)
<1>1. IsHistory(snaps) /\ n \in Nat /\ DOMAIN snaps = 1..n
  BY DEF IInv, VolumeTypeOK, IsHistory
<1>2. CASE UNCHANGED snaps /\ UNCHANGED job
  BY <1>2 DEF CompleteStays
<1>3. CASE Open(p)
  <2>1. snaps' = Cleaned(Swept) /\ job' = job
    BY <1>3 DEF Open
  <2>2. /\ IsHistory(Swept) /\ Len(Swept) \in Nat /\ Len(Swept) <= n
        /\ \A g \in 1..Len(Swept) : Swept[g] = snaps[g]
    BY SweptIs
  <2>3. \A g \in 1..n : snaps[g].stage = "complete" => g \in 1..Len(Swept)
    <3>1. CASE \A g \in DOMAIN snaps : Published(g)
      BY <3>1 DEF Swept
    <3>2. CASE \E g \in DOMAIN snaps : ~Published(g)
      <4>1. Partial = {n} /\ n # 0
        BY <1>1, <3>2 DEF IInv, OnePartial, Partial, Published
      <4>2. snaps[n].stage = "dir"
        BY <4>1 DEF Partial
      <4>3. Swept = SubSeq(snaps, 1, n - 1)
        BY <3>2 DEF Swept, Front
      <4>4. Len(Swept) = n - 1
        <5> DEFINE S == {snaps[g] : g \in 1..n}
        <5>1. snaps \in Seq(S)
          BY <1>1 DEF IsHistory
        <5> HIDE DEF S, n
        <5>2. n = Len(snaps)
          BY DEF n
        <5> QED BY <1>1, <4>1, <4>3, <5>1, <5>2
      <4>5. ASSUME NEW g \in 1..n, g # n PROVE g \in 1..n - 1
        <5> HIDE DEF n
        <5> QED BY <1>1, <4>5
      <4> QED BY <4>2, <4>4, <4>5
    <3> QED BY <3>1, <3>2
  <2>4. /\ Len(snaps') = Len(Swept)
        /\ \A g \in 1..Len(Swept) : snaps'[g].stage = Swept[g].stage /\ snaps'[g].db = Swept[g].db
    BY <2>1, <2>2, CleanedStays
  <2> QED BY <2>1, <2>2, <2>3, <2>4 DEF CompleteStays
<1> DEFINE old == Cleaned(snaps)
<1>4. /\ IsHistory(old) /\ Len(old) = n
      /\ \A g \in 1..n : old[g].stage = snaps[g].stage /\ old[g].db = snaps[g].db
  BY <1>1, CleanedStays, CleanedHistory
<1> HIDE DEF old, n
<1>5. CASE Snapshot(p)
  <2>1. job' = job /\ n = Len(snaps)
    BY <1>5 DEF Snapshot, n
  <2>2. CASE UNCHANGED snaps
    BY <2>1, <2>2 DEF CompleteStays
  <2>3. CASE snaps' = [old EXCEPT ![Min(Recoverable)].receipt = "torn"]
    <3> DEFINE i == Min(Recoverable)
    <3> HIDE DEF i
    <3>1. snaps' = [old EXCEPT ![i].receipt = "torn"]
      BY <2>3 DEF i
    <3>2. Len(snaps') = Len(old) /\ \A g \in 1..Len(old) : snaps'[g].db = old[g].db
      BY <1>4, <3>1, MarkedStays
    <3>3. \A g \in 1..Len(old) : snaps'[g].stage = old[g].stage \/ snaps'[g].stage = "torn"
      BY <1>4, <3>1, MarkedStays
    <3>4. \A g \in 1..Len(old) : snaps'[g].stage = old[g].stage
      <4>1. ASSUME NEW g \in 1..Len(old) PROVE snaps'[g].stage = old[g].stage
        <5>1. DOMAIN old = 1..Len(old) /\ IsGeneration(old[g])
          BY <1>4 DEF IsHistory
        <5>2. [old[g] EXCEPT !.receipt = "torn"].stage = old[g].stage
          BY <5>1 DEF IsGeneration
        <5> QED BY <3>1, <5>1, <5>2
      <4> QED BY <4>1
    <3> QED BY <1>4, <2>1, <3>2, <3>4 DEF CompleteStays
  <2>4. CASE \E x : snaps' = Append(old, x)
    <3>1. PICK x : snaps' = Append(old, x)
      BY <2>4
    <3>2. Len(snaps') = n + 1 /\ \A g \in 1..n : snaps'[g] = old[g]
      BY <1>4, <3>1, Begins
    <3>3. \A g \in 1..n : g \in 1..n + 1
      BY <1>1
    <3> QED BY <1>4, <2>1, <3>2, <3>3 DEF CompleteStays
  <2> QED BY <1>5, <2>2, <2>3, <2>4 DEF Snapshot, old
<1>6. CASE Retire(p)
  <2>1. PICK i : snaps' = [snaps EXCEPT ![i].receipt = "whole"]
    BY <1>6 DEF Retire
  <2>2. Len(snaps') = Len(snaps) /\ \A g \in 1..Len(snaps) : snaps'[g].db = snaps[g].db
    BY <1>1, <2>1, MarkedStays
  <2>3. \A g \in 1..Len(snaps) : snaps'[g].stage = snaps[g].stage
    <3>1. ASSUME NEW g \in 1..Len(snaps) PROVE snaps'[g].stage = snaps[g].stage
      <4>1. DOMAIN snaps = 1..Len(snaps) /\ IsGeneration(snaps[g])
        BY <1>1 DEF IsHistory
      <4>2. [snaps[g] EXCEPT !.receipt = "whole"].stage = snaps[g].stage
        BY <4>1 DEF IsGeneration
      <4> QED BY <2>1, <4>1, <4>2
    <3> QED BY <3>1
  <2> QED BY <1>6, <2>2, <2>3 DEF CompleteStays, Retire
<1>7. CASE UnlinkRetired(p)
  BY <1>4, <1>7 DEF CompleteStays, UnlinkRetired, old, n
<1>8. CASE PublishGeneration(p)
  <2>1. /\ snaps' = [snaps EXCEPT ![n].stage = "manifest"] /\ job' = job
        /\ n = Len(snaps) /\ snaps[n].stage = "dir"
    BY <1>8 DEF PublishGeneration, At, BegunSound, n
  <2>2. /\ Len(snaps') = n
        /\ \A g \in 1..n : /\ snaps'[g].db = snaps[g].db
                            /\ snaps'[g].stage = IF g = n THEN "manifest" ELSE snaps[g].stage
    BY <1>1, <2>1, MarkedStays
  <2> QED BY <2>1, <2>2 DEF CompleteStays
<1>9. CASE SealGeneration(p)
  <2>1. snaps' = [snaps EXCEPT ![n].stage = "complete"] /\ job' = job /\ n = Len(snaps)
    BY <1>9 DEF SealGeneration, n
  <2>2. /\ Len(snaps') = n
        /\ \A g \in 1..n : /\ snaps'[g].db = snaps[g].db
                            /\ snaps'[g].stage = IF g = n THEN "complete" ELSE snaps[g].stage
    BY <1>1, <2>1, MarkedStays
  <2> QED BY <2>1, <2>2 DEF CompleteStays
<1>10. CASE \/ Start(p) \/ PublishClaim(p) \/ Reread(p) \/ ArchiveStale(p) \/ Link(p) \/ Transact(p)
            \/ Emit(p) \/ Finalize(p) \/ Sign(p) \/ CommitFiled(p) \/ Finish(p) \/ Leave(p)
            \/ Promote(p) \/ Release(p) \/ Capture(p) \/ Stop(p) \/ Kill(p)
  <2>1. UNCHANGED snaps /\ UNCHANGED job
    BY <1>10 DEF Start, PublishClaim, Reread, ArchiveStale, Link, Transact, Emit, Finalize, Sign, CommitFiled,
       Finish, Leave, Promote, Release, Capture, Stop, Kill
  <2> QED BY <1>2, <2>1
<1> QED BY <1>3, <1>5, <1>6, <1>7, <1>8, <1>9, <1>10, Zenon DEF ProcessStep, Runs

\* While the owner of the volume is at work, whatever another process does is
\* to come or to go.
LEMMA OthersStep ==
    ASSUME IInv, VolumesSound, NEW p \in Pods, ProcessStep(p), NEW q \in Pods, q # p, procs[q].pc \in Owning
    PROVE  UNCHANGED <<job, snaps>> /\ Work(q)' = Work(q)
<1>1. procs[p].pc \notin Owning
  BY OwnerWorks
<1>2. Start(p) \/ PublishClaim(p) \/ Reread(p) \/ ArchiveStale(p) \/ Link(p) \/ Kill(p)
  BY <1>1, Zenon DEF ProcessStep, Runs, Open, Transact, Emit, Finalize, Sign, CommitFiled, Finish, Leave, Snapshot, Retire,
     UnlinkRetired, PublishGeneration, SealGeneration, Promote, Release, Capture, Stop, Ready, At, Owning
<1>3. UNCHANGED <<job, snaps, canonical>>
  BY <1>2 DEF Start, PublishClaim, Reread, ArchiveStale, Link, Kill, outputVars
<1>4. local'[q] = local[q]
  BY <1>2 DEF Start, PublishClaim, Reread, ArchiveStale, Link, Kill, outputVars, VolumesSound
<1>5. Durable' = Durable
  BY <1>3, JobStays
<1> QED BY <1>3, <1>4, <1>5 DEF Work

\* What a step does to the mark of the last snapshot of a run.
LEMMA Marks ==
    ASSUME IInv, NEW p \in Pods
    PROVE  /\ \A pc : Goto(p, pc) => procs'[p].final = procs[p].final
           /\ Ended(p) => procs'[p].final = FALSE
<1>1. procs \in [Pods -> Processes] /\ procs[p] \in Processes
  BY DEF IInv, VolumeTypeOK
<1>2. ASSUME NEW pc, Goto(p, pc) PROVE procs'[p].final = procs[p].final
  <2>1. procs' = [procs EXCEPT ![p] = [procs[p] EXCEPT !.pc = pc]]
    BY <1>1, <1>2 DEF Goto
  <2>2. [procs[p] EXCEPT !.pc = pc].final = procs[p].final
    BY <1>1 DEF Processes
  <2> QED BY <1>1, <2>1, <2>2
<1>3. ASSUME Ended(p) PROVE procs'[p].final = FALSE
  BY <1>1, <1>3 DEF Ended, Off
<1> QED BY <1>2, <1>3

\* The others stay where they are.
LEMMA OthersStay ==
    ASSUME IInv, NEW p \in Pods, ProcessStep(p)
    PROVE  \A q \in Pods : q # p => procs'[q] = procs[q]
<1>1. procs \in [Pods -> Processes]
  BY DEF IInv, VolumeTypeOK
<1>2. CASE (\E pc : Goto(p, pc)) \/ Ended(p) \/ UNCHANGED procs
  BY <1>2, Moves
<1>3. CASE Start(p) \/ Link(p) \/ Finish(p) \/ Leave(p)
  BY <1>1, <1>2, <1>3 DEF Start, Link, Finish, Leave
<1>4. CASE \/ PublishClaim(p) \/ Reread(p) \/ ArchiveStale(p) \/ Release(p) \/ Open(p) \/ Transact(p)
           \/ CommitFiled(p) \/ Stop(p) \/ Capture(p) \/ Promote(p) \/ Kill(p)
           \/ Snapshot(p) \/ Retire(p) \/ UnlinkRetired(p) \/ PublishGeneration(p) \/ SealGeneration(p)
           \/ Emit(p) \/ Finalize(p) \/ Sign(p)
  <2>1. (\E pc : Goto(p, pc)) \/ Ended(p) \/ UNCHANGED procs
    BY <1>4 DEF PublishClaim, Reread, ArchiveStale, Release, Open, Transact, CommitFiled, Stop, Capture,
                Promote, Kill, Snapshot, Retire, UnlinkRetired, PublishGeneration, SealGeneration,
                Emit, Finalize, Sign
  <2> QED BY <1>2, <2>1
<1> QED BY <1>3, <1>4, Zenon DEF ProcessStep, Runs

\* A generation begun is there until its process publishes it.
LEMMA BegunStep ==
    ASSUME IInv, VolumesSound, BegunSound, NEW p \in Pods, ProcessStep(p)
    PROVE  BegunSound'
<1>1. procs \in [Pods -> Processes] /\ procs[p] \in Processes /\ IsHistory(snaps)
  BY DEF IInv, VolumeTypeOK
<1>2. ASSUME NEW q \in Pods, q # p, procs'[q].pc = "copied"
      PROVE  Len(snaps') > 0 /\ snaps'[Len(snaps')].stage = "dir"
  <2>1. procs[q].pc = "copied"
    BY <1>2, OthersStay
  <2>2. UNCHANGED snaps
    BY <1>2, <2>1, OthersStep DEF Owning
  <2> QED BY <2>1, <2>2 DEF BegunSound
<1>3. ASSUME procs'[p].pc = "copied" PROVE Len(snaps') > 0 /\ snaps'[Len(snaps')].stage = "dir"
  <2>1. CASE Snapshot(p)
    <3>1. snaps' = Append(Cleaned(snaps), Generation(Work(p), IF Recoverable = {} THEN 0 ELSE Newest))
      <4>1. Goto(p, "retire") \/ Goto(p, "release") => FALSE
        BY <1>3, Moves
      <4> QED BY <2>1, <4>1, Zenon DEF Snapshot
    <3>2. IsHistory(Cleaned(snaps))
      BY <1>1, CleanedHistory
    <3>3. /\ Len(snaps') = Len(Cleaned(snaps)) + 1 /\ Len(Cleaned(snaps)) \in Nat
          /\ snaps'[Len(snaps')] = Generation(Work(p), IF Recoverable = {} THEN 0 ELSE Newest)
      BY <3>1, <3>2, Begins DEF IsHistory
    <3> QED BY <3>3 DEF Generation
  <2>2. CASE Start(p) \/ Link(p) \/ Finish(p) \/ Leave(p)
    <3>1. CASE Goto(p, "link")
      BY <1>3, <3>1, Moves
    <3>2. CASE procs' = [procs EXCEPT ![p].pc = "claim", ![p].stale = lease]
      BY <1>1, <1>3, <3>2 DEF Processes
    <3>3. CASE procs' = [procs EXCEPT ![p] = [Off EXCEPT !.pc = "open", !.token = tokens']]
      BY <1>1, <1>3, <3>3 DEF Off
    <3>4. CASE Ended(p)
      BY <1>3, <3>4, Moves
    <3>5. CASE Finish(p)
      BY <1>1, <1>3, <3>5 DEF Finish, Processes
    <3>6. CASE Leave(p)
      BY <1>1, <1>3, <3>6 DEF Leave, Processes
    <3> QED BY <2>2, <3>1, <3>2, <3>3, <3>4, <3>5, <3>6 DEF Start, Link
  <2>3. CASE \/ PublishClaim(p) \/ Reread(p) \/ ArchiveStale(p) \/ Release(p) \/ Open(p) \/ Transact(p)
             \/ CommitFiled(p) \/ Stop(p) \/ Capture(p) \/ Promote(p) \/ Kill(p)
             \/ Retire(p) \/ UnlinkRetired(p) \/ PublishGeneration(p) \/ SealGeneration(p)
             \/ Emit(p) \/ Finalize(p) \/ Sign(p)
    <3>1. \/ \E pc \in {"reread", "archive", "link", "work", "leave", "snapshot", "release",
                        "unlink", "published", "promote", "filed", "sign"} : Goto(p, pc)
          \/ Ended(p) \/ (UNCHANGED procs /\ procs[p].pc = "work")
      BY <2>3 DEF PublishClaim, Reread, ArchiveStale, Release, Open, Transact, CommitFiled, Stop, Capture,
                  Promote, Kill, Retire, UnlinkRetired, PublishGeneration, SealGeneration,
                  Emit, Finalize, Sign, Ready, At
    <3> QED BY <1>3, <3>1, Moves
  <2> QED BY <2>1, <2>2, <2>3, Zenon DEF ProcessStep, Runs
<1> QED BY <1>2, <1>3 DEF BegunSound

\* A run marks the snapshot of a finished database only.
LEMMA ClosingStep ==
    ASSUME IInv, VolumesSound, ClosingSound, NEW p \in Pods, ProcessStep(p), job' = job
    PROVE  ClosingSound'
<1>1. procs \in [Pods -> Processes] /\ procs[p] \in Processes /\ IsHistory(snaps) /\ Len(snaps) \in Nat
  BY DEF IInv, VolumeTypeOK, IsHistory
<1>2. (Handoff' <=> Handoff) /\ \A db : Finished(db)' <=> Finished(db)
  BY JobStays, TablesStay
<1> DEFINE Closes(q) ==
             /\ Handoff /\ procs[q].pc \in Closing
             /\ procs[q].pc \in {"snapshot", "retire", "unlink"} => Finished(Work(q))
             /\ procs[q].pc \in {"copied", "published"} => Len(snaps) > 0 /\ Finished(snaps[Len(snaps)].db)
<1>3. \A q \in Pods : procs[q].final => Closes(q)
  BY DEF ClosingSound
<1>4. ASSUME NEW q \in Pods, procs'[q].final, q # p PROVE Closes(q)'
  <2>1. procs'[q] = procs[q]
    BY <1>4, OthersStay
  <2>2. Closes(q) /\ procs[q].pc \in Owning
    BY <1>3, <1>4, <2>1 DEF Closing, Owning
  <2>3. UNCHANGED <<job, snaps>> /\ Work(q)' = Work(q)
    BY <1>4, <2>2, OthersStep
  <2>4. Finished(Work(q)) => Finished(Work(q))'
    BY <1>2, <2>3
  <2>5. Finished(snaps[Len(snaps)].db) => Finished(snaps[Len(snaps)].db)'
    BY <1>2, <2>3
  <2> QED BY <1>2, <2>1, <2>2, <2>3, <2>4, <2>5
<1>5. ASSUME procs'[p].final PROVE Closes(p)'
  <2>1. CASE Finish(p)
    <3>1. /\ procs'[p].final = Handoff /\ procs'[p].pc = IF Handoff THEN "snapshot" ELSE "leave"
      BY <1>1, <2>1 DEF Finish, Processes
    <3>2. Work(p)' = Work(p) /\ Finished(Work(p))
      BY <2>1, VolumesStay DEF Finish, outputVars
    <3>3. Finished(Work(p))'
      BY <1>2, <3>2
    <3> QED BY <1>2, <1>5, <3>1, <3>3 DEF Closing
  <2>2. CASE Kill(p) \/ Release(p)
    BY <1>5, <2>2, Marks DEF Kill, Release
  <2>3. CASE \/ Start(p) \/ PublishClaim(p) \/ Reread(p) \/ ArchiveStale(p) \/ Link(p) \/ Open(p)
             \/ Transact(p) \/ Emit(p) \/ Finalize(p) \/ Sign(p) \/ CommitFiled(p) \/ Leave(p)
             \/ Promote(p) \/ Capture(p) \/ Stop(p)
    <3>1. procs[p].pc \notin Closing
      BY <2>3 DEF Start, PublishClaim, Reread, ArchiveStale, Link, Open, Transact, Emit, Finalize, Sign,
         CommitFiled, Leave, Promote, Capture, Stop, Ready, At, Closing
    <3>2. ~procs[p].final
      BY <1>3, <3>1
    <3>3. CASE (\E pc : Goto(p, pc)) \/ UNCHANGED procs \/ Ended(p)
      BY <1>5, <3>2, <3>3, Marks
    <3>4. CASE procs' = [procs EXCEPT ![p].pc = "claim", ![p].stale = lease]
      BY <1>1, <1>5, <3>2, <3>4 DEF Processes
    <3>5. CASE procs' = [procs EXCEPT ![p] = [Off EXCEPT !.pc = "open", !.token = tokens']]
      BY <1>1, <1>5, <3>5 DEF Off
    <3>6. CASE Leave(p)
      BY <1>1, <1>5, <3>2, <3>6 DEF Leave, Processes
    <3>7. CASE Start(p) \/ Link(p)
      BY <3>3, <3>4, <3>5, <3>7 DEF Start, Link
    <3>8. CASE \/ PublishClaim(p) \/ Reread(p) \/ ArchiveStale(p) \/ Open(p)
               \/ Transact(p) \/ Emit(p) \/ Finalize(p) \/ Sign(p) \/ CommitFiled(p)
               \/ Promote(p) \/ Capture(p) \/ Stop(p)
      BY <3>3, <3>8 DEF PublishClaim, Reread, ArchiveStale, Open, Transact, Emit, Finalize, Sign,
         CommitFiled, Promote, Capture, Stop
    <3> QED BY <2>3, <3>6, <3>7, <3>8
  <2>4. CASE Snapshot(p) \/ Retire(p) \/ UnlinkRetired(p) \/ PublishGeneration(p) \/ SealGeneration(p)
    <3>1. PICK pc : Goto(p, pc)
      BY <2>4 DEF Snapshot, Retire, UnlinkRetired, PublishGeneration, SealGeneration
    <3>2. procs[p].final /\ Closes(p) /\ procs'[p].pc = pc
      BY <1>3, <1>5, <3>1, Marks, Moves
    <3>3. Work(p)' = Work(p)
      BY <2>4, VolumesStay DEF Snapshot, Retire, UnlinkRetired, PublishGeneration, SealGeneration, outputVars
    <3>4. Finished(Work(p)) => Finished(Work(p))'
      BY <1>2, <3>3
    <3>5. CASE Snapshot(p)
      <4>1. Finished(Work(p))
        BY <3>2, <3>5 DEF Snapshot, At
      <4>2. CASE Goto(p, "release") \/ Goto(p, "retire")
        BY <1>2, <3>2, <3>4, <4>1, <4>2, Moves DEF Closing
      <4>3. CASE Goto(p, "copied") /\ \E prev : snaps' = Append(Cleaned(snaps), Generation(Work(p), prev))
        <5>1. PICK prev : snaps' = Append(Cleaned(snaps), Generation(Work(p), prev))
          BY <4>3
        <5>2. IsHistory(Cleaned(snaps))
          BY <1>1, CleanedHistory
        <5>3. /\ Len(snaps') = Len(Cleaned(snaps)) + 1 /\ Len(Cleaned(snaps)) \in Nat
              /\ snaps'[Len(snaps')] = Generation(Work(p), prev)
          BY <5>1, <5>2, Begins DEF IsHistory
        <5>4. snaps'[Len(snaps')].db = Work(p) /\ Len(snaps') > 0
          BY <5>3 DEF Generation
        <5>5. Finished(snaps[Len(snaps)].db)'
          BY <1>2, <4>1, <5>4
        <5>6. procs'[p].pc = "copied"
          BY <4>3, Moves
        <5> QED BY <1>2, <3>2, <5>4, <5>5, <5>6 DEF Closing
      <4> QED BY <3>5, <4>2, <4>3, Zenon DEF Snapshot
    <3>6. CASE Retire(p) \/ UnlinkRetired(p)
      <4>1. Finished(Work(p)) /\ procs'[p].pc \in {"unlink", "snapshot"}
        BY <3>2, <3>6, Moves DEF Retire, UnlinkRetired, At
      <4> QED BY <1>2, <3>2, <3>4, <4>1 DEF Closing
    <3>7. CASE PublishGeneration(p)
      <4>1. /\ procs'[p].pc = "published" /\ snaps' = [snaps EXCEPT ![Len(snaps)].stage = "manifest"]
            /\ Len(snaps) > 0 /\ Finished(snaps[Len(snaps)].db)
        BY <3>2, <3>7, Moves DEF PublishGeneration, At
      <4>2. Len(snaps') = Len(snaps) /\ Len(snaps) \in 1..Len(snaps) /\ \A g \in 1..Len(snaps) : snaps'[g].db = snaps[g].db
        BY <1>1, <4>1, MarkedStays
      <4>3. Finished(snaps[Len(snaps)].db)'
        BY <1>2, <4>1, <4>2
      <4> QED BY <1>2, <3>2, <4>1, <4>2, <4>3 DEF Closing
    <3>8. CASE SealGeneration(p)
      <4>1. procs'[p].pc = "release"
        BY <3>2, <3>8, Moves DEF SealGeneration
      <4> QED BY <1>2, <3>2, <4>1 DEF Closing
    <3> QED BY <2>4, <3>5, <3>6, <3>7, <3>8
  <2> QED BY <2>1, <2>2, <2>3, <2>4, Zenon DEF ProcessStep, Runs
<1> QED BY <1>4, <1>5 DEF ClosingSound

\* What was said of a complete generation remains true.
LEMMA CompletesStay ==
    ASSUME CompleteStays, job' = job, IsHistory(snaps)
    PROVE  \A g : /\ Complete(g) => Complete(g)' /\ snaps'[g].db = snaps[g].db /\ g \in Nat
                  /\ Concluded(g) => Concluded(g)'
                  /\ BoundTo(g) => BoundTo(g)'
<1>1. Grouped' = Grouped /\ \A db : Finished(db)' <=> Finished(db)
  BY JobStays, TablesStay
<1>2. ASSUME NEW g, Complete(g) PROVE Complete(g)' /\ snaps'[g].db = snaps[g].db /\ g \in Nat
  BY <1>2 DEF Complete, CompleteStays, IsHistory
<1>3. ASSUME NEW g, Concluded(g) PROVE Concluded(g)'
  <2>1. Complete(g)' /\ snaps'[g].db = snaps[g].db /\ Finished(snaps[g].db)
    BY <1>2, <1>3 DEF Concluded
  <2>2. Finished(snaps[g].db)'
    BY <1>1, <2>1
  <2> QED BY <2>1, <2>2 DEF Concluded
<1>4. ASSUME NEW g, BoundTo(g) PROVE BoundTo(g)'
  BY <1>1, <1>2, <1>4 DEF BoundTo
<1> QED BY <1>2, <1>3, <1>4

\* Where nothing is written, every generation stays.
LEMMA NothingStays == ASSUME UNCHANGED snaps PROVE CompleteStays
  BY DEF CompleteStays

\* What a launcher knows remains true.
LEMMA LaunchedStays ==
    ASSUME CompleteStays, job' = job, IsHistory(snaps), NEW l, Launched(l)
    PROVE  Launched(l)'
  BY CompletesStay DEF Launched

\* A launcher that stops keeps its files.
LEMMA LaunchersEnd ==
    ASSUME Launched(launcher)
    PROVE  /\ Launched(LauncherOff) /\ LauncherOff.reported = 0 /\ LauncherOff.result = launcher.result
           /\ \A pod : Launched([LauncherOff EXCEPT !.pc = "child", !.pod = pod, !.authority = TRUE])
           /\ \A c : Launched([LauncherOff EXCEPT !.completion = c])
           /\ \A c : Launched([launcher EXCEPT !.completion = c])
           /\ Launched([launcher EXCEPT !.pc = "receipt"])
           /\ Launched([launcher EXCEPT !.result = 0])
           /\ launcher.reported # 0 => /\ Launched([launcher EXCEPT !.pc = "result", !.pod = None])
                                       /\ Launched([launcher EXCEPT !.result = launcher.reported, !.pc = "receipt"])
<1>1. launcher = [f \in LauncherFields |-> launcher[f]]
  BY DEF Launched
<1>2. /\ LauncherOff = [f \in LauncherFields |-> LauncherOff[f]]
      /\ LauncherOff.pc = "off" /\ LauncherOff.reported = 0 /\ LauncherOff.result = launcher.result
  BY <1>1 DEF LauncherOff, LauncherFields
<1>3. Launched(LauncherOff)
  BY <1>2 DEF Launched
<1>4. ASSUME NEW pod PROVE Launched([LauncherOff EXCEPT !.pc = "child", !.pod = pod, !.authority = TRUE])
  BY <1>2 DEF Launched, LauncherFields
<1>5. ASSUME NEW c PROVE Launched([LauncherOff EXCEPT !.completion = c])
  BY <1>2 DEF Launched, LauncherFields
<1>6. ASSUME NEW c PROVE Launched([launcher EXCEPT !.completion = c])
  BY <1>1 DEF Launched, LauncherFields
<1>7. Launched([launcher EXCEPT !.pc = "receipt"]) /\ Launched([launcher EXCEPT !.result = 0])
  BY <1>1 DEF Launched, LauncherFields
<1>8. ASSUME launcher.reported # 0
      PROVE  /\ Launched([launcher EXCEPT !.pc = "result", !.pod = None])
             /\ Launched([launcher EXCEPT !.result = launcher.reported, !.pc = "receipt"])
  BY <1>1, <1>8 DEF Launched, LauncherFields
<1> QED BY <1>2, <1>3, <1>4, <1>5, <1>6, <1>7, <1>8

\* A process that seals the last snapshot of its run leaves a finished one.
LEMMA SealsFinished ==
    ASSUME IInv, ClosingSound, NEW p \in Pods, SealGeneration(p), procs[p].final
    PROVE  Concluded(Len(snaps))' /\ Len(snaps') = Len(snaps) /\ Len(snaps) # 0
<1>1. IsHistory(snaps) /\ Len(snaps) \in Nat /\ job' = job
  BY DEF IInv, VolumeTypeOK, IsHistory, SealGeneration
<1>2. Len(snaps) > 0 /\ Finished(snaps[Len(snaps)].db) /\ snaps' = [snaps EXCEPT ![Len(snaps)].stage = "complete"]
  BY DEF ClosingSound, SealGeneration, At
<1>3. /\ Len(snaps') = Len(snaps) /\ Len(snaps) \in 1..Len(snaps)
      /\ \A g \in 1..Len(snaps) : snaps'[g].db = snaps[g].db
      /\ snaps'[Len(snaps)].stage = "complete"
  BY <1>1, <1>2, MarkedStays
<1>4. Finished(snaps[Len(snaps)].db)'
  <2>1. \A db : Finished(db)' <=> Finished(db)
    BY <1>1, TablesStay
  <2> QED BY <1>2, <1>3, <2>1
<1> QED BY <1>2, <1>3, <1>4 DEF Concluded, Complete

\* The launcher reports and records finished databases.
LEMMA LauncherStep ==
    ASSUME IInv, ClosingSound, LauncherSound, CompleteStays, job' = job,
           \/ UNCHANGED launcher
           \/ WritesResult \/ WritesReceipt \/ Resumes \/ LauncherDies
           \/ \E p \in Pods : StartsChild(p) \/ StepsOf(p)
    PROVE  LauncherSound'
<1>1. IsHistory(snaps) /\ Launched(launcher)
  BY DEF IInv, VolumeTypeOK, LauncherSound
<1>2. ASSUME Launched(launcher') PROVE LauncherSound'
  BY <1>1, <1>2, LaunchedStays DEF LauncherSound
<1>3. CASE UNCHANGED launcher \/ Resumes \/ LauncherDies
  BY <1>1, <1>2, <1>3, LaunchersEnd DEF Resumes, LauncherDies
<1>4. CASE WritesResult
  BY <1>1, <1>2, <1>4, LaunchersEnd DEF WritesResult, LauncherAt, Launched
<1>5. CASE WritesReceipt
  BY <1>1, <1>2, <1>5, LaunchersEnd DEF WritesReceipt
<1>6. ASSUME NEW p \in Pods, StartsChild(p) PROVE LauncherSound'
  BY <1>1, <1>2, <1>6, LaunchersEnd DEF StartsChild
<1>7. ASSUME NEW p \in Pods, StepsOf(p) PROVE LauncherSound'
  <2>1. CASE launcher' = launcher \/ launcher' = LauncherOff
    BY <1>1, <1>2, <2>1, LaunchersEnd
  <2>2. CASE SealGeneration(p) /\ procs[p].final /\ launcher' = [launcher EXCEPT !.reported = Len(snaps)]
    <3>1. Concluded(Len(snaps))' /\ Len(snaps') = Len(snaps) /\ Len(snaps) # 0
      BY <2>2, SealsFinished
    <3>2. Launched(launcher)'
      <4>1. /\ launcher' = [f \in LauncherFields |-> launcher'[f]]
            /\ launcher'.reported = Len(snaps) /\ launcher'.pc = launcher.pc /\ launcher'.result = launcher.result
        BY <1>1, <2>2 DEF Launched, LauncherFields
      <4>2. launcher.result \notin {None, 0} => Concluded(launcher.result)'
        BY <1>1, <4>1, CompletesStay DEF Launched
      <4> QED BY <3>1, <4>1, <4>2 DEF Launched
    <3> QED BY <3>2 DEF LauncherSound
  <2>3. CASE launcher.reported # 0 /\ launcher' = [launcher EXCEPT !.pc = "result", !.pod = None]
    BY <1>1, <1>2, <2>3, LaunchersEnd
  <2> QED BY <1>7, <2>1, <2>2, <2>3, Zenon DEF StepsOf, Sees, Reports
<1> QED BY <1>3, <1>4, <1>5, <1>6, <1>7, Zenon

-----------------------------------------------------------------------------
\* Groups lie behind a cursor once it has passed their stage.
LEMMA PastGroups ==
    ASSUME SoundJob, NEW db, Curated(db)
    PROVE  Past(db, <<"groups">>) <=> db.at > Grouped
<1>1. /\ db.at \in Nat /\ Mapped \in Nat /\ Filled \in Nat /\ Grouped \in Nat /\ Grouped > 0
      /\ Grouped = Mapped + 11 /\ Filled >= Grouped
  BY Ordered
<1>2. ASSUME db.at > Grouped PROVE Past(db, <<"groups">>)
  <2>1. Stages[Grouped] = <<"groups">>
    BY StagePlaces, Zenon
  <2>2. Grouped \in 1..db.at - 1
    BY <1>1, <1>2
  <2> QED BY <2>1, <2>2 DEF Past
<1>3. ASSUME Past(db, <<"groups">>) PROVE db.at > Grouped
  <2>1. PICK i \in 1..db.at - 1 : Stages[i] = <<"groups">>
    BY <1>3 DEF Past
  <2>2. i \in Nat /\ i > 0 /\ i < db.at
    BY <1>1
  <2>3. ~(i > Len(Stages))
    <3> DEFINE n == Len(Stages)
    <3>1. n \in Nat /\ db.at <= n + 1
      BY StagesCounted DEF Curated, IsDatabase, Within
    <3> HIDE DEF n
    <3>2. ~(i > n)
      BY <1>1, <2>2, <3>1
    <3> QED BY <3>2 DEF n
  <2> DEFINE x == [at |-> i]
  <2>4. x.at \in Positive /\ x.at = i /\ Stage(x) = <<"groups">> /\ ~Finished(x)
    BY <2>1, <2>2, <2>3 DEF Positive, Stage, Finished
  <2> HIDE DEF x
  <2>5. Standing(x)
    BY <2>4, EveryStage
  <2>6. x.at = Grouped \/ x.at > Filled
    <3>1. \A k \in 1..Len(QuotaStages) : Stage(x) # QuotaStages[k]
      <4>1. ASSUME NEW k \in 1..Len(QuotaStages) PROVE QuotaStages[k][1] = "quota"
        <5>1. PICK s \in ToSet(SplitOrder), c \in ToSet(Categories) : QuotaStages[k] = <<"quota", s, c>>
          BY OneStageEach
        <5> QED BY <5>1
      <4> QED BY <2>4, <4>1
    <3> DEFINE y == Stage(x)
    <3>2. y = <<"groups">>
      BY <2>4
    <3>3. Standing(x) /\ y = Stage(x)
      BY <2>5
    <3> HIDE DEF y
    <3>4. /\ \A k : y # <<"inventory", k>> /\ y # <<"phase", k>>
          /\ y # <<"near_map_load">> /\ y # <<"near_map_apply">> /\ y # <<"benchmark_content_clusters">>
          /\ y # <<"benchmark_final_clusters">> /\ y # <<"benchmark_exact">> /\ y # <<"benchmark_final">>
          /\ y # <<"exact_choice">> /\ y # <<"final_choice">> /\ y # <<"canonical_map">>
          /\ y # <<"residual_exact">> /\ y # <<"residual_final">> /\ y # <<"ready">>
      BY <3>2
    <3> QED BY <3>1, <3>3, <3>4, Zenon DEF Standing
  <2>7. x.at \in Nat /\ x.at = i
    BY <2>2, <2>4
  <2> QED BY <1>1, <2>2, <2>6, <2>7
<1> QED BY <1>2, <1>3

\* Behind the groups a database offers what the reference chooses, each document
\* in the split of its group.
LEMMA OffersChosen ==
    ASSUME SoundJob, NEW db, Curated(db), db.at > Grouped
    PROVE  /\ Clean(db) = Chosen /\ (Handoff => db.phase = "canonicalized")
           /\ \A s, c : QuotaCandidates(db, s, c) = Line(s, c)
           /\ SupplyTotals(db) = Supply /\ (CoversEveryCell(db) => Covered)
<1>1. db.at > Mapped + 10
  BY Ordered
<1>2. Clean(db) = Chosen /\ db.groups = {<<d.group, SplitOf[d.group]>> : d \in Chosen}
  BY <1>1, ReferenceTables DEF Curated, SelectedSound
<1>3. Handoff => db.phase = "canonicalized"
  BY <1>1 DEF Curated, IsDatabase, Canonicalized
<1>4. ASSUME NEW s, NEW c PROVE QuotaCandidates(db, s, c) = Line(s, c)
  <2>1. \A d \in Chosen : <<d.group, s>> \in db.groups <=> SplitOf[d.group] = s
    BY <1>2
  <2> QED BY <1>2, <2>1 DEF QuotaCandidates, Line
<1>5. \A s, c : SupplyRow(db, s, c) = Summary(Line(s, c), TokensOf(Line(s, c)), 0)
  BY <1>4 DEF SupplyRow
<1>6. SupplyTotals(db) = Supply
  BY <1>5 DEF SupplyTotals, Supply
<1>7. CoversEveryCell(db) => Covered
  BY <1>4 DEF CoversEveryCell, Covered
<1> QED BY <1>2, <1>3, <1>4, <1>6, <1>7

\* A one-to-one image has as many members.
LEMMA ImageCounted ==
    ASSUME NEW S, IsFiniteSet(S), NEW f, \A x, y \in S : f[x] = f[y] => x = y
    PROVE  IsFiniteSet({f[x] : x \in S}) /\ Cardinality({f[x] : x \in S}) = Cardinality(S)
<1> DEFINE T == {f[x] : x \in S}
           g == [x \in S |-> f[x]]
<1>1. g \in Bijection(S, T)
  BY DEF Bijection, Injection, Surjection, IsInjective
<1> HIDE DEF g, T
<1>2. IsFiniteSet(T) /\ Cardinality(T) = Cardinality(S)
  BY <1>1, FS_Bijection DEF ExistsBijection
<1> QED BY <1>2 DEF T

\* Numbers in ascending order, to the greatest.
LEMMA AscendingIs ==
    ASSUME NEW S, S \subseteq Nat, IsFiniteSet(S), NEW g \in S, \A h \in S : h <= g
    PROVE  LET a == Ascending(S)
           IN  a # <<>> /\ Last(a) = g /\ \A i \in 1..Len(a) - 1 : a[i] < a[i + 1]
<1> DEFINE n == Cardinality(S)
           Below(x) == {y \in S : y < x}
           rank(x) == Cardinality(Below(x))
           a == Ascending(S)
<1>1. n \in Nat
  BY FS_CardinalityType
<1>2. \A x \in S : IsFiniteSet(Below(x)) /\ rank(x) \in Nat /\ rank(x) < n
  <2>1. ASSUME NEW x \in S PROVE IsFiniteSet(Below(x)) /\ rank(x) \in Nat /\ rank(x) < n
    <3>1. Below(x) \in SUBSET S /\ x \notin Below(x)
      OBVIOUS
    <3> HIDE DEF Below
    <3>2. IsFiniteSet(Below(x)) /\ rank(x) <= n /\ (rank(x) = n => Below(x) = S)
      BY <3>1, FS_Subset
    <3>3. rank(x) \in Nat
      BY <3>2, FS_CardinalityType
    <3> QED BY <1>1, <3>1, <3>2, <3>3
  <2> QED BY <2>1
<1>3. ASSUME NEW x \in S, NEW y \in S, x < y PROVE rank(x) < rank(y)
  <2>1. Below(x) \in SUBSET Below(y) /\ x \in Below(y) /\ x \notin Below(x)
    <3>1. \A z \in S : z < x => z < y
      BY <1>3
    <3>2. ~(x < x)
      OBVIOUS
    <3> QED BY <1>3, <3>1, <3>2
  <2> HIDE DEF Below
  <2>2. rank(x) <= rank(y) /\ (rank(x) = rank(y) => Below(x) = Below(y))
    BY <1>2, <2>1, FS_Subset
  <2>3. rank(x) \in Nat /\ rank(y) \in Nat
    BY <1>2
  <2> QED BY <2>1, <2>2, <2>3
<1>4. \A x, y \in S : rank(x) = rank(y) => x = y
  <2> HIDE DEF Below, n
  <2>1. ASSUME NEW x \in S, NEW y \in S, rank(x) = rank(y), x # y PROVE FALSE
    <3>1. x < y \/ y < x
      BY <2>1
    <3>2. rank(x) \in Nat /\ rank(y) \in Nat
      BY <1>2
    <3> HIDE DEF rank
    <3> QED BY <1>3, <2>1, <3>1, <3>2
  <2> QED BY <2>1
<1> DEFINE f == [x \in S |-> rank(x)]
           R == {f[x] : x \in S}
<1> HIDE DEF Below, n, rank
<1>5. R = 0..n - 1
  <2>1. \A x, y \in S : f[x] = f[y] => x = y
    BY <1>4
  <2> HIDE DEF f
  <2>2. IsFiniteSet(R) /\ Cardinality(R) = n
    BY <2>1, ImageCounted DEF n
  <2> USE DEF f
  <2>3. R \subseteq 0..n - 1
    BY <1>1, <1>2
  <2>4. IsFiniteSet(0..n - 1) /\ Cardinality(0..n - 1) = n
    <3>1. 0 \in Int /\ n - 1 \in Int /\ (0 > n - 1 => n = 0) /\ n - 1 - 0 + 1 = n
      BY <1>1
    <3>2. Cardinality(0..n - 1) = IF 0 > n - 1 THEN 0 ELSE n - 1 - 0 + 1
      BY <3>1, FS_Interval
    <3>3. IsFiniteSet(0..n - 1)
      BY <3>1, FS_Interval
    <3> QED BY <3>1, <3>2, <3>3
  <2> HIDE DEF R
  <2> QED BY <2>2, <2>3, <2>4, FS_Subset
<1>13. R = {rank(x) : x \in S}
  OBVIOUS
<1> HIDE DEF f, R
<1>6. DOMAIN a = 1..n /\ \A i \in 1..n : a[i] = CHOOSE x \in S : rank(x) = i - 1
  BY DEF Ascending, n, rank, Below
<1> HIDE DEF a
<1>7. Len(a) = n
  BY <1>1, <1>6
<1>8. \A i \in 1..n : a[i] \in S /\ rank(a[i]) = i - 1
  <2>1. ASSUME NEW i \in 1..n PROVE a[i] \in S /\ rank(a[i]) = i - 1
    <3>1. i - 1 \in 0..n - 1
      BY <1>1
    <3>2. \E x \in S : rank(x) = i - 1
      BY <1>5, <1>13, <3>1
    <3> QED BY <1>6, <3>2
  <2> QED BY <2>1
<1>9. ASSUME NEW i \in 1..n - 1 PROVE a[i] < a[i + 1]
  <2>1. i \in 1..n /\ i + 1 \in 1..n /\ i \in Nat
    BY <1>1
  <2>2. /\ a[i] \in S /\ a[i + 1] \in S /\ a[i] \in Nat /\ a[i + 1] \in Nat
        /\ rank(a[i]) = i - 1 /\ rank(a[i + 1]) = i + 1 - 1
    <3>1. /\ a[i] \in S /\ rank(a[i]) = i - 1
          /\ a[i + 1] \in S /\ rank(a[i + 1]) = i + 1 - 1
      BY <1>8, <2>1
    <3> QED BY <3>1
  <2>3. ~(rank(a[i + 1]) < rank(a[i])) /\ rank(a[i + 1]) # rank(a[i])
    BY <2>1, <2>2
  <2>4. ~(a[i + 1] < a[i]) /\ a[i + 1] # a[i]
    BY <1>3, <2>2, <2>3
  <2> QED BY <2>2, <2>4
<1>10. n > 0
  <2>1. rank(g) \in Nat /\ rank(g) < n
    BY <1>2
  <2> QED BY <1>1, <2>1
<1>11. a[n] = g
  <2>1. n \in 1..n /\ a[n] \in S /\ a[n] <= g /\ rank(a[n]) = n - 1
    <3>1. n \in 1..n
      BY <1>1, <1>10
    <3> QED BY <1>8, <3>1
  <2>2. a[n] \in Nat /\ g \in Nat /\ rank(g) \in Nat /\ rank(g) < n
    BY <1>2, <2>1
  <2>3. ~(a[n] < g)
    BY <1>1, <1>3, <2>1, <2>2
  <2> QED BY <2>1, <2>2, <2>3
<1>12. a # <<>> /\ Last(a) = g
  BY <1>1, <1>7, <1>10, <1>11 DEF Last
<1> QED BY <1>1, <1>7, <1>9, <1>12 DEF a

\* What a publication should hold does not change while the job does not.
LEMMA SupplyStays ==
    ASSUME job' = job
    PROVE  /\ Supply' = Supply /\ (Covered' <=> Covered) /\ \A n : RefBitmap(n)' = RefBitmap(n)
           /\ bitmaps' = bitmaps => \A c : CheckpointIs(c)' <=> CheckpointIs(c)
           /\ bitmaps' = bitmaps /\ checkpoint' = checkpoint => \A m : SupplyIs(m)' <=> SupplyIs(m)
<1>1. Chosen' = Chosen
  BY JobStays
<1>2. \A s, c : Line(s, c)' = Line(s, c)
  BY <1>1 DEF Line
<1>3. Supply' = Supply /\ (Covered' <=> Covered)
  BY <1>2 DEF Supply, Covered
<1>4. \A n : RefBitmap(n)' = RefBitmap(n)
  BY <1>1 DEF RefBitmap
<1>5. bitmaps' = bitmaps => \A c : CheckpointIs(c)' <=> CheckpointIs(c)
  BY <1>4 DEF CheckpointIs
<1>6. bitmaps' = bitmaps /\ checkpoint' = checkpoint => \A m : SupplyIs(m)' <=> SupplyIs(m)
  BY <1>3, <1>5 DEF SupplyIs
<1> QED BY <1>3, <1>4, <1>5, <1>6

\* A publisher that is left alone, or one that ends.
LEMMA PublisherStays ==
    ASSUME IInv, PublisherSound, CompleteStays, job' = job, UNCHANGED <<checkpoint, bitmaps, published>>,
           \/ UNCHANGED publisher
           \/ publisher' = [pc |-> "off", bound |-> 0]
           \/ publisher.pc # "off" /\ \E pc \in {"done", "final"} : PublisherGoto(pc)
    PROVE  PublisherSound'
<1>1. /\ Supply' = Supply /\ (Covered' <=> Covered) /\ \A n : RefBitmap(n)' = RefBitmap(n)
      /\ \A c : CheckpointIs(c)' <=> CheckpointIs(c)
      /\ \A m : SupplyIs(m)' <=> SupplyIs(m)
  BY SupplyStays
<1>2. \A g : BoundTo(g) => BoundTo(g)'
  BY CompletesStay DEF IInv, VolumeTypeOK
<1>3. Missing' = Missing
  BY DEF Missing, Committed
<1>4. /\ bitmaps' = [n \in DOMAIN job'.reports |-> bitmaps'[n]]
      /\ \A n \in DOMAIN job'.reports : bitmaps'[n] = None \/ bitmaps'[n] = RefBitmap(n)'
  BY <1>1 DEF PublisherSound
<1>5. checkpoint' = None \/ CheckpointIs(checkpoint)'
  BY <1>1 DEF PublisherSound
<1>6. published' = None \/ SupplyIs(published)'
  BY <1>1 DEF PublisherSound
<1>7. CASE UNCHANGED publisher
  <2>1. publisher'.pc # "off" => BoundTo(publisher.bound)' /\ Covered' /\ publisher'.bound \in Nat
    BY <1>1, <1>2, <1>7 DEF PublisherSound
  <2>2. publisher'.pc \in {"work", "commit"} => CheckpointIs(checkpoint)'
    BY <1>1, <1>7 DEF PublisherSound
  <2>3. publisher'.pc = "commit" => Missing' # {} /\ bitmaps'[Min(Missing')] = RefBitmap(Min(Missing))'
    BY <1>1, <1>3, <1>7 DEF PublisherSound
  <2>4. publisher'.pc = "sign" => SupplyIs(published)'
    BY <1>1, <1>7 DEF PublisherSound
  <2>5. publisher' = [f \in {"pc", "bound"} |-> publisher'[f]]
    BY <1>7 DEF PublisherSound
  <2> QED BY <1>4, <1>5, <1>6, <2>1, <2>2, <2>3, <2>4, <2>5 DEF PublisherSound
<1>8. CASE publisher' = [pc |-> "off", bound |-> 0]
  BY <1>4, <1>5, <1>6, <1>8 DEF PublisherSound
<1>9. CASE publisher.pc # "off" /\ \E pc \in {"done", "final"} : PublisherGoto(pc)
  <2>1. /\ publisher' = [f \in {"pc", "bound"} |-> publisher'[f]]
        /\ publisher'.pc \in {"done", "final"} /\ publisher'.bound = publisher.bound
    BY <1>9 DEF PublisherGoto, PublisherSound
  <2>2. BoundTo(publisher.bound)' /\ Covered' /\ publisher'.bound \in Nat
    BY <1>1, <1>2, <1>9, <2>1 DEF PublisherSound
  <2> QED BY <1>4, <1>5, <1>6, <2>1, <2>2 DEF PublisherSound
<1> QED BY <1>7, <1>8, <1>9

\* What a bound generation offers, and what a manifest says of it.
LEMMA BoundSource ==
    ASSUME IInv, BooksSound, Handoff, NEW g, BoundTo(g)
    PROVE  /\ g \in Nat /\ SoundJob /\ Clean(snaps[g].db) = Chosen /\ SupplyTotals(snaps[g].db) = Supply
           /\ CoversEveryCell(snaps[g].db) => Covered
           /\ EvidenceIs(SourceEvidence(g), g)
<1>1. Len(snaps) \in Nat /\ DOMAIN snaps = 1..Len(snaps) /\ g \in 1..Len(snaps)
  BY DEF IInv, VolumeTypeOK, IsHistory, BoundTo, Complete
<1>2. SoundJob /\ Curated(snaps[g].db) /\ snaps[g].db.at > Grouped
  BY <1>1 DEF BooksSound, VolumesSound, HistorySound, BoundTo
<1>3. /\ Clean(snaps[g].db) = Chosen /\ SupplyTotals(snaps[g].db) = Supply
      /\ CoversEveryCell(snaps[g].db) => Covered
      /\ snaps[g].db.phase = "canonicalized" /\ Past(snaps[g].db, <<"groups">>)
  BY <1>2, OffersChosen, PastGroups
<1> DEFINE S == {h \in Manifests : h <= g}
<1>4. S \subseteq Nat /\ IsFiniteSet(S) /\ g \in S /\ \A h \in S : h <= g
  <2>1. S \subseteq 1..Len(snaps) /\ IsFiniteSet(1..Len(snaps))
    BY <1>1, FS_Interval DEF Manifests
  <2>2. IsFiniteSet(S)
    <3> HIDE DEF S
    <3> QED BY <2>1, FS_Subset
  <2>3. g \in Manifests /\ g <= g
    BY <1>1 DEF Manifests, Published, BoundTo, Complete
  <2> QED BY <1>1, <2>1, <2>2, <2>3
<1> HIDE DEF S
<1> DEFINE e == SourceEvidence(g)
<1>5. e.chain = Ascending(S) /\ e.phase = snaps[g].db.phase /\ e.grouped = Past(snaps[g].db, <<"groups">>)
  BY DEF SourceEvidence, S
<1> HIDE DEF e
<1>6. /\ e.chain # <<>> /\ Last(e.chain) = g
      /\ \A i \in 1..Len(e.chain) - 1 : e.chain[i] < e.chain[i + 1]
  BY <1>4, <1>5, AscendingIs
<1>7. EvidenceIs(e, g)
  BY <1>3, <1>5, <1>6 DEF EvidenceIs
<1> QED BY <1>1, <1>2, <1>3, <1>7 DEF e

\* A publisher binds a complete generation with groups.
LEMMA BindStep ==
    ASSUME IInv, BooksSound, Handoff, PublisherSound, NEW g, Bind(g), UNCHANGED <<job, snaps>>
    PROVE  PublisherSound'
<1>1. publisher' = [pc |-> "resume", bound |-> g] /\ UNCHANGED <<checkpoint, bitmaps, published>> /\ Bindable(g)
  BY DEF Bind
<1>2. Len(snaps) \in Nat /\ DOMAIN snaps = 1..Len(snaps)
  BY DEF IInv, VolumeTypeOK, IsHistory
<1>3. g \in 1..Len(snaps) /\ snaps[g].stage = "complete" /\ Past(snaps[g].db, <<"groups">>) /\ CoversEveryCell(snaps[g].db)
  BY <1>1, <1>2 DEF Bindable, BindableAnyPhase, ChainTo, Manifests, Continues
<1>4. SoundJob /\ Curated(snaps[g].db)
  BY <1>3 DEF BooksSound, VolumesSound, HistorySound
<1>5. BoundTo(g)
  BY <1>3, <1>4, PastGroups DEF BoundTo, Complete
<1>6. Covered /\ g \in Nat
  BY <1>3, <1>5, BoundSource
<1>7. /\ Supply' = Supply /\ (Covered' <=> Covered) /\ \A n : RefBitmap(n)' = RefBitmap(n)
      /\ \A c : CheckpointIs(c)' <=> CheckpointIs(c)
      /\ \A m : SupplyIs(m)' <=> SupplyIs(m)
  BY <1>1, SupplyStays
<1>8. BoundTo(publisher.bound)'
  <2>1. \A h : BoundTo(h) => BoundTo(h)'
    BY NothingStays, CompletesStay DEF IInv, VolumeTypeOK
  <2> QED BY <1>1, <1>5, <2>1
<1>9. /\ bitmaps' = [n \in DOMAIN job'.reports |-> bitmaps'[n]]
      /\ \A n \in DOMAIN job'.reports : bitmaps'[n] = None \/ bitmaps'[n] = RefBitmap(n)'
      /\ checkpoint' = None \/ CheckpointIs(checkpoint)'
      /\ published' = None \/ SupplyIs(published)'
  BY <1>1, <1>7 DEF PublisherSound
<1> QED BY <1>1, <1>6, <1>7, <1>8, <1>9 DEF PublisherSound

\* A checkpoint that begins is empty.
LEMMA ResumeStep ==
    ASSUME IInv, PublisherSound, Resume, UNCHANGED <<job, snaps>>
    PROVE  PublisherSound'
<1> DEFINE first == [bound |-> publisher.bound, kept |-> <<>>]
<1>1. /\ publisher = [f \in {"pc", "bound"} |-> publisher[f]] /\ publisher.pc = "resume"
      /\ BoundTo(publisher.bound) /\ Covered /\ publisher.bound \in Nat
  BY DEF PublisherSound, Resume, PublisherAt
<1>2. bitmaps' = bitmaps /\ CompleteStays
  BY NothingStays DEF Resume
<1>3. CASE Exit /\ UNCHANGED <<checkpoint, published>>
  BY <1>2, <1>3, PublisherStays DEF Exit
<1>4. CASE /\ checkpoint' = IF checkpoint = None THEN first ELSE checkpoint
           /\ \/ published # None /\ published' = Resigned /\ PublisherGoto("final")
              \/ published = None /\ PublisherGoto("work") /\ UNCHANGED published
  <2>1. CheckpointIs(first)
    <3>1. first \in [bound : Nat, kept : Seq(Nat)]
      BY <1>1
    <3>2. first # None
      BY <3>1, PublisherAssumption
    <3>3. DOMAIN first.kept = {}
      OBVIOUS
    <3> HIDE DEF first
    <3> QED BY <3>1, <3>2, <3>3 DEF CheckpointIs
  <2>2. checkpoint # None => CheckpointIs(checkpoint)
    BY DEF PublisherSound
  <2>3. CheckpointIs(checkpoint')
    BY <1>4, <2>1, <2>2
  <2>4. published # None => /\ SupplyIs(published) /\ checkpoint # None /\ checkpoint' = checkpoint
    BY <1>4 DEF PublisherSound, SupplyIs, CheckpointIs
  <2>5. published # None => SupplyIs(Resigned)
    BY <2>4 DEF SupplyIs, Resigned
  <2>6. published' # None => published # None /\ SupplyIs(published') /\ checkpoint' = checkpoint
    BY <1>4, <2>4, <2>5
  <2>7. /\ Supply' = Supply /\ (Covered' <=> Covered) /\ \A n : RefBitmap(n)' = RefBitmap(n)
        /\ \A c : CheckpointIs(c)' <=> CheckpointIs(c)
        /\ checkpoint' = checkpoint => \A m : SupplyIs(m)' <=> SupplyIs(m)
    BY <1>2, SupplyStays
  <2>8. CheckpointIs(checkpoint)'
    BY <2>3, <2>7
  <2>9. published' = None \/ SupplyIs(published)'
    BY <2>6, <2>7
  <2>10. /\ publisher' = [f \in {"pc", "bound"} |-> publisher'[f]]
         /\ publisher'.pc \in {"work", "final"} /\ publisher'.bound = publisher.bound
    BY <1>1, <1>4 DEF PublisherGoto
  <2>11. BoundTo(publisher.bound)' /\ Covered' /\ publisher'.bound \in Nat
    <3>1. \A g : BoundTo(g) => BoundTo(g)'
      BY <1>2, CompletesStay DEF IInv, VolumeTypeOK
    <3> QED BY <1>1, <2>7, <2>10, <3>1
  <2>12. /\ bitmaps' = [n \in DOMAIN job'.reports |-> bitmaps'[n]]
         /\ \A n \in DOMAIN job'.reports : bitmaps'[n] = None \/ bitmaps'[n] = RefBitmap(n)'
    BY <1>2, <2>7 DEF PublisherSound
  <2> QED BY <2>8, <2>9, <2>10, <2>11, <2>12 DEF PublisherSound
<1> QED BY <1>3, <1>4 DEF Resume, Poison

\* The archives without a bitmap in the checkpoint, and the first of them.
LEMMA MissingIs ==
    ASSUME SoundJob, CheckpointIs(checkpoint), Missing # {}
    PROVE  /\ Len(checkpoint.kept) \in Nat /\ Committed = 1..Len(checkpoint.kept)
           /\ Min(Missing) = Len(checkpoint.kept) + 1 /\ Min(Missing) \in Missing
           /\ Min(Missing) \in DOMAIN job.reports
<1> DEFINE k == Len(checkpoint.kept)
           r == Len(job.reports)
<1>1. k \in Nat /\ Committed = 1..k
  BY DEF CheckpointIs, Committed
<1>2. r \in Nat /\ DOMAIN job.reports = 1..r
  BY StagePlaces, Zenon
<1> HIDE DEF k, r
<1>3. Committed \subseteq DOMAIN job.reports
  BY DEF CheckpointIs, Committed
<1>4. Missing = (1..r) \ (1..k)
  BY <1>1, <1>2 DEF Missing
<1>5. k + 1 \in Missing /\ \A n \in Missing : k + 1 <= n
  BY <1>1, <1>2, <1>4
<1>6. Missing \subseteq Nat
  BY <1>2, <1>4
<1>7. Min(Missing) = k + 1
  <2>1. Min(Missing) = CHOOSE x \in Missing : \A y \in Missing : x <= y
    BY DEF Min
  <2>2. \A x \in Missing : (\A y \in Missing : x <= y) => x = k + 1
    <3>1. ASSUME NEW x \in Missing, \A y \in Missing : x <= y PROVE x = k + 1
      BY <1>1, <1>5, <1>6, <3>1
    <3> QED BY <3>1
  <2> QED BY <1>5, <2>1, <2>2
<1> QED BY <1>1, <1>5, <1>7 DEF k, Missing

\* The bitmap of an archive is the one the choice gives.
LEMMA WriteBitmapStep ==
    ASSUME IInv, BooksSound, Handoff, PublisherSound, WriteBitmap, UNCHANGED <<job, snaps>>
    PROVE  PublisherSound'
<1> DEFINE n == Min(Missing)
<1>1. /\ publisher = [f \in {"pc", "bound"} |-> publisher[f]] /\ publisher.pc = "work"
      /\ BoundTo(publisher.bound) /\ Covered /\ publisher.bound \in Nat
      /\ CheckpointIs(checkpoint) /\ Missing # {}
      /\ bitmaps' = [bitmaps EXCEPT ![n] = Bitmap(n)] /\ PublisherGoto("commit")
      /\ UNCHANGED <<checkpoint, published>> /\ bitmaps = [m \in DOMAIN job.reports |-> bitmaps[m]]
  BY DEF PublisherSound, WriteBitmap, PublisherAt
<1>2. SoundJob /\ Clean(Source) = Chosen
  BY <1>1, BoundSource DEF Source
<1>3. n \in DOMAIN job.reports /\ n \in Missing
  BY <1>1, <1>2, MissingIs
<1>4. Bitmap(n) = RefBitmap(n)
  BY <1>2 DEF Bitmap, RefBitmap
<1>5. n \notin Committed /\ Missing' = Missing
  BY <1>1, <1>3 DEF Missing, Committed
<1> HIDE DEF n
<1>6. /\ (Covered' <=> Covered) /\ \A m : RefBitmap(m)' = RefBitmap(m)
  BY SupplyStays
<1>7. /\ bitmaps' = [m \in DOMAIN job'.reports |-> bitmaps'[m]] /\ bitmaps'[n] = RefBitmap(n)
      /\ \A m \in DOMAIN job.reports : m # n => bitmaps'[m] = bitmaps[m]
  BY <1>1, <1>3, <1>4
<1>8. \A m \in DOMAIN job'.reports : bitmaps'[m] = None \/ bitmaps'[m] = RefBitmap(m)'
  BY <1>6, <1>7 DEF PublisherSound
<1>9. CheckpointIs(checkpoint)'
  BY <1>1, <1>5, <1>6, <1>7 DEF CheckpointIs, Committed
<1>10. published' = None
  BY <1>1 DEF PublisherSound, SupplyIs, Missing, Committed
<1>11. /\ publisher' = [f \in {"pc", "bound"} |-> publisher'[f]]
       /\ publisher'.pc = "commit" /\ publisher'.bound = publisher.bound
  BY <1>1 DEF PublisherGoto
<1>12. BoundTo(publisher.bound)' /\ Covered' /\ publisher'.bound \in Nat
  <2>1. \A g : BoundTo(g) => BoundTo(g)'
    BY NothingStays, CompletesStay DEF IInv, VolumeTypeOK
  <2> QED BY <1>1, <1>6, <1>11, <2>1
<1>13. Missing' # {} /\ bitmaps'[Min(Missing')] = RefBitmap(Min(Missing))'
  BY <1>1, <1>5, <1>6, <1>7 DEF n
<1> QED BY <1>7, <1>8, <1>9, <1>10, <1>11, <1>12, <1>13 DEF PublisherSound

\* What a bitmap keeps is a number.
LEMMA KeptCounted ==
    ASSUME SoundJob, NEW n \in DOMAIN job.reports
    PROVE  KeptIn(RefBitmap(n)) \in Nat
<1>1. job.reports[n] \in Seq(Document)
  BY LenProperties DEF SoundJob
<1>2. Len(job.reports[n]) \in Nat /\ DOMAIN job.reports[n] = 1..Len(job.reports[n])
  BY <1>1, LenProperties
<1>3. IsFiniteSet(DOMAIN job.reports[n])
  BY <1>2, FS_Interval
<1>4. DOMAIN RefBitmap(n) = DOMAIN job.reports[n]
  BY DEF RefBitmap
<1>5. {k \in DOMAIN RefBitmap(n) : RefBitmap(n)[k]} \in SUBSET (DOMAIN job.reports[n])
  BY <1>4
<1> QED BY <1>3, <1>5, FS_Subset, FS_CardinalityType DEF KeptIn

\* The checkpoint takes in the bitmap that was written for it.
LEMMA CommitBitmapStep ==
    ASSUME IInv, BooksSound, PublisherSound, CommitBitmap, UNCHANGED <<job, snaps>>
    PROVE  PublisherSound'
<1> DEFINE n == Min(Missing)
           k == KeptIn(bitmaps[n])
<1>1. /\ publisher = [f \in {"pc", "bound"} |-> publisher[f]] /\ publisher.pc = "commit"
      /\ BoundTo(publisher.bound) /\ Covered /\ publisher.bound \in Nat
      /\ CheckpointIs(checkpoint) /\ Missing # {} /\ bitmaps[n] = RefBitmap(n)
      /\ checkpoint' = [checkpoint EXCEPT !.kept = Append(@, k)] /\ PublisherGoto("work")
      /\ UNCHANGED <<bitmaps, published>> /\ bitmaps = [m \in DOMAIN job.reports |-> bitmaps[m]]
  BY DEF PublisherSound, CommitBitmap, PublisherAt
<1>2. SoundJob
  BY DEF BooksSound, VolumesSound
<1>3. /\ n \in DOMAIN job.reports /\ Len(checkpoint.kept) \in Nat /\ n = Len(checkpoint.kept) + 1
      /\ DOMAIN checkpoint.kept = 1..Len(checkpoint.kept)
  BY <1>1, <1>2, MissingIs DEF Committed
<1>4. k = KeptIn(RefBitmap(n)) /\ k \in Nat
  BY <1>1, <1>2, <1>3, KeptCounted
<1> HIDE DEF n, k
<1>5. /\ (Covered' <=> Covered) /\ \A m : RefBitmap(m)' = RefBitmap(m)
      /\ \A c : CheckpointIs(c)' <=> CheckpointIs(c)
  BY <1>1, SupplyStays
<1>6. CheckpointIs(checkpoint')
  <2> DEFINE c == checkpoint'
             s == checkpoint.kept
  <2>1. /\ checkpoint \in [bound : Nat, kept : Seq(Nat)] /\ s \in Seq(Nat)
        /\ \A m \in DOMAIN s : /\ m \in DOMAIN job.reports /\ bitmaps[m] = RefBitmap(m)
                               /\ s[m] = KeptIn(RefBitmap(m))
        /\ publisher.bound \in Nat
    BY <1>1 DEF CheckpointIs
  <2>2. /\ Append(s, k) \in Seq(Nat) /\ DOMAIN Append(s, k) = 1..n /\ Append(s, k)[n] = k
        /\ \A m \in 1..n : m # n => m \in DOMAIN s /\ Append(s, k)[m] = s[m]
    BY <1>3, <1>4, <2>1
  <2>3. c \in [bound : Nat, kept : Seq(Nat)] /\ c.kept = Append(s, k)
    BY <1>1, <2>1, <2>2
  <2> HIDE DEF c, s
  <2>4. ASSUME NEW m \in DOMAIN c.kept
        PROVE  m \in DOMAIN job.reports /\ bitmaps[m] = RefBitmap(m) /\ c.kept[m] = KeptIn(RefBitmap(m))
    <3>1. CASE m = n
      BY <1>1, <1>3, <1>4, <2>2, <2>3, <3>1 DEF n
    <3>2. CASE m # n
      BY <2>1, <2>2, <2>3, <3>2
    <3> QED BY <3>1, <3>2
  <2> QED BY <2>3, <2>4, PublisherAssumption DEF CheckpointIs, c
<1>7. CheckpointIs(checkpoint)'
  BY <1>5, <1>6
<1>8. published' = None
  BY <1>1 DEF PublisherSound, SupplyIs, Missing, Committed
<1>9. /\ publisher' = [f \in {"pc", "bound"} |-> publisher'[f]]
      /\ publisher'.pc = "work" /\ publisher'.bound = publisher.bound
  BY <1>1 DEF PublisherGoto
<1>10. BoundTo(publisher.bound)' /\ Covered' /\ publisher'.bound \in Nat
  <2>1. \A g : BoundTo(g) => BoundTo(g)'
    BY NothingStays, CompletesStay DEF IInv, VolumeTypeOK
  <2> QED BY <1>1, <1>5, <1>9, <2>1
<1>11. /\ bitmaps' = [m \in DOMAIN job'.reports |-> bitmaps'[m]]
       /\ \A m \in DOMAIN job'.reports : bitmaps'[m] = None \/ bitmaps'[m] = RefBitmap(m)'
  BY <1>1, <1>5 DEF PublisherSound
<1> QED BY <1>7, <1>8, <1>9, <1>10, <1>11 DEF PublisherSound

\* The manifest says what the bound generation offers.
LEMMA PublishManifestStep ==
    ASSUME IInv, BooksSound, Handoff, PublisherSound, PublishManifest, UNCHANGED <<job, snaps>>
    PROVE  PublisherSound'
<1>1. /\ publisher = [f \in {"pc", "bound"} |-> publisher[f]] /\ publisher.pc = "work"
      /\ BoundTo(publisher.bound) /\ Covered /\ publisher.bound \in Nat
      /\ CheckpointIs(checkpoint) /\ Missing = {} /\ UNCHANGED <<checkpoint, bitmaps>>
  BY DEF PublisherSound, PublishManifest, PublisherAt
<1>2. CASE Exit /\ UNCHANGED published
  BY <1>1, <1>2, NothingStays, PublisherStays DEF Exit
<1>3. CASE published' = ManifestOf(publisher.bound) /\ PublisherGoto("sign")
  <2> DEFINE m == ManifestOf(publisher.bound)
  <2>1. SupplyTotals(snaps[publisher.bound].db) = Supply /\ EvidenceIs(SourceEvidence(publisher.bound), publisher.bound)
    BY <1>1, BoundSource
  <2>2. /\ m = [f \in {"bound", "source", "totals", "kept", "signed"} |-> m[f]]
        /\ m.totals = SupplyTotals(snaps[publisher.bound].db) /\ m.bound = publisher.bound
        /\ m.source = SourceEvidence(publisher.bound) /\ m.kept = checkpoint.kept
    BY DEF ManifestOf
  <2>3. DOMAIN job.reports \subseteq DOMAIN checkpoint.kept
    BY <1>1 DEF Missing, Committed
  <2> HIDE DEF m
  <2>4. SupplyIs(m)
    BY <1>1, <2>1, <2>2, <2>3 DEF SupplyIs
  <2>5. /\ (Covered' <=> Covered) /\ \A n : RefBitmap(n)' = RefBitmap(n)
        /\ \A c : CheckpointIs(c)' <=> CheckpointIs(c)
        /\ \A x : SupplyIs(x)' <=> SupplyIs(x)
    BY <1>1, SupplyStays
  <2>6. SupplyIs(published)'
    BY <1>3, <2>4, <2>5 DEF m
  <2>7. /\ publisher' = [f \in {"pc", "bound"} |-> publisher'[f]]
        /\ publisher'.pc = "sign" /\ publisher'.bound = publisher.bound
    BY <1>1, <1>3 DEF PublisherGoto
  <2>8. BoundTo(publisher.bound)' /\ Covered' /\ publisher'.bound \in Nat
    <3>1. \A g : BoundTo(g) => BoundTo(g)'
      BY NothingStays, CompletesStay DEF IInv, VolumeTypeOK
    <3> QED BY <1>1, <2>5, <2>7, <3>1
  <2>9. /\ bitmaps' = [n \in DOMAIN job'.reports |-> bitmaps'[n]]
        /\ \A n \in DOMAIN job'.reports : bitmaps'[n] = None \/ bitmaps'[n] = RefBitmap(n)'
    BY <1>1, <2>5 DEF PublisherSound
  <2>10. CheckpointIs(checkpoint)'
    BY <1>1, <2>5
  <2> QED BY <2>6, <2>7, <2>8, <2>9, <2>10 DEF PublisherSound
<1> QED BY <1>2, <1>3 DEF PublishManifest, Poison

\* Signing changes nothing else.
LEMMA SignManifestStep ==
    ASSUME IInv, PublisherSound, SignManifest, UNCHANGED <<job, snaps>>
    PROVE  PublisherSound'
<1>1. /\ publisher = [f \in {"pc", "bound"} |-> publisher[f]] /\ publisher.pc = "sign"
      /\ BoundTo(publisher.bound) /\ Covered /\ publisher.bound \in Nat
      /\ SupplyIs(published) /\ UNCHANGED <<checkpoint, bitmaps>>
      /\ published' = [published EXCEPT !.signed = TRUE] /\ PublisherGoto("final")
  BY DEF PublisherSound, SignManifest, PublisherAt
<1>2. SupplyIs(published')
  BY <1>1 DEF SupplyIs
<1>3. /\ (Covered' <=> Covered) /\ \A n : RefBitmap(n)' = RefBitmap(n)
      /\ \A c : CheckpointIs(c)' <=> CheckpointIs(c)
      /\ \A x : SupplyIs(x)' <=> SupplyIs(x)
  BY <1>1, SupplyStays
<1>4. SupplyIs(published)'
  BY <1>2, <1>3
<1>5. /\ publisher' = [f \in {"pc", "bound"} |-> publisher'[f]]
      /\ publisher'.pc = "final" /\ publisher'.bound = publisher.bound
  BY <1>1 DEF PublisherGoto
<1>6. BoundTo(publisher.bound)' /\ Covered' /\ publisher'.bound \in Nat
  <2>1. \A g : BoundTo(g) => BoundTo(g)'
    BY NothingStays, CompletesStay DEF IInv, VolumeTypeOK
  <2> QED BY <1>1, <1>3, <1>5, <2>1
<1>7. /\ bitmaps' = [n \in DOMAIN job'.reports |-> bitmaps'[n]]
      /\ \A n \in DOMAIN job'.reports : bitmaps'[n] = None \/ bitmaps'[n] = RefBitmap(n)'
      /\ checkpoint' = None \/ CheckpointIs(checkpoint)'
  BY <1>1, <1>3 DEF PublisherSound
<1> QED BY <1>4, <1>5, <1>6, <1>7 DEF PublisherSound

\* Whatever the publisher does, what it has bound and written is the reference's.
LEMMA PublisherStep ==
    ASSUME IInv, BooksSound, PublisherSound, CompleteStays, job' = job,
           \/ UNCHANGED publisherVars
           \/ Handoff /\ UNCHANGED snaps /\ (PublisherRuns \/ PublisherStops \/ \E g : Bind(g))
    PROVE  PublisherSound'
<1>1. CASE UNCHANGED publisherVars
  BY <1>1, PublisherStays DEF publisherVars
<1>2. CASE PublisherStops
  BY <1>2, PublisherStays DEF PublisherStops, Exit
<1>3. CASE FinalCheck
  <2>1. publisher.pc # "off" /\ UNCHANGED <<checkpoint, bitmaps, published>>
    BY <1>3 DEF FinalCheck, PublisherAt
  <2>2. PublisherGoto("done") \/ Exit
    BY <1>3 DEF FinalCheck, Poison
  <2> QED BY <2>1, <2>2, PublisherStays DEF Exit
<1>4. CASE Handoff /\ UNCHANGED snaps /\ (PublisherRuns \/ \E g : Bind(g))
  <2>1. CASE Resume \/ CommitBitmap \/ SignManifest
    BY <1>4, <2>1, ResumeStep, CommitBitmapStep, SignManifestStep
  <2>2. CASE WriteBitmap \/ PublishManifest
    BY <1>4, <2>2, WriteBitmapStep, PublishManifestStep
  <2>3. CASE \E g : Bind(g)
    BY <1>4, <2>3, BindStep
  <2> QED BY <1>3, <1>4, <2>1, <2>2, <2>3, Zenon DEF PublisherRuns
<1> QED BY <1>1, <1>2, <1>4

\* A step of a process of curation.
LEMMA ProcessHandoff ==
    ASSUME IInv, BooksSound, HandoffSound, NEW p \in Pods, ProcessStep(p), UNCHANGED publisherVars,
           UNCHANGED launcher \/ StartsChild(p) \/ StepsOf(p)
    PROVE  HandoffSound'
<1>1. CompleteStays /\ job' = job
  BY StoreStep DEF HandoffSound
<1>2. BegunSound' /\ ClosingSound'
  BY <1>1, BegunStep, ClosingStep DEF HandoffSound, BooksSound
<1>3. LauncherSound'
  BY <1>1, LauncherStep DEF HandoffSound
<1>4. PublisherSound'
  BY <1>1, PublisherStep DEF HandoffSound
<1> QED BY <1>2, <1>3, <1>4 DEF HandoffSound

\* A step beside curation.
LEMMA BesideHandoff ==
    ASSUME IInv, BooksSound, HandoffSound, UNCHANGED <<job, local, snaps, canonical, procs>>,
           \/ UNCHANGED launcher
           \/ WritesResult \/ WritesReceipt \/ Resumes \/ LauncherDies,
           \/ UNCHANGED publisherVars
           \/ Handoff /\ (PublisherRuns \/ PublisherStops \/ \E g : Bind(g))
    PROVE  HandoffSound'
<1>1. CompleteStays
  BY NothingStays
<1>2. BegunSound'
  BY DEF HandoffSound, BegunSound
<1>3. ClosingSound'
  <2>1. /\ Handoff' <=> Handoff
        /\ \A db : Finished(db)' <=> Finished(db)
    BY JobStays, TablesStay
  <2>2. \A q : Work(q)' = Work(q)
    BY VolumesStay DEF BooksSound
  <2>3. ASSUME NEW q \in Pods
        PROVE  /\ Finished(Work(q)) => Finished(Work(q))'
               /\ Finished(snaps[Len(snaps)].db) => Finished(snaps[Len(snaps)].db)'
    <3>1. Work(q)' = Work(q) /\ snaps'[Len(snaps')].db = snaps[Len(snaps)].db
      BY <2>2
    <3> QED BY <2>1, <3>1
  <2> QED BY <2>1, <2>3 DEF HandoffSound, ClosingSound
<1>4. LauncherSound'
  BY <1>1, LauncherStep DEF HandoffSound
<1>5. PublisherSound'
  BY <1>1, PublisherStep DEF HandoffSound
<1> QED BY <1>2, <1>3, <1>4, <1>5 DEF HandoffSound

\* No step of the handoff spoils what was concluded, bound or written.
LEMMA HandoffSoundStep == IInv /\ BooksSound /\ HandoffSound /\ [SelectionNext]_selectionVars => HandoffSound'
<1> SUFFICES ASSUME IInv, BooksSound, HandoffSound, [SelectionNext]_selectionVars PROVE HandoffSound'
  OBVIOUS
<1>1. CASE UNCHANGED handoffVars
  BY <1>1, BesideHandoff DEF handoffVars, curationVars, outputVars
<1>2. CASE CurationOnly
  <2>1. PICK p \in Pods : Launch(p) \/ Curate(p) \/ Capture(p) \/ Stop(p) \/ Kill(p)
    BY <1>2, Zenon DEF CurationOnly, CurationNext
  <2>2. ProcessStep(p)
    BY <2>1, Zenon DEF ProcessStep, Launch, Curate
  <2>3. UNCHANGED publisherVars /\ UNCHANGED launcher
    BY <1>2 DEF CurationOnly
  <2> QED BY <2>2, <2>3, ProcessHandoff
<1>3. CASE Handoff /\ HandoffNext
  <2>1. CASE \E p \in Pods : StartsChild(p) \/ StepsOf(p) \/ Recovers(p) \/ RunsByHand(p)
    <3>1. PICK p \in Pods : StartsChild(p) \/ StepsOf(p) \/ Recovers(p) \/ RunsByHand(p)
      BY <2>1, Zenon
    <3>2. ProcessStep(p)
      BY <3>1, Zenon DEF ProcessStep, StartsChild, StepsOf, Recovers, RunsByHand
    <3>3. UNCHANGED publisherVars
      BY <3>1 DEF StartsChild, StepsOf, Recovers, RunsByHand
    <3>4. UNCHANGED launcher \/ StartsChild(p) \/ StepsOf(p)
      BY <3>1 DEF Recovers, RunsByHand
    <3> QED BY <3>2, <3>3, <3>4, ProcessHandoff
  <2>2. CASE WritesResult \/ WritesReceipt \/ Resumes \/ LauncherDies
    <3>1. UNCHANGED <<job, local, snaps, canonical, procs>> /\ UNCHANGED publisherVars
      BY <2>2 DEF WritesResult, WritesReceipt, Resumes, LauncherDies, curationVars, outputVars
    <3> QED BY <2>2, <3>1, BesideHandoff
  <2>3. CASE Orchestrates \/ PublishesByHand \/ Publishes \/ (PublisherStops /\ UNCHANGED launcher)
    <3>1. UNCHANGED <<job, local, snaps, canonical, procs>> /\ UNCHANGED launcher
      BY <2>3 DEF Orchestrates, PublishesByHand, Publishes, PublisherStops, curationVars, outputVars
    <3>2. PublisherRuns \/ PublisherStops \/ \E g : Bind(g)
      BY <2>3, Zenon DEF Orchestrates, PublishesByHand, Publishes
    <3> QED BY <1>3, <3>1, <3>2, BesideHandoff
  <2> QED BY <1>3, <2>1, <2>2, <2>3, Zenon DEF HandoffNext
<1> QED BY <1>1, <1>2, <1>3, Zenon DEF SelectionNext, NearStage, CurationStage, selectionVars

\* Nothing is bound or written at first.
LEMMA InitialHandoff == HandoffInit => HandoffSound
<1> SUFFICES ASSUME HandoffInit PROVE HandoffSound
  OBVIOUS
<1>1. /\ procs = [p \in Pods |-> Off] /\ Off.pc = "off" /\ Off.final = FALSE
  BY DEF HandoffInit, CurationInit, Off
<1>2. BegunSound /\ ClosingSound
  BY <1>1 DEF BegunSound, ClosingSound
<1>3. LauncherSound
  BY DEF HandoffInit, LauncherInit, LauncherSound, Launched, LauncherFields
<1>4. PublisherSound
  BY DEF HandoffInit, PublisherInit, PublisherSound
<1> QED BY <1>2, <1>3, <1>4 DEF HandoffSound

\* What the launcher records and the publisher binds and writes is sound,
\* whoever stops, dies or is started by hand beside them.
THEOREM HandoffStaysSound == SelectionSpec => []HandoffSound
<1>1. SelectionInit => HandoffSound
  BY InitialHandoff DEF SelectionInit
<1> QED BY <1>1, HandoffSoundStep, VolumeInvariant, BooksStaySound, PTL DEF SelectionSpec

-----------------------------------------------------------------------------
(* What is packed of documents and the tokens taken of each, and how it    *)
(* counts.                                                                 *)
PackedDoc(d, taken) == [doc |-> d, split |-> SplitOf[d.group], tokens |-> taken[d]]
PackedOf(S, taken) == {PackedDoc(d, taken) : d \in S}
PartOf(S, q) == {d \in S : SplitOf[d.group] = q[1] /\ Category(d) = q[2]}
Extent(S, taken) == UNION {{d.id} \X (1..taken[d]) : d \in S}
Cut(S, taken) == {d \in S : taken[d] < d.tokens}
SummaryOf(S, taken) == Summary(S, Cardinality(Extent(S, taken)), Cardinality(Cut(S, taken)))

\* The rows that keep a document say what is packed.
LEMMA PackedIs ==
    ASSUME SoundJob, NEW S, S \subseteq AllDocuments, NEW taken,
           \A n \in DOMAIN job.reports : \A k \in DOMAIN job.reports[n] :
              /\ Row(n, k).keep <=> job.reports[n][k] \in S
              /\ Row(n, k).keep => /\ Row(n, k).split = SplitOf[job.reports[n][k].group]
                                   /\ Row(n, k).tokens = taken[job.reports[n][k]]
    PROVE  Packed = PackedOf(S, taken)
<1> DEFINE DocAt(n, k) == job.reports[n][k]
           PackRow(r) == [doc |-> job.reports[r[1]][r[2]], split |-> Row(r[1], r[2]).split, tokens |-> Row(r[1], r[2]).tokens]
           Keeping == {r \in Rows : Row(r[1], r[2]).keep}
<1>1. Packed = {PackRow(r) : r \in Keeping}
  BY DEF Packed
<1>2. \A r \in Rows : \E n \in DOMAIN job.reports : \E k \in DOMAIN job.reports[n] : r = <<n, k>>
  BY DEF Rows
<1>3. \A n \in DOMAIN job.reports : \A k \in DOMAIN job.reports[n] : <<n, k>> \in Rows
  BY DEF Rows
<1>4. ASSUME NEW r \in Keeping PROVE PackRow(r) \in PackedOf(S, taken)
  <2>1. PICK n \in DOMAIN job.reports : \E k \in DOMAIN job.reports[n] : r = <<n, k>>
    BY <1>2
  <2>2. PICK k \in DOMAIN job.reports[n] : r = <<n, k>>
    BY <2>1
  <2>3. Row(n, k).keep /\ r[1] = n /\ r[2] = k
    BY <2>2
  <2> HIDE DEF Keeping
  <2>4. DocAt(n, k) \in S /\ PackRow(r) = PackedDoc(DocAt(n, k), taken)
    BY <2>3 DEF PackedDoc
  <2> QED BY <2>4 DEF PackedOf
<1>5. ASSUME NEW d \in S PROVE PackedDoc(d, taken) \in {PackRow(r) : r \in Keeping}
  <2>1. PICK n \in DOMAIN job.reports : \E k \in DOMAIN job.reports[n] : d = DocAt(n, k)
    BY Documents
  <2>2. PICK k \in DOMAIN job.reports[n] : d = DocAt(n, k)
    BY <2>1
  <2>3. <<n, k>> \in Keeping
    BY <1>3, <2>2
  <2>4. PackRow(<<n, k>>) = PackedDoc(d, taken)
    <3>1. Row(n, k).split = SplitOf[d.group] /\ Row(n, k).tokens = taken[d]
      BY <2>2
    <3> QED BY <2>2, <3>1 DEF PackedDoc
  <2> HIDE DEF Keeping, PackRow
  <2> QED BY <2>3, <2>4
<1> HIDE DEF Keeping, PackRow
<1> QED BY <1>1, <1>4, <1>5 DEF PackedOf

\* What is observed of it is the summary of each part.
LEMMA ObservedIs ==
    ASSUME SoundJob, NEW S, S \subseteq AllDocuments, NEW taken, Packed = PackedOf(S, taken), NEW q
    PROVE  Observed(q) = SummaryOf(PartOf(S, q), taken)
<1> DEFINE F == PartOf(S, q)
           pick == [d \in F |-> PackedDoc(d, taken)]
<1>1. F \subseteq AllDocuments /\ IsFiniteSet(F)
  <2>1. F \subseteq AllDocuments
    BY DEF PartOf
  <2> QED BY <2>1, FinitelyMany, FS_Subset
<1>2. \A d \in F : pick[d].doc = d /\ pick[d].tokens = taken[d]
  BY DEF PackedDoc
<1>3. PackedFor(q) = {pick[d] : d \in F}
  <2>1. PackedFor(q) = {x \in PackedOf(S, taken) : x.split = q[1] /\ Category(x.doc) = q[2]}
    BY DEF PackedFor
  <2>2. \A d : PackedDoc(d, taken).split = SplitOf[d.group] /\ PackedDoc(d, taken).doc = d
    BY DEF PackedDoc
  <2>3. {x \in PackedOf(S, taken) : x.split = q[1] /\ Category(x.doc) = q[2]} = {PackedDoc(d, taken) : d \in F}
    BY <2>2 DEF PackedOf, PartOf
  <2>4. \A d \in F : pick[d] = PackedDoc(d, taken)
    OBVIOUS
  <2> HIDE DEF F, pick
  <2> QED BY <2>1, <2>3, <2>4
<1> HIDE DEF F, pick
<1>4. Cardinality(PackedFor(q)) = Cardinality(F)
  BY <1>1, <1>2, <1>3, ImageCounted
<1>5. TokensOf({[id |-> x.doc.id, tokens |-> x.tokens] : x \in PackedFor(q)}) = Cardinality(Extent(F, taken))
  <2> DEFINE I == {[id |-> x.doc.id, tokens |-> x.tokens] : x \in PackedFor(q)}
  <2>1. \A x \in PackedFor(q) : \E d \in F : x.doc = d /\ x.tokens = taken[d]
    BY <1>2, <1>3
  <2>2. \A d \in F : \E x \in PackedFor(q) : x.doc = d /\ x.tokens = taken[d]
    BY <1>2, <1>3
  <2>3. \A y \in I : \E d \in F : y.id = d.id /\ y.tokens = taken[d]
    BY <2>1
  <2>4. ASSUME NEW d \in F PROVE \E y \in I : y.id = d.id /\ y.tokens = taken[d]
    <3>1. PICK x \in PackedFor(q) : x.doc = d /\ x.tokens = taken[d]
      BY <2>2
    <3>2. [id |-> x.doc.id, tokens |-> x.tokens] \in I
      OBVIOUS
    <3> QED BY <3>1, <3>2
  <2> HIDE DEF I
  <2>5. UNION {{d.id} \X (1 .. d.tokens) : d \in I} = Extent(F, taken)
    BY <2>3, <2>4 DEF Extent
  <2> QED BY <2>5 DEF TokensOf, I
<1>6. Cardinality({x \in PackedFor(q) : x.tokens < x.doc.tokens}) = Cardinality(Cut(F, taken))
  <2> DEFINE C == Cut(F, taken)
  <2>1. {x \in PackedFor(q) : x.tokens < x.doc.tokens} = {pick[d] : d \in C}
    BY <1>2, <1>3 DEF Cut
  <2>2. C \subseteq F
    BY DEF Cut
  <2> HIDE DEF C
  <2>3. IsFiniteSet(C) /\ \A x, y \in C : pick[x] = pick[y] => x = y
    BY <1>1, <1>2, <2>2, FS_Subset
  <2> QED BY <2>1, <2>3, ImageCounted DEF C
<1>7. Observed(q) = Summary(F, Cardinality(Extent(F, taken)), Cardinality(Cut(F, taken)))
  BY <1>4, <1>5, <1>6 DEF Observed, Summary
<1> QED BY <1>7 DEF SummaryOf, F
\* Of the chosen, nothing is packed twice and no source is in two splits.
LEMMA PackedApart ==
    ASSUME SoundJob, NEW S, S \subseteq Chosen, NEW taken
    PROVE  \A x, y \in PackedOf(S, taken) :
              /\ Alike(x.doc, y.doc) => x = y
              /\ x.doc.group = y.doc.group => x.split = y.split
<1>1. ASSUME NEW d \in Chosen, NEW e \in Chosen, Alike(d, e) PROVE d = e
  <2> DEFINE byContent == [x \in Candidates |-> x.content]
             byCluster == [x \in Kept |-> Cluster(job.profile, x)]
  <2>1. /\ Candidates \subseteq AllDocuments /\ Kept \subseteq Candidates /\ Chosen \subseteq Kept
        /\ Chosen = BestOfEach(Kept, byCluster) /\ Kept = BestOfEach(Candidates, byContent)
    BY ChoicesNest DEF Kept
  <2>2. CASE d.content = e.content
    <3>1. byContent[d] = byContent[e]
      BY <2>1, <2>2
    <3>2. {x \in Candidates : byContent[x] = byContent[d]} = {x \in Candidates : byContent[x] = byContent[e]}
      BY <3>1
    <3>3. DOMAIN byContent = Candidates
      OBVIOUS
    <3> HIDE DEF byContent
    <3>4. \A x \in Kept : x = Best({y \in Candidates : byContent[y] = byContent[x]})
      BY <2>1, <3>3, OneOfEach
    <3> QED BY <2>1, <3>2, <3>4
  <2>3. CASE Cluster(job.profile, d) = Cluster(job.profile, e)
    <3>1. byCluster[d] = byCluster[e]
      BY <2>1, <2>3
    <3>2. {x \in Kept : byCluster[x] = byCluster[d]} = {x \in Kept : byCluster[x] = byCluster[e]}
      BY <3>1
    <3>3. DOMAIN byCluster = Kept /\ Kept \subseteq AllDocuments
      BY <2>1
    <3> HIDE DEF byCluster
    <3>4. \A x \in Chosen : x = Best({y \in Kept : byCluster[y] = byCluster[x]})
      BY <2>1, <3>3, OneOfEach
    <3> QED BY <3>2, <3>4
  <2> QED BY <1>1, <2>2, <2>3 DEF Alike
<1>2. ASSUME NEW x \in PackedOf(S, taken), NEW y \in PackedOf(S, taken)
      PROVE  /\ Alike(x.doc, y.doc) => x = y
             /\ x.doc.group = y.doc.group => x.split = y.split
  <2>1. PICK d \in S : x = PackedDoc(d, taken)
    BY DEF PackedOf
  <2>2. PICK e \in S : y = PackedDoc(e, taken)
    BY DEF PackedOf
  <2>3. x.doc = d /\ x.split = SplitOf[d.group] /\ y.doc = e /\ y.split = SplitOf[e.group]
    BY <2>1, <2>2 DEF PackedDoc
  <2>4. Alike(d, e) => d = e
    BY <1>1
  <2> QED BY <2>1, <2>2, <2>3, <2>4
<1> QED BY <1>2

(* Whole documents, and what their room leaves of them.                    *)
Whole == [d \in Chosen |-> d.tokens]
Prefix == [d \in Fits |-> RowOf(d).tokens]

\* A part of the chosen is a line of the quotas.
LEMMA PartsAre ==
    ASSUME SoundJob, NEW q \in Quotas
    PROVE  /\ q = <<q[1], q[2]>> /\ PartOf(Chosen, q) = Line(q[1], q[2])
           /\ IsFiniteSet(Line(q[1], q[2])) /\ Line(q[1], q[2]) \subseteq Chosen
           /\ \A d \in Line(q[1], q[2]) : d.tokens \in Nat /\ d.tokens > 0
<1>1. q = <<q[1], q[2]>>
  BY DEF Quotas
<1>2. PartOf(Chosen, q) = Line(q[1], q[2])
  BY DEF PartOf, Line
<1>3. IsQueue(Line(q[1], q[2])) /\ Line(q[1], q[2]) \subseteq Chosen
  BY LinesQueue
<1> QED BY <1>1, <1>2, <1>3 DEF IsQueue

\* Whole documents of the chosen are packed as the supply counts them, and
\* there are some for every quota.
LEMMA SupplyCounted ==
    ASSUME SoundJob, NEW q \in Quotas
    PROVE  /\ SummaryOf(PartOf(Chosen, q), Whole) = Supply[q] /\ Supply[q].prefixes = 0
           /\ Covered => Supply[q].documents > 0 /\ Supply[q].tokens > 0
<1> DEFINE F == Line(q[1], q[2])
<1>1. /\ PartOf(Chosen, q) = F /\ IsFiniteSet(F) /\ F \subseteq Chosen
      /\ \A d \in F : d.tokens \in Nat /\ d.tokens > 0
  BY PartsAre
<1>2. Supply[q] = Summary(F, TokensOf(F), 0)
  BY DEF Supply
<1>3. Covered => F # {}
  BY DEF Covered
<1> HIDE DEF F
<1>4. \A d \in F : Whole[d] = d.tokens
  BY <1>1 DEF Whole
<1>5. Extent(F, Whole) = Positions(F)
  BY <1>4 DEF Extent, Positions
<1>6. Cut(F, Whole) = {}
  BY <1>1, <1>4 DEF Cut
<1>7. Counted(F)
  BY <1>1 DEF Counted
<1>8. TokensOf(F) = Cardinality(Positions(F)) /\ IsFiniteSet(Positions(F)) /\ TokensOf(F) \in Nat
  BY <1>7, TokensCounted
<1>9. SummaryOf(F, Whole) = Supply[q]
  <2>1. Cardinality(Cut(F, Whole)) = 0
    BY <1>6, FS_EmptySet
  <2> QED BY <1>2, <1>5, <1>8, <2>1 DEF SummaryOf
<1>10. ASSUME Covered PROVE Cardinality(F) > 0 /\ TokensOf(F) > 0
  <2>1. PICK d \in F : TRUE
    BY <1>3, <1>10
  <2>2. d.tokens \in Nat /\ 1 \in 1..d.tokens
    BY <1>1
  <2>3. <<d.id, 1>> \in Positions(F)
    BY <2>2 DEF Positions
  <2>4. Cardinality(F) \in Nat /\ Cardinality(F) # 0
    BY <1>1, <2>1, FS_CardinalityType, FS_EmptySet
  <2>5. Cardinality(Positions(F)) # 0
    BY <1>8, <2>3, FS_EmptySet
  <2> QED BY <1>8, <2>4, <2>5
<1> QED BY <1>1, <1>2, <1>9, <1>10 DEF Summary

\* The row of a document that fits: a prefix, and one row only.
LEMMA PrefixIs ==
    ASSUME SoundJob
    PROVE  /\ \A d \in Fits : /\ Prefix[d] \in Int /\ 1 <= Prefix[d] /\ Prefix[d] <= d.tokens
                              /\ d \in AllDocuments /\ d \in Chosen
                              /\ RefMine(d) = {RowOf(d)} /\ RefRow(d) = RowOf(d)
                              /\ RowOf(d).split = SplitOf[d.group] /\ RowOf(d).tokens = Prefix[d]
                              /\ RowOf(d).id = d.id
           /\ \A d \in AllDocuments : RefMine(d) # {} <=> d \in Fits
<1>1. ASSUME NEW d \in Fits
      PROVE  /\ Prefix[d] \in Int /\ 1 <= Prefix[d] /\ Prefix[d] <= d.tokens
             /\ d \in AllDocuments /\ d \in Chosen
             /\ RefMine(d) = {RowOf(d)} /\ RefRow(d) = RowOf(d)
             /\ RowOf(d).split = SplitOf[d.group] /\ RowOf(d).tokens = Prefix[d]
             /\ RowOf(d).id = d.id
  <2>1. d \in Chosen /\ Room(d) > 0 /\ d \in AllDocuments
    BY ChoicesNest DEF Fits
  <2>2. /\ RowOf(d).id = d.id /\ RowOf(d).split = SplitOf[d.group]
        /\ RowOf(d).tokens = Min({d.tokens, Room(d)})
    BY DEF RowOf
  <2>3. Prefix[d] = RowOf(d).tokens
    BY DEF Prefix
  <2>4. Room(d) \in Int /\ d.tokens \in Nat /\ d.tokens > 0
    <3> DEFINE s == SplitOf[d.group]
               c == Category(d)
    <3>1. d \in Line(s, c)
      BY <2>1 DEF Line
    <3>2. IsQueue(Line(s, c)) /\ Room(d) = RoomIn(Line(s, c), Quota[<<s, c>>], d)
      BY <3>1, LinesQueue
    <3>3. Quota[<<s, c>>] \in Nat
      BY <2>1, ChosenFields DEF QuotaOf
    <3> HIDE DEF s, c
    <3>4. RoomIn(Line(s, c), Quota[<<s, c>>], d) \in Int
      BY <3>1, <3>2, <3>3, QueueCounted
    <3> QED BY <2>1, <3>2, <3>4, Fields
  <2>5. RowOf(d).tokens = IF d.tokens <= Room(d) THEN d.tokens ELSE Room(d)
    BY <2>2, <2>4, MinOfTwo
  <2>6. Prefix[d] \in Int /\ 1 <= Prefix[d] /\ Prefix[d] <= d.tokens
    BY <2>1, <2>3, <2>4, <2>5
  <2>7. RowOf(d) \in RefMine(d)
    BY <2>2, SelectionIs DEF RefMine
  <2>8. \A x \in RefMine(d) : x = RowOf(d)
    <3>1. \A x \in RefMine(d) : x \in RefSelection /\ x.id = d.id
      BY DEF RefMine
    <3> QED BY <2>2, <2>7, <3>1, OneRow
  <2>9. RefMine(d) = {RowOf(d)}
    BY <2>7, <2>8
  <2>10. RefRow(d) = RowOf(d)
    BY <2>9 DEF RefRow
  <2> QED BY <2>1, <2>2, <2>3, <2>6, <2>9, <2>10
<1>2. ASSUME NEW d \in AllDocuments, RefMine(d) # {} PROVE d \in Fits
  <2>1. PICK x \in RefSelection : x.id = d.id
    BY <1>2 DEF RefMine
  <2>2. PICK e \in Fits : x = RowOf(e)
    BY SelectionIs
  <2>3. e.id = d.id /\ e \in AllDocuments
    BY <1>1, <2>1, <2>2
  <2> QED BY <2>3, Documents
<1>3. \A d \in Fits : RefMine(d) # {}
  BY <1>1
<1> QED BY <1>1, <1>2, <1>3

\* The prefixes are packed as the manifest's totals count them.
LEMMA TotalsCounted ==
    ASSUME SoundJob, NEW q \in Quotas
    PROVE  SummaryOf(PartOf(Fits, q), Prefix) = RefTotals[q]
<1> DEFINE F == PartOf(Fits, q)
           ref == [selected |-> RefSelection, documents |-> AllDocuments]
           rows == {x \in RefSelection : x.split = q[1] /\ \E d \in Named(ref, {x.id}) : Category(d) = q[2]}
           cut == {x \in rows : \E d \in Named(ref, {x.id}) : x.tokens < d.tokens}
           row == [d \in F |-> RowOf(d)]
<1>1. RefTotals[q] = Summary(rows, TokensOf(rows), Cardinality(cut))
  BY DEF RefTotals, QuotaTotals, QuotaRow
<1>2. F \subseteq Fits /\ F \subseteq AllDocuments
  BY PrefixIs DEF PartOf
<1>3. IsFiniteSet(F)
  BY <1>2, FinitelyMany, FS_Subset
<1>4. ASSUME NEW d \in Fits PROVE Named(ref, {RowOf(d).id}) = {d}
  <2>1. d \in AllDocuments /\ RowOf(d).id = d.id
    BY PrefixIs
  <2>2. \A e \in AllDocuments : e.id = d.id => e = d
    BY <2>1, Documents
  <2> QED BY <2>1, <2>2 DEF Named
<1>5. rows = {row[d] : d \in F}
  <2>1. \A x : x \in RefSelection <=> \E d \in Fits : x = RowOf(d)
    BY SelectionIs
  <2>2. \A d \in Fits : RowOf(d) \in rows <=> d \in F
    <3>1. \A d \in Fits : RowOf(d).split = SplitOf[d.group]
      BY PrefixIs
    <3> QED BY <1>4, <2>1, <3>1 DEF PartOf
  <2>3. \A d \in F : row[d] = RowOf(d)
    OBVIOUS
  <2>4. rows \subseteq RefSelection
    OBVIOUS
  <2> HIDE DEF rows, row, F, ref
  <2> QED BY <1>2, <2>1, <2>2, <2>3, <2>4
<1>6. \A d \in F : row[d].id = d.id /\ row[d].tokens = Prefix[d] /\ row[d] = RowOf(d)
  BY <1>2, PrefixIs
<1>7. cut = {row[d] : d \in Cut(F, Prefix)}
  <2>1. \A d \in F : (\E e \in Named(ref, {row[d].id}) : row[d].tokens < e.tokens) <=> Prefix[d] < d.tokens
    <3>1. \A d \in F : Named(ref, {row[d].id}) = {d}
      BY <1>2, <1>4, <1>6
    <3> HIDE DEF ref, row, F
    <3> QED BY <1>6, <3>1
  <2> HIDE DEF rows, row, F, ref
  <2> QED BY <1>5, <2>1 DEF Cut
<1> HIDE DEF rows, row, ref, cut, F
<1>8. \A d, e \in F : row[d] = row[e] => d = e
  <2>1. ASSUME NEW d \in F, NEW e \in F, row[d] = row[e] PROVE d = e
    <3>1. d.id = e.id
      BY <1>6, <2>1
    <3> QED BY <1>2, <3>1, Documents
  <2> QED BY <2>1
<1>9. Cardinality(rows) = Cardinality(F)
  BY <1>3, <1>5, <1>8, ImageCounted
<1>10. Cardinality(cut) = Cardinality(Cut(F, Prefix))
  <2>1. Cut(F, Prefix) \subseteq F
    BY DEF Cut
  <2>2. IsFiniteSet(Cut(F, Prefix)) /\ \A d, e \in Cut(F, Prefix) : row[d] = row[e] => d = e
    BY <1>3, <1>8, <2>1, FS_Subset
  <2> QED BY <1>7, <2>2, ImageCounted
<1>11. TokensOf(rows) = Cardinality(Extent(F, Prefix))
  <2>1. \A y \in rows : \E d \in F : y.id = d.id /\ y.tokens = Prefix[d]
    BY <1>5, <1>6
  <2>2. \A d \in F : \E y \in rows : y.id = d.id /\ y.tokens = Prefix[d]
    BY <1>5, <1>6
  <2>3. UNION {{d.id} \X (1 .. d.tokens) : d \in rows} = Extent(F, Prefix)
    BY <2>1, <2>2 DEF Extent
  <2> QED BY <2>3 DEF TokensOf
<1> QED BY <1>1, <1>9, <1>10, <1>11 DEF SummaryOf, Summary, F

(* What the materializer makes of a signed selection.                      *)
Packs ==
    /\ SelectionUsable
    /\ \A n \in DOMAIN job.reports : \A k \in DOMAIN job.reports[n] :
          RowAccepted(Row(n, k), job.reports[n][k])
    /\ \A q \in Quotas : Observed(q) = Totals[q]
    /\ \A x, y \in Packed : /\ Alike(x.doc, y.doc) => x = y
                            /\ x.doc.group = y.doc.group => x.split = y.split

\* A sequence of what is said of a report's documents is as long as it.
LEMMA AsLong ==
    ASSUME SoundJob, NEW n \in DOMAIN job.reports, NEW f, f = [k \in DOMAIN job.reports[n] |-> f[k]]
    PROVE  /\ Len(job.reports[n]) \in Nat /\ DOMAIN job.reports[n] = 1..Len(job.reports[n])
           /\ Len(f) = Len(job.reports[n])
           /\ \A T : (\A k \in DOMAIN f : f[k] \in T) => f \in Seq(T)
<1> DEFINE m == Len(job.reports[n])
           T == {f[k] : k \in DOMAIN f}
<1>1. job.reports[n] \in Seq(Document)
  BY DEF SoundJob
<1>2. m \in Nat /\ DOMAIN job.reports[n] = 1..m
  BY <1>1
<1> HIDE DEF m
<1>3. f = [k \in 1..m |-> f[k]] /\ DOMAIN f = 1..m
  BY <1>2
<1>4. \A U : (\A k \in 1..m : f[k] \in U) => [k \in 1..m |-> f[k]] \in Seq(U)
  BY <1>2, IsASeq
<1>5. \A U : (\A k \in DOMAIN f : f[k] \in U) => f \in Seq(U)
  BY <1>3, <1>4
<1>6. f \in Seq(T)
  BY <1>5
<1> HIDE DEF T
<1>7. Len(f) = m
  BY <1>2, <1>3, <1>6
<1> QED BY <1>2, <1>5, <1>7 DEF m

\* A publication of the handoff packs.
LEMMA BitmapsPack ==
    ASSUME SoundJob, Handoff, published # None, SupplyIs(published)
    PROVE  Packs
<1>1. /\ published.totals = Supply /\ Covered /\ EvidenceIs(published.source, published.bound)
      /\ published.kept = checkpoint.kept
      /\ \A n \in DOMAIN job.reports : bitmaps[n] = RefBitmap(n) /\ published.kept[n] = KeptIn(RefBitmap(n))
  BY DEF SupplyIs, CheckpointIs
<1>2. ASSUME NEW n \in DOMAIN job.reports PROVE ArchiveDescribed(n)
  <2>1. RefBitmap(n) = [k \in DOMAIN job.reports[n] |-> RefBitmap(n)[k]]
    BY DEF RefBitmap
  <2>4. \A k \in DOMAIN RefBitmap(n) : RefBitmap(n)[k] \in BOOLEAN
    <3>1. DOMAIN RefBitmap(n) = DOMAIN job.reports[n]
      BY DEF RefBitmap
    <3>2. ASSUME NEW k \in DOMAIN job.reports[n] PROVE RefBitmap(n)[k] \in BOOLEAN
      <4>1. RefBitmap(n)[k] = (job.reports[n][k] \in Chosen)
        BY DEF RefBitmap
      <4>2. (job.reports[n][k] \in Chosen) \in BOOLEAN
        OBVIOUS
      <4> HIDE DEF RefBitmap
      <4> QED BY <4>1, <4>2, Zenon
    <3> QED BY <3>1, <3>2
  <2>2. Len(RefBitmap(n)) = Len(job.reports[n]) /\ RefBitmap(n) \in Seq(BOOLEAN)
    BY <2>1, <2>4, AsLong
  <2>3. RefBitmap(n) # None
    BY <2>2, PublisherAssumption
  <2> QED BY <1>1, <2>2, <2>3 DEF ArchiveDescribed, BitmapLoads
<1>3. SourceCurationSound
  BY <1>1 DEF SourceCurationSound, EvidenceIs
<1>4. TotalsUsable
  BY <1>1, SupplyCounted DEF TotalsUsable, AllEligibleTotalsHold
<1>5. ASSUME NEW n \in DOMAIN job.reports, NEW k \in DOMAIN job.reports[n], NEW d, d = job.reports[n][k]
      PROVE  /\ Row(n, k).id = d.id /\ Row(n, k).reasons = {}
             /\ Row(n, k).keep <=> d \in Chosen
             /\ d \in Chosen => /\ Row(n, k).split = SplitOf[d.group] /\ Row(n, k).split \in ToSet(SplitOrder)
                                /\ Row(n, k).tokens = d.tokens
             /\ d \notin Chosen => Row(n, k).split = None /\ Row(n, k).tokens = 0
  <2>1. Row(n, k) = BitmapRow(n, k) /\ bitmaps[n][k] = (d \in Chosen)
    BY <1>1, <1>5 DEF Row, RefBitmap
  <2>2. d \in Chosen => DerivedSplit(d) = SplitOf[d.group] /\ SplitOf[d.group] \in ToSet(SplitOrder)
    <3>1. d \in Chosen => d.group # 0
      BY ChoicesNest DEF Candidates, Eligible
    <3> QED BY <3>1, ChosenFields DEF DerivedSplit
  <2>3. /\ BitmapRow(n, k).id = d.id /\ BitmapRow(n, k).reasons = {}
        /\ BitmapRow(n, k).keep = bitmaps[n][k]
        /\ BitmapRow(n, k).split = IF bitmaps[n][k] THEN DerivedSplit(d) ELSE None
        /\ BitmapRow(n, k).tokens = IF bitmaps[n][k] THEN d.tokens ELSE 0
    BY <1>5 DEF BitmapRow
  <2> QED BY <2>1, <2>2, <2>3
<1>6. ASSUME NEW n \in DOMAIN job.reports, NEW k \in DOMAIN job.reports[n]
      PROVE  RowAccepted(Row(n, k), job.reports[n][k])
  <2> DEFINE d == job.reports[n][k]
  <2>1. d \in AllDocuments /\ d.tokens \in Nat \ {0}
    BY Documents, Fields
  <2>2. d.tokens \in 1..d.tokens
    BY <2>1
  <2> QED BY <1>5, <2>2 DEF RowAccepted
<1>7. Chosen \subseteq AllDocuments
  BY ChoicesNest
<1>8. Packed = PackedOf(Chosen, Whole)
  <2>1. \A n \in DOMAIN job.reports : \A k \in DOMAIN job.reports[n] :
           /\ Row(n, k).keep <=> job.reports[n][k] \in Chosen
           /\ Row(n, k).keep => /\ Row(n, k).split = SplitOf[job.reports[n][k].group]
                                /\ Row(n, k).tokens = Whole[job.reports[n][k]]
    BY <1>5 DEF Whole
  <2> QED BY <1>7, <2>1, PackedIs
<1>9. \A q \in Quotas : Observed(q) = Totals[q]
  <2>1. \A q \in Quotas : Observed(q) = SummaryOf(PartOf(Chosen, q), Whole)
    BY <1>7, <1>8, ObservedIs
  <2>2. Totals = Supply
    BY <1>1 DEF Totals
  <2> QED BY <2>1, <2>2, SupplyCounted
<1>10. \A x, y \in Packed : /\ Alike(x.doc, y.doc) => x = y
                            /\ x.doc.group = y.doc.group => x.split = y.split
  BY <1>8, PackedApart
<1>11. SelectionUsable
  BY <1>2, <1>3, <1>4 DEF SelectionUsable
<1> QED BY <1>6, <1>9, <1>10, <1>11 DEF Packs

\* The published decisions of curation pack.
LEMMA DecisionsPack ==
    ASSUME SoundJob, ~Handoff, manifest # None, IsManifest(manifest), decisions = RefShards
    PROVE  Packs
<1>1. manifest.shards = RefShards /\ manifest.totals = RefTotals /\ Filling
  BY DEF IsManifest
<1>2. ASSUME NEW n \in DOMAIN job.reports PROVE ArchiveDescribed(n)
  <2>1. decisions[n] = RefShard(n) /\ manifest.shards[n] = RefShard(n)
    BY <1>1 DEF RefShards
  <2>2. RefShard(n) = [k \in DOMAIN job.reports[n] |-> RefShard(n)[k]]
    BY DEF RefShard
  <2>3. Len(RefShard(n)) = Len(job.reports[n])
    BY <2>2, AsLong
  <2> QED BY <2>1, <2>3 DEF ArchiveDescribed
<1>3. TotalsUsable
  BY <1>1 DEF TotalsUsable, Filling
<1>4. ASSUME NEW n \in DOMAIN job.reports, NEW k \in DOMAIN job.reports[n], NEW d, d = job.reports[n][k]
      PROVE  /\ d \in AllDocuments /\ Row(n, k).id = d.id
             /\ Row(n, k).keep <=> d \in Fits
             /\ d \in Fits => /\ Row(n, k).split = SplitOf[d.group] /\ Row(n, k).split \in ToSet(SplitOrder)
                              /\ Row(n, k).tokens = Prefix[d] /\ Prefix[d] \in 1..d.tokens
                              /\ Row(n, k).reasons = {}
             /\ d \notin Fits => Row(n, k).split = None /\ Row(n, k).tokens = 0 /\ Row(n, k).reasons # {}
  <2>1. Row(n, k) = RefDecision(d)
    BY <1>4 DEF Row, RefShards, RefShard
  <2>2. d \in AllDocuments
    BY <1>4, Documents
  <2>3. RefMine(d) # {} <=> d \in Fits
    BY <2>2, PrefixIs
  <2>4. /\ RefDecision(d).id = d.id
        /\ RefDecision(d).keep = (RefMine(d) # {})
        /\ RefDecision(d).split = RefRow(d).split /\ RefDecision(d).tokens = RefRow(d).tokens
        /\ RefDecision(d).reasons = IF RefMine(d) = {} /\ RefReasons(d) = {} THEN {"quota_overflow"} ELSE RefReasons(d)
    BY DEF RefDecision
  <2>5. ASSUME d \in Fits
        PROVE  /\ RefRow(d).split = SplitOf[d.group] /\ RefRow(d).split \in ToSet(SplitOrder)
               /\ RefRow(d).tokens = Prefix[d] /\ Prefix[d] \in 1..d.tokens
               /\ RefReasons(d) = {}
    <3>1. /\ RefRow(d) = RowOf(d) /\ RowOf(d).split = SplitOf[d.group] /\ RowOf(d).tokens = Prefix[d]
          /\ Prefix[d] \in Int /\ 1 <= Prefix[d] /\ Prefix[d] <= d.tokens /\ d \in Chosen
      BY <2>5, PrefixIs
    <3>2. d.tokens \in Nat
      BY <2>2, Fields
    <3>3. Prefix[d] \in 1..d.tokens
      BY <3>1, <3>2
    <3> QED BY <2>2, <3>1, <3>3, ChosenFields, RefClean
  <2>6. d \notin Fits => RefRow(d).split = None /\ RefRow(d).tokens = 0 /\ RefMine(d) = {}
    BY <2>3 DEF RefRow
  <2> QED BY <2>1, <2>2, <2>3, <2>4, <2>5, <2>6
<1>5. ASSUME NEW n \in DOMAIN job.reports, NEW k \in DOMAIN job.reports[n]
      PROVE  RowAccepted(Row(n, k), job.reports[n][k])
  BY <1>4 DEF RowAccepted
<1>6. Fits \subseteq AllDocuments /\ Fits \subseteq Chosen
  BY PrefixIs
<1>7. Packed = PackedOf(Fits, Prefix)
  BY <1>4, <1>6, PackedIs
<1>8. \A q \in Quotas : Observed(q) = Totals[q]
  <2>1. \A q \in Quotas : Observed(q) = SummaryOf(PartOf(Fits, q), Prefix)
    BY <1>6, <1>7, ObservedIs
  <2>2. Totals = RefTotals
    BY <1>1 DEF Totals
  <2> QED BY <2>1, <2>2, TotalsCounted
<1>9. \A x, y \in Packed : /\ Alike(x.doc, y.doc) => x = y
                           /\ x.doc.group = y.doc.group => x.split = y.split
  BY <1>6, <1>7, PackedApart
<1>10. SelectionUsable
  BY <1>2, <1>3 DEF SelectionUsable
<1> QED BY <1>5, <1>8, <1>9, <1>10 DEF Packs

\* What is published is exact, and packs once it is signed.
LEMMA SignedPacks == BooksSound /\ OutputsSound /\ PublisherSound => SelectionPacks
<1> SUFFICES ASSUME BooksSound, OutputsSound, PublisherSound PROVE SelectionPacks
  OBVIOUS
<1>1. SoundJob
  BY DEF BooksSound, VolumesSound
<1>2. BitmapsExact
  <2>1. /\ published # None => Missing = {} /\ published.kept = checkpoint.kept
        /\ \A n \in DOMAIN bitmaps : bitmaps[n] # None => bitmaps[n] = [k \in DOMAIN job.reports[n] |-> job.reports[n][k] \in Chosen]
    <3>1. published # None => DOMAIN job.reports \subseteq DOMAIN checkpoint.kept /\ published.kept = checkpoint.kept
      BY DEF PublisherSound, SupplyIs
    <3>2. DOMAIN bitmaps = DOMAIN job.reports
      BY DEF PublisherSound
    <3>3. \A n \in DOMAIN job.reports : bitmaps[n] = None \/ bitmaps[n] = RefBitmap(n)
      BY DEF PublisherSound
    <3> QED BY <3>1, <3>2, <3>3 DEF Missing, Committed, RefBitmap
  <2> QED BY <2>1 DEF BitmapsExact, Chosen
<1>3. Signed => Packs
  <2>1. CASE Handoff
    BY <1>1, <2>1, BitmapsPack DEF Signed, PublisherSound
  <2>2. CASE ~Handoff
    BY <1>1, <2>2, DecisionsPack DEF Signed, OutputsSound
  <2> QED BY <2>1, <2>2
<1>4. Packs => \A r \in Rows : RowAccepted(Row(r[1], r[2]), job.reports[r[1]][r[2]])
  <2>1. \A r \in Rows : \E n \in DOMAIN job.reports : \E k \in DOMAIN job.reports[n] : r = <<n, k>>
    BY DEF Rows
  <2>2. ASSUME Packs, NEW r \in Rows PROVE RowAccepted(Row(r[1], r[2]), job.reports[r[1]][r[2]])
    <3>1. PICK n \in DOMAIN job.reports : \E k \in DOMAIN job.reports[n] : r = <<n, k>>
      BY <2>1, <2>2
    <3>2. PICK k \in DOMAIN job.reports[n] : r = <<n, k>>
      BY <3>1
    <3>3. RowAccepted(Row(n, k), job.reports[n][k])
      BY <2>2 DEF Packs
    <3> QED BY <3>2, <3>3
  <2> QED BY <2>2
<1> QED BY <1>2, <1>3, <1>4 DEF SelectionPacks, Packs

\* What the orchestrator accepts is signed, of a finished database.
LEMMA AcceptedFinished ==
    ASSUME LauncherSound, Handoff, Delivered
    PROVE  Signed /\ Finished(snaps[published.bound].db)
<1>1. InspectCuration = "complete" /\ InspectSelection = "complete"
  BY DEF Delivered
<1>2. launcher.result # None /\ launcher.result # 0
  BY <1>1 DEF InspectCuration, Torn
<1>3. published # None /\ published.signed /\ published.bound = launcher.result
  BY <1>1 DEF InspectSelection
<1>4. Finished(snaps[launcher.result].db)
  BY <1>2 DEF LauncherSound, Launched, Concluded
<1> QED BY <1>3, <1>4 DEF Signed

\* The handoff is consistent: a result names a finished database while its
\* snapshot is there, the orchestrator accepts only the selection of that
\* result (_inspect_curation, _inspect_selection), and a signed selection is
\* one the materializer packs to the end.
THEOREM HandoffStaysConsistent == SelectionSpec => []HandoffConsistent
<1>1. IInv /\ BooksSound /\ OutputsSound /\ HandoffSound => HandoffConsistent
  <2> SUFFICES ASSUME IInv, BooksSound, OutputsSound, HandoffSound PROVE HandoffConsistent
    OBVIOUS
  <2>1. launcher.result # None /\ ~Torn(launcher.result) => Finished(snaps[launcher.result].db)
    BY DEF HandoffSound, LauncherSound, Launched, Concluded, Torn
  <2>2. Handoff /\ Delivered => Signed /\ Finished(snaps[published.bound].db)
    BY AcceptedFinished DEF HandoffSound
  <2>3. SelectionPacks
    BY SignedPacks DEF HandoffSound
  <2> QED BY <2>1, <2>2, <2>3 DEF HandoffConsistent
<1> QED BY <1>1, VolumeInvariant, BooksStaySound, OutputsStaySound, HandoffStaysSound, PTL
=============================================================================
