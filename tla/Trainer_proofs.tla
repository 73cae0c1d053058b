----------------------------- MODULE Trainer_proofs -----------------------------
(***************************************************************************)
(* Proofs about Trainer and the launches of TrainingRun, for any number of *)
(* ranks, any geometry and schedule, and any bounds.                       *)
(*                                                                         *)
(* The ranks hold equal states and stand at compatible points, so each     *)
(* decides alike; what is known at a point says which validations and      *)
(* saves lie behind it; a vote to stop is never taken back in a launch.    *)
(***************************************************************************)
EXTENDS TrainingRun, TLAPS

Codes == {"done", "stopped"}
Waiting == {"poll", "reduce"}
Places == {"start", "start_eval", "catch_up", "update", "periodic", "final"}
Points ==
    (Waiting \X Places) \cup ({"eval"} \X {"start", "catch_up", "loop"})
    \cup ({"update"} \X {"loop"}) \cup ({"save"} \X {"catch_up", "periodic", "stop", "final"})
    \cup ({"exit"} \X Codes) \cup ({"down"} \X {"down"})

TypeOK ==
    /\ pc \in [Ranks -> Points] /\ state \in [Ranks -> TrainState]
    /\ cached \in [Ranks -> Nat \cup {None}] /\ loader \in [Ranks -> Nat]
    /\ requested \in [Ranks -> BOOLEAN] /\ vote \in [Ranks -> BOOLEAN]
    /\ exit \in [Ranks -> Codes \cup {None}]
    /\ checkpoint \in TrainState \cup {None}
    /\ signalled \in BOOLEAN /\ stopFile \in BOOLEAN
    /\ outcome \in Codes \cup {"refused", None}

(* What a state is on any rank and in any checkpoint.                      *)
Consistent(s) == Loadable(s) /\ Exact(s) /\ (EvalAtStart /\ s.steps > 0 => s.startValidated)
Settled(s) == ~Due(s) /\ ~StartDue(s)
Complete(s) == s.steps = MaxSteps /\ s.validated = MaxSteps /\ (EvalAtStart => s.startValidated)
Grown(old, s) ==
    /\ old.steps <= s.steps
    /\ \A k \in 1..old.steps : s.weights[k] = old.weights[k]
    /\ old.validated <= s.validated
    /\ old.startValidated => s.startValidated
    /\ old.tracked => s.tracked

Alike == \A r, q \in Ranks : state[r] = state[q] /\ cached[r] = cached[q]
Sane == \A r \in Ranks : Consistent(state[r]) /\ loader[r] = state[r].microbatches

(* Ranks stand at one point, up to who has polled and who has exited.      *)
Compatible(r, q) ==
    \/ pc[r] = pc[q]
    \/ pc[r][1] \in Waiting /\ pc[q][1] \in Waiting /\ pc[r][2] = pc[q][2]
    \/ pc[r] = <<"exit", exit[q]>> /\ pc[q] = <<"down", "down">>
    \/ pc[q] = <<"exit", exit[r]>> /\ pc[r] = <<"down", "down">>
Together == \A r, q \in Ranks : Compatible(r, q)

(* What a rank's point says of its state.                                  *)
Placed(point, s) ==
    /\ point[1] \in Waiting /\ point[2] \in {"start_eval", "update"} => ~StartDue(s)
    /\ point[2] \in {"catch_up", "periodic"} /\ point[1] # "eval" => Settled(s)
    /\ point = <<"eval", "start">> => StartDue(s)
    /\ point \in {<<"eval", "catch_up">>, <<"eval", "loop">>} => Due(s) /\ ~StartDue(s)
    /\ point[1] = "update" => Settled(s) /\ s.steps < MaxSteps
    /\ point = <<"exit", "done">> => Complete(s)
Located == \A r \in Ranks : Placed(pc[r], state[r])

(* A launch in which some rank has voted to stop only winds down.          *)
Stopping == \E q \in Ranks : vote[q]
Winding(point) ==
    \/ point[1] \in Waiting
    \/ point \in {<<"save", "stop">>, <<"save", "final">>, <<"exit", "stopped">>, <<"down", "down">>}
Voted == \A r \in Ranks : vote[r] => requested[r]
WindsDown == \A r \in Ranks :
    /\ Stopping => Winding(pc[r]) /\ exit[r] # "done"
    /\ pc[r] = <<"save", "stop">> => Stopping
    /\ pc[r][2] = "final" => Stopping \/ Complete(state[r])

(* What is in the checkpoint.                                              *)
Cached == \A r \in Ranks :
    cached[r] # None => /\ cached[r] <= state[r].steps
                        /\ cached[r] = state[r].steps => checkpoint = state[r]
Kept == checkpoint # None =>
    Consistent(checkpoint) /\ \A r \in Ranks : Grown(checkpoint, state[r])
Saved == \A r \in Ranks :
    /\ pc[r][1] \in Waiting /\ pc[r][2] = "final" => checkpoint = state[r]
    /\ pc[r][1] = "exit" => checkpoint = state[r]
    /\ exit[r] # None => pc[r] = <<"down", "down">> /\ checkpoint = state[r]
    /\ exit[r] = "done" => Complete(state[r])
Reported == outcome # None =>
    /\ Down /\ outcome # "refused"
    /\ outcome = "done" => checkpoint # None /\ Complete(checkpoint)

IInv == TypeOK /\ Alike /\ Sane /\ Together /\ Located /\ Voted /\ WindsDown /\ Cached /\ Kept
        /\ Saved /\ Reported
-----------------------------------------------------------------------------
(* The geometry of a window.                                                *)

\* Division with remainder, as the two splits of a row position use it.
LEMMA DivMod ==
    ASSUME NEW d \in Nat, NEW n \in Nat \ {0}
    PROVE  d \div n \in Nat /\ d % n \in 0..n - 1 /\ d = (d \div n) * n + (d % n)
  BY SMT

\* Multiplication keeps and reflects the order of naturals.
LEMMA Scaling ==
    ASSUME NEW a \in Nat, NEW b \in Nat, NEW n \in Nat \ {0}
    PROVE  (a <= b => a * n <= b * n) /\ (a * n < b * n => a < b)
  BY SMT

WindowAt(m) == UNION {Slice(r, m + a) : r \in Ranks, a \in 0..Accumulation - 1}

\* The slices of all ranks over an accumulation window are the next positions of
\* the order, each in one slice (DistributedBatchSampler).
LEMMA WindowIsInterval ==
    ASSUME NEW m \in Nat
    PROVE  WindowAt(m) = (m * GlobalRows)..((m + Accumulation) * GlobalRows - 1)
<1> DEFINE Union == WindowAt(m)
           G == GlobalRows
<1>0. G \in Nat \ {0} /\ G = WorldSize * LocalRows
  BY GeometryAssumption DEF GlobalRows
<1> HIDE DEF G
<1>1. ASSUME NEW x \in Union PROVE x \in (m * G)..((m + Accumulation) * G - 1)
  <2>1. PICK r \in Ranks, a \in 0..Accumulation - 1, k \in 0..LocalRows - 1 :
          x = (m + a) * G + r * LocalRows + k
    BY <1>1 DEF Slice, G, WindowAt
  <2>2. r * LocalRows + k \in 0..G - 1
    <3>1. r * LocalRows <= (WorldSize - 1) * LocalRows /\ r * LocalRows \in Nat
      BY Scaling, GeometryAssumption DEF Ranks
    <3>2. (WorldSize - 1) * LocalRows = G - LocalRows
      BY <1>0, GeometryAssumption
    <3> QED BY <3>1, <3>2, <1>0, GeometryAssumption
  <2>3. (m + a) * G = m * G + a * G /\ m * G \in Nat /\ a * G \in Nat
    BY <1>0, GeometryAssumption
  <2>4. (m + a + 1) * G <= (m + Accumulation) * G /\ (m + a + 1) * G = (m + a) * G + G
    BY <1>0, Scaling, GeometryAssumption
  <2>5. (m + Accumulation) * G \in Nat /\ (m + a) * G \in Nat
    BY <1>0, GeometryAssumption
  <2> QED BY <2>1, <2>2, <2>3, <2>4, <2>5, <1>0, GeometryAssumption DEF Ranks
<1>2. ASSUME NEW x \in (m * G)..((m + Accumulation) * G - 1) PROVE x \in Union
  <2> DEFINE d == x - m * G
             a == d \div G
             e == d % G
             r == e \div LocalRows
             k == e % LocalRows
  <2>1. d \in Nat /\ d < Accumulation * G /\ x = m * G + d
    <3>1. m * G \in Nat /\ (m + Accumulation) * G = m * G + Accumulation * G
             /\ Accumulation * G \in Nat
      BY <1>0, GeometryAssumption
    <3> QED BY <3>1, <1>2
  <2>2. a \in Nat /\ e \in 0..G - 1 /\ d = a * G + e
    <3> HIDE DEF d
    <3> QED BY <2>1, <1>0, DivMod
  <2> HIDE DEF a, e, d
  <2>3. a \in 0..Accumulation - 1
    <3>1. a * G \in Nat /\ a * G < Accumulation * G
      BY <2>1, <2>2, <1>0, GeometryAssumption
    <3> QED BY <3>1, <2>2, <1>0, Scaling, GeometryAssumption
  <2>4. r \in Nat /\ k \in 0..LocalRows - 1 /\ e = r * LocalRows + k
    <3>1. e \in Nat
      BY <2>2, <1>0
    <3> QED BY <3>1, DivMod, GeometryAssumption
  <2> HIDE DEF r, k
  <2>5. r \in Ranks
    <3>1. r * LocalRows \in Nat /\ r * LocalRows < WorldSize * LocalRows
      BY <2>2, <2>4, <1>0, GeometryAssumption
    <3> QED BY <3>1, <2>4, Scaling, GeometryAssumption DEF Ranks
  <2>6. x = (m + a) * G + r * LocalRows + k
    <3>1. (m + a) * G = m * G + a * G /\ m * G \in Nat /\ a * G \in Nat /\ r * LocalRows \in Nat
      BY <1>0, <2>3, <2>4, GeometryAssumption
    <3> QED BY <3>1, <2>1, <2>2, <2>4
  <2>7. x \in Slice(r, m + a)
    BY <2>4, <2>6 DEF Slice, G
  <2> QED BY <2>3, <2>5, <2>7 DEF WindowAt
<1> QED BY <1>1, <1>2 DEF G

-----------------------------------------------------------------------------
(* What a rank does next.                                                   *)

\* Rank zero exists.
LEMMA RankZero == 0 \in Ranks
  BY GeometryAssumption DEF Ranks

\* A fresh state is consistent.
LEMMA FreshConsistent == Fresh \in TrainState /\ Consistent(Fresh)
<1>1. Fresh \in TrainState
  BY DEF Fresh, TrainState
<1>2. Loadable(Fresh) /\ (EvalAtStart /\ Fresh.steps > 0 => Fresh.startValidated)
  BY GeometryAssumption DEF Loadable, Fresh
<1>3. Exact(Fresh)
  BY DEF Exact, Fresh
<1> QED BY <1>1, <1>2, <1>3 DEF Consistent

\* Consistency and growth do not look at the tracker identity a launch binds
\* (_bind_wandb_run_id).
LEMMA TrackerBound ==
    ASSUME NEW s \in TrainState, NEW b \in BOOLEAN, Consistent(s)
    PROVE  LET t == [s EXCEPT !.tracked = @ \/ b]
           IN  t \in TrainState /\ Consistent(t) /\ Grown(s, t) /\ (~b => t = s)
                 /\ t.steps = s.steps /\ t.microbatches = s.microbatches
<1> DEFINE t == [s EXCEPT !.tracked = @ \/ b]
<1>1. t \in TrainState /\ t.steps = s.steps /\ t.microbatches = s.microbatches
         /\ t.validated = s.validated /\ t.startValidated = s.startValidated
         /\ t.weights = s.weights /\ t.tracked = (s.tracked \/ b)
  BY DEF TrainState
<1>2. ~b => t = s
  BY DEF TrainState
<1> HIDE DEF t
<1>3. Consistent(t)
  BY <1>1 DEF Consistent, Loadable, Exact
<1>4. Grown(s, t)
  BY <1>1 DEF Grown, TrainState
<1> QED BY <1>1, <1>2, <1>3, <1>4 DEF t

\* Growth is transitive.
LEMMA GrownFurther ==
    ASSUME NEW a \in TrainState, NEW b \in TrainState, NEW c \in TrainState,
           Grown(a, b), Grown(b, c)
    PROVE  Grown(a, c)
<1>1. a.steps \in Nat /\ b.steps \in Nat /\ c.steps \in Nat
        /\ a.validated \in Nat /\ b.validated \in Nat /\ c.validated \in Nat
  BY DEF TrainState
<1>2. \A k \in 1..a.steps : c.weights[k] = a.weights[k]
  BY <1>1 DEF Grown
<1> QED BY <1>1, <1>2 DEF Grown

\* A validation makes the state consistent with the schedule again
\* (evaluate_validation).
LEMMA ValidatedSettles ==
    ASSUME NEW s \in TrainState, Consistent(s), StartDue(s) \/ (Due(s) /\ ~StartDue(s))
    PROVE  LET t == Validated(s)
           IN  /\ t \in TrainState /\ Consistent(t) /\ Grown(s, t) /\ Settled(t)
               /\ t.steps = s.steps /\ t.microbatches = s.microbatches
<1> DEFINE t == Validated(s)
<1>1. t \in TrainState /\ t.steps = s.steps /\ t.microbatches = s.microbatches
         /\ t.weights = s.weights /\ t.tracked = s.tracked
  BY DEF Validated, TrainState
<1>2. CASE StartDue(s)
  <2>1. t.startValidated = TRUE /\ t.validated = s.validated
    BY <1>2 DEF StartDue, Validated, TrainState
  <2> HIDE DEF t
  <2> QED BY <1>1, <1>2, <2>1, GeometryAssumption, ScheduleAssumption
          DEF t, StartDue, Due, Settled, Grown, Consistent, Loadable, Exact, TrainState
<1>3. CASE Due(s) /\ ~StartDue(s)
  <2>1. s.steps > s.validated /\ s.steps # 0
    BY <1>3 DEF Due, TrainState
  <2>2. t.startValidated = s.startValidated /\ t.validated = s.steps
    BY <2>1 DEF Validated, TrainState
  <2> HIDE DEF t
  <2> QED BY <1>1, <1>3, <2>1, <2>2, GeometryAssumption, ScheduleAssumption
          DEF t, StartDue, Due, Settled, Grown, Consistent, Loadable, Exact, TrainState
<1> QED BY <1>2, <1>3

\* A settled state goes on to an update, or to the final save when it is complete.
LEMMA AdvanceFits ==
    ASSUME NEW s \in TrainState, Consistent(s), Settled(s)
    PROVE  /\ Advance(s) \in {<<"save", "final">>, <<"update", "loop">>}
           /\ Placed(Advance(s), s)
           /\ Advance(s) = <<"save", "final">> => Complete(s)
<1>1. s.steps = MaxSteps => Complete(s)
  BY GeometryAssumption DEF Consistent, Loadable, Settled, Due, Complete, TrainState
<1>2. s.steps # MaxSteps => s.steps < MaxSteps
  BY GeometryAssumption DEF Consistent, Loadable, TrainState
<1> QED BY <1>1, <1>2 DEF Advance, Placed, Waiting

\* After a validation or an update without one: save or poll (train).
LEMMA PeriodicFits ==
    ASSUME NEW s \in TrainState, Settled(s)
    PROVE  /\ Periodic(s) \in {<<"save", "periodic">>, <<"poll", "periodic">>}
           /\ Placed(Periodic(s), s)
  BY DEF Periodic, Placed, Waiting, Settled

\* Where a reduction without a vote leads: to a point that fits the state, and to
\* the end only when everything is done.
LEMMA ContinueFits ==
    ASSUME NEW s \in TrainState, Consistent(s), NEW place \in Places,
           Placed(<<"reduce", place>>, s), place = "final" => Complete(s),
           NEW p, p = AfterContinue(s, place)
    PROVE  /\ p \in Points /\ Placed(p, s)
           /\ p[1] \in {"eval", "update", "save", "poll", "exit"}
           /\ p[2] \notin {"stop", "stopped"}
           /\ p[2] = "final" => Complete(s) /\ p[1] = "save"
           /\ p[1] = "exit" => place = "final" /\ p = <<"exit", "done">>
<1>1. CASE place \in {"start", "start_eval"} /\ ~Settled(s)
  <2>1. p \in {<<"eval", "start">>, <<"eval", "catch_up">>} /\ Placed(p, s)
    BY <1>1 DEF AfterContinue, CatchUp, Settled, Placed, Waiting
  <2> QED BY <2>1 DEF Points
<1>2. CASE Settled(s) /\ place \in {"start", "start_eval", "catch_up", "periodic"}
  <2>1. p = Advance(s)
    BY <1>2 DEF AfterContinue, CatchUp, Settled
  <2> QED BY <2>1, <1>2, AdvanceFits DEF Points
<1>3. CASE place = "update"
  <2>1. ~StartDue(s)
    BY <1>3 DEF Placed, Waiting
  <2>2. CASE Due(s)
    <3>1. p = <<"eval", "loop">> /\ Placed(p, s)
      BY <1>3, <2>1, <2>2 DEF AfterContinue, Placed, Waiting
    <3> QED BY <3>1 DEF Points
  <2>3. CASE ~Due(s)
    <3>1. p = Periodic(s) /\ Settled(s)
      BY <1>3, <2>1, <2>3 DEF AfterContinue, Settled
    <3> QED BY <3>1, PeriodicFits DEF Points, Waiting, Places
  <2> QED BY <2>2, <2>3
<1>4. CASE place = "final"
  <2>1. p = <<"exit", "done">> /\ Placed(p, s)
    BY <1>4 DEF AfterContinue, Placed, Waiting
  <2> QED BY <2>1, <1>4 DEF Points, Codes
<1>5. place \in {"catch_up", "periodic"} => Settled(s)
  BY DEF Placed, Waiting
<1> QED BY <1>1, <1>2, <1>3, <1>4, <1>5 DEF Places

\* Where a validation leads.
LEMMA AfterEvalFits ==
    ASSUME NEW s \in TrainState, Settled(s), NEW place \in {"start", "catch_up", "loop"},
           NEW p, p = AfterEval(s, place)
    PROVE  /\ p \in Points /\ Placed(p, s)
           /\ p[1] \in {"save", "poll"} /\ p[2] \in {"start_eval", "catch_up", "periodic"}
<1>1. CASE place \in {"start", "catch_up"}
  <2>1. p \in {<<"poll", "start_eval">>, <<"save", "catch_up">>}
    BY <1>1 DEF AfterEval
  <2> QED BY <2>1 DEF Points, Waiting, Places, Placed, Settled
<1>2. CASE place = "loop"
  <2>1. p = Periodic(s)
    BY <1>2 DEF AfterEval
  <2> QED BY <2>1, PeriodicFits DEF Points, Waiting, Places
<1> QED BY <1>1, <1>2

\* Where a save leads.
LEMMA AfterSaveFits ==
    ASSUME NEW s \in TrainState, NEW place \in {"catch_up", "periodic", "stop", "final"},
           Placed(<<"save", place>>, s), NEW p, p = AfterSave(place)
    PROVE  /\ p \in Points /\ Placed(p, s)
           /\ place = "stop" => p = <<"save", "final">>
           /\ place # "stop" => p = <<"poll", place>>
  BY DEF AfterSave, Points, Waiting, Places, Placed

-----------------------------------------------------------------------------
(* Each action keeps the invariant.                                         *)

\* The invariant reads neither the bounds' counters nor the other modules'
\* variables.
LEMMA Unread ==
    ASSUME IInv, UNCHANGED <<pc, memory, checkpoint, supervisor>>
    PROVE  IInv'
<1> USE DEF memory, supervisor
<1>1. TypeOK' /\ Alike' /\ Sane' /\ Together' /\ Located' /\ Voted' /\ WindsDown' /\ Cached'
        /\ Kept' /\ Saved' /\ Reported'
  BY DEF IInv, TypeOK, Alike, Sane, Together, Compatible, Located, Voted, WindsDown, Stopping,
         Cached, Kept, Saved, Reported, Down
<1> QED BY <1>1 DEF IInv

\* A request sets a flag that only polls and the supervisor read.
LEMMA SignalStep == ASSUME IInv, NEW r \in Ranks, Signal(r) PROVE IInv'
<1> USE DEF Signal, supervisor
<1>1. TypeOK' /\ Alike' /\ Sane' /\ Together' /\ Located' /\ Voted' /\ WindsDown' /\ Cached'
        /\ Kept' /\ Saved' /\ Reported'
  BY DEF IInv, TypeOK, Alike, Sane, Together, Compatible, Located, Voted, WindsDown, Stopping,
         Cached, Kept, Saved, Reported, Down
<1> QED BY <1>1 DEF IInv

\* The supervisor's part in a stop.
LEMMA SupervisorStopStep == ASSUME IInv, SignalSupervisor \/ PublishStop PROVE IInv'
<1> USE DEF SignalSupervisor, PublishStop, memory
<1>1. TypeOK'
  BY DEF IInv, TypeOK
<1>2. Alike' /\ Sane' /\ Together' /\ Located' /\ Voted' /\ WindsDown' /\ Cached'
        /\ Kept' /\ Saved' /\ Reported'
  BY DEF IInv, Alike, Sane, Together, Compatible, Located, Voted, WindsDown, Stopping,
         Cached, Kept, Saved, Reported, Down
<1> QED BY <1>1, <1>2 DEF IInv

\* When every process is gone, by whatever end, only the checkpoint speaks.
LEMMA EndedStep ==
    ASSUME IInv, AllDown, exit' = [r \in Ranks |-> None], outcome' \in {outcome, "stopped"},
           UNCHANGED <<state, cached, loader, requested, vote, checkpoint, signalled, stopFile>>
    PROVE  IInv'
<1> USE DEF AllDown
<1>1. TypeOK'
  BY DEF IInv, TypeOK, Points, Codes
<1>2. Alike' /\ Sane' /\ Together' /\ Voted' /\ Cached' /\ Kept'
  BY DEF IInv, Alike, Sane, Together, Compatible, Voted, Cached, Kept
<1>3. Located'
  BY DEF IInv, Located, Placed, Waiting
<1>4. WindsDown'
  BY NoneAssumption DEF WindsDown, Winding, Stopping
<1>5. Saved'
  BY NoneAssumption DEF Saved, Waiting
<1>6. Reported'
  BY DEF IInv, Reported, Down
<1> QED BY <1>1, <1>2, <1>3, <1>4, <1>5, <1>6 DEF IInv

\* The supervisor reports success only when every rank exited with success.
LEMMA SupervisorReturnsStep == ASSUME IInv, SupervisorReturns PROVE IInv'
<1> USE DEF SupervisorReturns, memory
<1>1. TypeOK'
  BY DEF IInv, TypeOK, Codes
<1>2. Alike' /\ Sane' /\ Together' /\ Located' /\ Voted' /\ WindsDown' /\ Cached' /\ Kept' /\ Saved'
  BY DEF IInv, Alike, Sane, Together, Compatible, Located, Voted, WindsDown, Stopping, Cached,
         Kept, Saved
<1>3. Reported'
  <2>1. outcome' \in {"done", "stopped"} /\ Down'
    BY DEF Down
  <2>2. CASE outcome' = "done"
    <3>1. exit[0] = "done"
      BY <2>2, RankZero
    <3>2. checkpoint = state[0] /\ Complete(state[0]) /\ checkpoint # None
      BY <3>1, RankZero, NoneAssumption DEF IInv, Saved, TypeOK
    <3> QED BY <3>2, <2>1, <2>2 DEF Reported
  <2> QED BY <2>1, <2>2 DEF Reported
<1> QED BY <1>1, <1>2, <1>3 DEF IInv

\* A poll moves one rank on to the reduction its peers are also bound for, and a
\* vote once cast stays.
LEMMA PollStep == ASSUME IInv, NEW r \in Ranks, Poll(r) PROVE IInv'
<1> USE DEF Poll, supervisor
<1>0. /\ pc[r] \in Points /\ pc[r][1] = "poll" /\ pc[r][2] \in Places
      /\ pc' = [pc EXCEPT ![r] = <<"reduce", pc[r][2]>>]
      /\ \A q \in Ranks : pc[q][1] \in Waiting /\ pc[q][2] = pc[r][2]
  <2>1. pc[r] \in Points /\ pc[r][1] = "poll"
    BY DEF IInv, TypeOK
  <2>2. pc[r][2] \in Places
    BY <2>1 DEF Points
  <2>3. \A q \in Ranks : pc[q][1] \in Waiting /\ pc[q][2] = pc[r][2]
    BY <2>1 DEF IInv, Together, Compatible, Waiting
  <2> QED BY <2>1, <2>2, <2>3
<1>1. TypeOK'
  BY <1>0 DEF IInv, TypeOK, Points, Waiting
<1>2. Alike' /\ Sane' /\ Voted' /\ Cached' /\ Kept'
  BY DEF IInv, TypeOK, Alike, Sane, Voted, Cached, Kept
<1>3. \A q \in Ranks : pc'[q][1] \in Waiting /\ pc'[q][2] = pc[r][2]
  BY <1>0 DEF IInv, TypeOK, Waiting
<1>4. Together'
  BY <1>3 DEF Together, Compatible
<1>5. Located'
  <2> SUFFICES ASSUME NEW q \in Ranks PROVE Placed(pc'[q], state[q])
    BY DEF Located
  <2>1. CASE q = r
    BY <2>1, <1>0 DEF IInv, TypeOK, Located, Placed, Waiting
  <2>2. CASE q # r
    BY <2>2, <1>0 DEF IInv, TypeOK, Located
  <2> QED BY <2>1, <2>2
<1>6. WindsDown'
  <2>1. Stopping => Stopping'
    BY DEF IInv, TypeOK, Voted, Stopping
  <2>2. \A q \in Ranks : exit[q] = None
    BY <1>0 DEF IInv, Saved, Waiting
  <2> QED BY <1>0, <1>3, <2>1, <2>2, NoneAssumption DEF IInv, WindsDown, Winding, Waiting
<1>7. Saved'
  BY <1>0, <1>3 DEF IInv, Saved, Waiting
<1>8. Reported'
  BY <1>0, RankZero DEF IInv, Reported, Down
<1> QED BY <1>1, <1>2, <1>4, <1>5, <1>6, <1>7, <1>8 DEF IInv

\* A rank that exits leaves the checkpoint that all ranks agreed on.
LEMMA ExitStep == ASSUME IInv, NEW r \in Ranks, Exit(r) PROVE IInv'
<1> USE DEF Exit, supervisor
<1>0. /\ pc[r] \in {<<"exit", "done">>, <<"exit", "stopped">>}
      /\ \A q \in Ranks : pc[q] = pc[r] \/ (pc[q] = <<"down", "down">> /\ exit[q] = pc[r][2])
      /\ exit' = [exit EXCEPT ![r] = pc[r][2]]
      /\ pc' = [pc EXCEPT ![r] = <<"down", "down">>]
  <2>1. pc[r] \in {<<"exit", "done">>, <<"exit", "stopped">>}
    <3>1. pc[r] \in Points /\ pc[r][1] = "exit"
      BY DEF IInv, TypeOK
    <3>2. pc[r] \in {"exit"} \X Codes
      BY <3>1 DEF Points, Waiting
    <3> QED BY <3>2 DEF Codes
  <2>2. \A q \in Ranks : pc[q] = pc[r] \/ (pc[q] = <<"down", "down">> /\ exit[q] = pc[r][2])
    BY <2>1 DEF IInv, Together, Compatible, Waiting
  <2> QED BY <2>1, <2>2
<1>1. TypeOK'
  BY <1>0 DEF IInv, TypeOK, Points, Codes
<1>2. Alike' /\ Sane' /\ Voted' /\ Cached' /\ Kept'
  BY DEF IInv, Alike, Sane, Voted, Cached, Kept
<1>3. \A q \in Ranks :
          pc'[q] = pc[r] \/ (pc'[q] = <<"down", "down">> /\ exit'[q] = pc[r][2])
  BY <1>0 DEF IInv, TypeOK
<1>4. Together'
  <2> SUFFICES ASSUME NEW q \in Ranks, NEW p \in Ranks PROVE Compatible(q, p)'
    BY DEF Together
  <2>1. pc[r] = <<"exit", pc[r][2]>>
    BY <1>0
  <2> QED BY <1>3, <2>1 DEF Compatible
<1>5. Located'
  BY <1>0 DEF IInv, TypeOK, Located, Placed, Waiting
<1>6. WindsDown'
  BY <1>0 DEF IInv, TypeOK, WindsDown, Winding, Stopping, Waiting
<1>7. Saved'
  <2> SUFFICES ASSUME NEW q \in Ranks
               PROVE  /\ pc'[q][1] \notin Waiting
                      /\ pc'[q][1] = "exit" => checkpoint = state[q]
                      /\ exit'[q] # None => pc'[q] = <<"down", "down">> /\ checkpoint = state[q]
                      /\ exit'[q] = "done" => Complete(state[q])
    BY DEF Saved
  <2>1. CASE q = r
    BY <2>1, <1>0 DEF IInv, TypeOK, Saved, Located, Placed, Waiting
  <2>2. CASE q # r
    BY <2>2, <1>0, <1>3 DEF IInv, TypeOK, Saved, Waiting
  <2> QED BY <2>1, <2>2
<1>8. Reported'
  BY <1>0, RankZero DEF IInv, Reported, Down
<1> QED BY <1>1, <1>2, <1>4, <1>5, <1>6, <1>7, <1>8 DEF IInv

\* A launch starts all ranks from one consistent state: the checkpoint's, or a
\* fresh one.  It is never refused.
LEMMA LaunchStep == ASSUME IInv, NEW track \in BOOLEAN, Launch(track) PROVE IInv'
<1> DEFINE newly == track /\ ~Restored.tracked
           started == [Restored EXCEPT !.tracked = @ \/ newly]
<1>1. Restored \in TrainState /\ Consistent(Restored)
        /\ Restored = (IF checkpoint = None THEN Fresh ELSE checkpoint)
  BY FreshConsistent DEF Restored, IInv, TypeOK, Kept
<1>2. newly \in BOOLEAN
  BY <1>1 DEF TrainState
<1>3. /\ pc' = [r \in Ranks |-> <<"poll", "start">>]
      /\ state' = [r \in Ranks |-> started]
      /\ cached' = [r \in Ranks |-> IF checkpoint = None \/ newly THEN None ELSE Restored.steps]
      /\ loader' = [r \in Ranks |-> Restored.microbatches]
      /\ outcome' = None
  BY <1>1 DEF Launch, Consistent, CacheAfterLoad, LoaderStart
<1>4. /\ requested' = [r \in Ranks |-> FALSE] /\ vote' = [r \in Ranks |-> FALSE]
      /\ signalled' = FALSE /\ stopFile' = FALSE
      /\ exit' = [r \in Ranks |-> None] /\ checkpoint' = checkpoint
  BY DEF Launch, NoRequest
<1> HIDE DEF newly
<1>5. /\ started \in TrainState /\ Consistent(started) /\ Grown(Restored, started)
      /\ ~newly => started = Restored
      /\ started.steps = Restored.steps /\ started.microbatches = Restored.microbatches
  BY <1>1, <1>2, TrackerBound
<1> HIDE DEF started
<1>6. TypeOK'
  <2>1. pc' \in [Ranks -> Points]
    BY <1>3 DEF Points, Waiting, Places
  <2>2. state' \in [Ranks -> TrainState] /\ loader' \in [Ranks -> Nat]
          /\ cached' \in [Ranks -> Nat \cup {None}]
    BY <1>1, <1>3, <1>5 DEF TrainState
  <2> QED BY <2>1, <2>2, <1>3, <1>4 DEF IInv, TypeOK
<1>7. Alike' /\ Sane' /\ Together' /\ Voted'
  BY <1>3, <1>4, <1>5 DEF Alike, Sane, Together, Compatible, Voted
<1>8. Located'
  BY <1>3 DEF Located, Placed, Waiting
<1>9. WindsDown'
  BY <1>3, <1>4 DEF WindsDown, Winding, Stopping, Waiting
<1>10. Cached'
  <2>1. CASE checkpoint = None \/ newly
    BY <2>1, <1>3 DEF Cached
  <2>2. CASE checkpoint # None /\ ~newly
    <3>1. Restored = checkpoint /\ started = checkpoint /\ checkpoint.steps \in Nat
      BY <2>2, <1>1, <1>5 DEF TrainState
    <3> QED BY <3>1, <1>3, <1>4 DEF Cached
  <2> QED BY <2>1, <2>2
<1>11. Kept'
  BY <1>1, <1>3, <1>4, <1>5 DEF Kept
<1>12. Saved'
  BY <1>3, <1>4, NoneAssumption DEF Saved, Waiting
<1>13. Reported'
  BY <1>3 DEF Reported
<1> QED BY <1>6, <1>7, <1>8, <1>9, <1>10, <1>11, <1>12, <1>13 DEF IInv

\* The reduction gives every rank the same answer, so they go on together.
LEMMA ReduceStep == ASSUME IInv, Reduce PROVE IInv'
<1>0. UNCHANGED <<memory, checkpoint, supervisor>>
  BY DEF Reduce
<1> USE <1>0 DEF supervisor, memory
<1> DEFINE place == pc[0][2]
           point == IF Stopping THEN AfterStop(place) ELSE AfterContinue(state[0], place)
<1>1. /\ \A r \in Ranks : pc[r] = <<"reduce", place>> /\ state[r] = state[0]
      /\ place \in Places /\ state[0] \in TrainState /\ Consistent(state[0])
      /\ Placed(<<"reduce", place>>, state[0])
  <2>1. \A r \in Ranks : pc[r] = <<"reduce", place>> /\ pc[r][2] \in Places
    <3>1. \A r \in Ranks : pc[r] \in Waiting \X Places /\ pc[r][1] = "reduce"
      BY DEF Reduce, AllAt, IInv, TypeOK, Points, Waiting
    <3>2. \A r \in Ranks : pc[r][2] = place
      BY <3>1, RankZero DEF IInv, Together, Compatible, Waiting
    <3> QED BY <3>1, <3>2
  <2>2. \A r \in Ranks : state[r] = state[0]
    BY RankZero DEF IInv, Alike
  <2>3. state[0] \in TrainState /\ Consistent(state[0]) /\ Placed(pc[0], state[0])
    BY RankZero DEF IInv, TypeOK, Sane, Located
  <2> QED BY <2>1, <2>2, <2>3, RankZero
<1>2. pc' = [r \in Ranks |-> point]
  BY <1>1 DEF Reduce, Agreed, Stopping
<1> HIDE DEF place
<1>3. \A r \in Ranks : exit[r] = None
  BY <1>1 DEF IInv, Saved
<1>4. place = "final" => checkpoint = state[0] /\ (Stopping \/ Complete(state[0]))
  BY <1>1, RankZero DEF IInv, Saved, WindsDown, Waiting
<1>5. Stopping => point = IF place = "final" THEN <<"exit", "stopped">> ELSE <<"save", "stop">>
  BY DEF AfterStop
<1>6. ~Stopping =>
        /\ point \in Points /\ Placed(point, state[0])
        /\ point[1] \in {"eval", "update", "save", "poll", "exit"}
        /\ point[2] \notin {"stop", "stopped"}
        /\ point[2] = "final" => Complete(state[0]) /\ point[1] = "save"
        /\ point[1] = "exit" => place = "final" /\ point = <<"exit", "done">>
  BY <1>1, <1>4, ContinueFits
<1> HIDE DEF point
<1>7. point \in Points /\ Placed(point, state[0])
  BY <1>5, <1>6 DEF Points, Codes, Waiting, Placed
<1>8. TypeOK'
  BY <1>2, <1>7 DEF IInv, TypeOK
<1>9. Alike' /\ Sane' /\ Together' /\ Voted' /\ Cached' /\ Kept'
  BY <1>2 DEF IInv, Alike, Sane, Together, Compatible, Voted, Cached, Kept
<1>10. Located'
  BY <1>1, <1>2, <1>7 DEF Located
<1>11. WindsDown'
  <2>1. Stopping' = Stopping
    BY DEF Stopping
  <2>2. CASE Stopping
    BY <2>1, <2>2, <1>1, <1>2, <1>3, <1>5, NoneAssumption DEF WindsDown, Winding
  <2>3. CASE ~Stopping
    BY <2>1, <2>3, <1>1, <1>2, <1>6 DEF WindsDown
  <2> QED BY <2>2, <2>3
<1>12. Saved'
  <2>1. point[1] = "exit" => checkpoint = state[0]
    BY <1>4, <1>5, <1>6
  <2>2. point[1] \in Waiting => point[2] # "final"
    BY <1>5, <1>6 DEF Waiting
  <2> QED BY <2>1, <2>2, <1>1, <1>2, <1>3, NoneAssumption DEF Saved
<1>13. Reported'
  BY <1>1, RankZero DEF IInv, Reported, Down
<1> QED BY <1>8, <1>9, <1>10, <1>11, <1>12, <1>13 DEF IInv

\* Ranks in a validation, an update or a save are at one point, with no exit yet.
LEMMA InLockstep ==
    ASSUME IInv, NEW operation \in {"eval", "update", "save"}, AllAt(operation)
    PROVE  /\ \A r \in Ranks : pc[r] = pc[0] /\ exit[r] = None
           /\ pc[0] \in Points /\ pc[0][1] = operation
           /\ outcome = None
<1>1. \A r \in Ranks : pc[r] \in Points /\ pc[r][1] = operation
  BY DEF AllAt, IInv, TypeOK
<1>2. \A r \in Ranks : pc[r] = pc[0]
  BY <1>1, RankZero DEF IInv, Together, Compatible, Waiting
<1>3. \A r \in Ranks : exit[r] = None
  BY <1>1 DEF IInv, Saved
<1>4. outcome = None
  BY <1>1, RankZero DEF IInv, Reported, Down
<1> QED BY <1>1, <1>2, <1>3, <1>4, RankZero

\* A validation records its progress and forgets the save of this step.
LEMMA EvaluateStep == ASSUME IInv, Evaluate PROVE IInv'
<1>0. /\ UNCHANGED <<loader, requested, vote, exit, checkpoint, supervisor>>
      /\ AllAt("eval")
  BY DEF Evaluate
<1> USE <1>0 DEF supervisor
<1> DEFINE place == pc[0][2]
           t == Validated(state[0])
           point == AfterEval(t, place)
<1>1. /\ \A r \in Ranks : pc[r] = <<"eval", place>> /\ state[r] = state[0] /\ exit[r] = None
      /\ place \in {"start", "catch_up", "loop"} /\ outcome = None
      /\ state[0] \in TrainState /\ Consistent(state[0])
      /\ StartDue(state[0]) \/ (Due(state[0]) /\ ~StartDue(state[0]))
      /\ ~Stopping
  <2>1. \A r \in Ranks : pc[r] = pc[0] /\ exit[r] = None
    BY InLockstep
  <2>2. pc[0] \in {"eval"} \X {"start", "catch_up", "loop"} /\ outcome = None
    BY InLockstep DEF Points, Waiting
  <2>3. \A r \in Ranks : state[r] = state[0]
    BY RankZero DEF IInv, Alike
  <2>4. state[0] \in TrainState /\ Consistent(state[0]) /\ Placed(pc[0], state[0])
    BY RankZero DEF IInv, TypeOK, Sane, Located
  <2>5. StartDue(state[0]) \/ (Due(state[0]) /\ ~StartDue(state[0]))
    BY <2>2, <2>4 DEF Placed
  <2>6. ~Stopping
    BY <2>2, RankZero DEF IInv, WindsDown, Winding, Waiting
  <2> QED BY <2>1, <2>2, <2>3, <2>4, <2>5, <2>6
<1>2. /\ t \in TrainState /\ Consistent(t) /\ Grown(state[0], t) /\ Settled(t)
      /\ t.steps = state[0].steps /\ t.microbatches = state[0].microbatches
  BY <1>1, ValidatedSettles
<1>3. t # state[0]
  BY <1>1, <1>2 DEF Settled
<1>4. state' = [r \in Ranks |-> t] /\ cached' = [r \in Ranks |-> None]
  <2>1. state' = [r \in Ranks |-> t]
    BY <1>1 DEF Evaluate
  <2> QED BY <2>1, <1>1, <1>3 DEF Evaluate
<1>5. pc' = [r \in Ranks |-> point]
  BY <1>1, <1>4 DEF Evaluate
<1> HIDE DEF place, t
<1>6. /\ point \in Points /\ Placed(point, t)
      /\ point[1] \in {"save", "poll"} /\ point[2] \in {"start_eval", "catch_up", "periodic"}
  BY <1>1, <1>2, AfterEvalFits
<1> HIDE DEF point
<1>7. TypeOK'
  BY <1>2, <1>4, <1>5, <1>6 DEF IInv, TypeOK
<1>8. Alike' /\ Together' /\ Voted' /\ Cached'
  BY <1>4, <1>5 DEF IInv, Alike, Together, Compatible, Voted, Cached
<1>9. Sane'
  BY <1>1, <1>2, <1>4 DEF IInv, Sane
<1>10. Located'
  BY <1>4, <1>5, <1>6 DEF Located
<1>11. WindsDown'
  BY <1>1, <1>5, <1>6 DEF WindsDown, Stopping
<1>12. Kept'
  <2>1. ASSUME checkpoint # None PROVE Grown(checkpoint, t)
    <3>1. checkpoint \in TrainState /\ Grown(checkpoint, state[0])
      BY <2>1, RankZero DEF IInv, Kept, TypeOK
    <3> QED BY <3>1, <1>1, <1>2, GrownFurther
  <2> QED BY <2>1, <1>4 DEF IInv, Kept
<1>13. Saved'
  BY <1>1, <1>5, <1>6, NoneAssumption DEF Saved, Waiting
<1>14. Reported'
  BY <1>1 DEF Reported
<1> QED BY <1>7, <1>8, <1>9, <1>10, <1>11, <1>12, <1>13, <1>14 DEF IInv

\* An update learns the next window of the order, whole.
LEMMA UpdateStep == ASSUME IInv, Update PROVE IInv'
<1>0. /\ UNCHANGED <<cached, requested, vote, exit, checkpoint, supervisor>>
      /\ AllAt("update")
  BY DEF Update
<1> USE <1>0 DEF supervisor
<1> DEFINE s == state[0]
           w == WindowRows
           t == [s EXCEPT !.steps = @ + 1, !.microbatches = @ + Accumulation,
                          !.weights = Append(@, w)]
<1>1. /\ \A r \in Ranks : pc[r] = <<"update", "loop">> /\ state[r] = s /\ exit[r] = None
      /\ \A r \in Ranks : loader[r] = s.microbatches /\ cached[r] = cached[0]
      /\ s \in TrainState /\ Consistent(s) /\ Settled(s) /\ s.steps < MaxSteps
      /\ outcome = None /\ ~Stopping
  <2>1. \A r \in Ranks : pc[r] = pc[0] /\ exit[r] = None
    BY InLockstep
  <2>2. pc[0] = <<"update", "loop">> /\ outcome = None
    BY InLockstep DEF Points, Waiting
  <2>3. \A r \in Ranks : state[r] = s /\ cached[r] = cached[0]
    BY RankZero DEF IInv, Alike
  <2>4. s \in TrainState /\ Consistent(s) /\ Placed(pc[0], s)
    BY RankZero DEF IInv, TypeOK, Sane, Located
  <2>5. \A r \in Ranks : loader[r] = s.microbatches
    BY <2>3 DEF IInv, Sane
  <2>6. Settled(s) /\ s.steps < MaxSteps
    BY <2>2, <2>4 DEF Placed
  <2>7. ~Stopping
    BY <2>2, RankZero DEF IInv, WindsDown, Winding, Waiting
  <2> QED BY <2>1, <2>2, <2>3, <2>4, <2>5, <2>6, <2>7
<1>2. w = (s.steps * Accumulation * GlobalRows)..((s.steps + 1) * Accumulation * GlobalRows - 1)
  <2>1. s.steps \in Nat /\ s.microbatches \in Nat /\ s.microbatches = s.steps * Accumulation
    BY <1>1 DEF TrainState, Consistent, Loadable
  <2>2. w = WindowAt(s.microbatches)
    BY <1>1 DEF WindowRows, WindowAt
  <2>3. w = (s.microbatches * GlobalRows)..((s.microbatches + Accumulation) * GlobalRows - 1)
    <3> HIDE DEF s, w
    <3> QED BY <2>1, <2>2, WindowIsInterval, Zenon
  <2>4. s.microbatches + Accumulation = (s.steps + 1) * Accumulation
    BY <2>1, GeometryAssumption
  <2> QED BY <2>1, <2>3, <2>4
<1>3. /\ state' = [r \in Ranks |-> t]
      /\ loader' = [r \in Ranks |-> s.microbatches + Accumulation]
      /\ pc' = [r \in Ranks |-> <<"poll", "update">>]
  BY <1>1 DEF Update
<1>4. w \in SUBSET Nat
  <2>1. s.steps * Accumulation * GlobalRows \in Nat
    BY <1>1, GeometryAssumption DEF TrainState, GlobalRows
  <2> HIDE DEF w
  <2> QED BY <1>2, <2>1
<1> HIDE DEF s, w
<1>5. /\ s.steps \in Nat /\ s.microbatches \in Nat /\ s.validated \in Nat
      /\ s.weights \in Seq(SUBSET Nat) /\ s.validated <= s.steps /\ Len(s.weights) = s.steps
  BY <1>1 DEF TrainState, Consistent, Loadable, Exact
<1>6. /\ t \in TrainState /\ t.steps = s.steps + 1
      /\ t.microbatches = s.microbatches + Accumulation
      /\ t.weights = Append(s.weights, w) /\ t.validated = s.validated
      /\ t.startValidated = s.startValidated /\ t.tracked = s.tracked
  <2>1. /\ s.steps + 1 \in Nat /\ s.microbatches + Accumulation \in Nat
        /\ Append(s.weights, w) \in Seq(SUBSET Nat)
    BY <1>4, <1>5, GeometryAssumption
  <2> DEFINE seq == Append(s.weights, w)
  <2> HIDE DEF seq
  <2>2. t = [s EXCEPT !.steps = s.steps + 1, !.microbatches = s.microbatches + Accumulation,
                      !.weights = seq]
    BY DEF seq
  <2>3. seq \in Seq(SUBSET Nat)
    BY <2>1 DEF seq
  <2>4. /\ t \in TrainState /\ t.steps = s.steps + 1
        /\ t.microbatches = s.microbatches + Accumulation
        /\ t.weights = seq /\ t.validated = s.validated
        /\ t.startValidated = s.startValidated /\ t.tracked = s.tracked
    BY <1>1, <2>1, <2>2, <2>3 DEF TrainState
  <2> QED BY <2>4 DEF seq
<1> HIDE DEF t
<1>7. Exact(t)
  <2>1. Len(t.weights) = t.steps
    BY <1>4, <1>5, <1>6
  <2>2. ASSUME NEW k \in 1..t.steps
        PROVE  t.weights[k] = ((k - 1) * Accumulation * GlobalRows)
                                  ..(k * Accumulation * GlobalRows - 1)
    <3>1. CASE k \in 1..s.steps
      <4>1. t.weights[k] = s.weights[k]
        BY <3>1, <1>4, <1>5, <1>6
      <4> QED BY <4>1, <3>1, <1>1 DEF Consistent, Exact
    <3>2. CASE k = s.steps + 1
      <4>1. t.weights[k] = w /\ k - 1 = s.steps
        BY <3>2, <1>4, <1>5, <1>6
      <4> QED BY <4>1, <3>2, <1>2
    <3> QED BY <3>1, <3>2, <2>2, <1>5, <1>6
  <2> QED BY <2>1, <2>2 DEF Exact
<1>8. Consistent(t)
  <2>1. t.steps <= MaxSteps /\ t.validated <= t.steps
    BY <1>1, <1>5, <1>6, GeometryAssumption
  <2>2. t.microbatches = t.steps * Accumulation
    BY <1>1, <1>5, <1>6, GeometryAssumption DEF Consistent, Loadable
  <2>3. EvalAtStart => t.startValidated
    BY <1>1, <1>5, <1>6 DEF Settled, StartDue, Consistent
  <2> QED BY <2>1, <2>2, <2>3, <1>1, <1>6, <1>7 DEF Consistent, Loadable
<1>9. Grown(s, t)
  BY <1>4, <1>5, <1>6 DEF Grown
<1>10. TypeOK'
  <2>1. pc' \in [Ranks -> Points]
    BY <1>3 DEF Points, Waiting, Places
  <2>2. loader' \in [Ranks -> Nat]
    BY <1>3, <1>5, GeometryAssumption
  <2> QED BY <2>1, <2>2, <1>3, <1>6 DEF IInv, TypeOK
<1>11. Alike' /\ Together' /\ Voted'
  BY <1>3 DEF IInv, Alike, Together, Compatible, Voted
<1>12. Sane'
  BY <1>3, <1>6, <1>8 DEF Sane
<1>13. Located'
  BY <1>3, <1>5, <1>6 DEF Located, Placed, Waiting, StartDue
<1>14. WindsDown'
  BY <1>1, <1>3 DEF WindsDown, Stopping
<1>15. Cached'
  <2>1. ASSUME NEW r \in Ranks, cached[r] # None PROVE cached[r] <= s.steps /\ cached[r] \in Nat
    BY <2>1, <1>1 DEF IInv, Cached, TypeOK
  <2> QED BY <2>1, <1>3, <1>5, <1>6 DEF Cached
<1>16. Kept'
  <2>1. ASSUME checkpoint # None PROVE Grown(checkpoint, t)
    <3>1. checkpoint \in TrainState /\ Grown(checkpoint, s)
      BY <2>1, RankZero DEF IInv, Kept, TypeOK, s
    <3> QED BY <3>1, <1>1, <1>6, <1>9, GrownFurther
  <2> QED BY <2>1, <1>3 DEF IInv, Kept
<1>17. Saved'
  BY <1>1, <1>3, NoneAssumption DEF Saved, Waiting
<1>18. Reported'
  BY <1>1 DEF Reported
<1> QED BY <1>10, <1>11, <1>12, <1>13, <1>14, <1>15, <1>16, <1>17, <1>18 DEF IInv

\* Before a save the ranks agree whether this step is already saved.
LEMMA SkippingAgrees == ASSUME IInv PROVE Skipping \in {{}, Ranks}
<1>1. \A r \in Ranks : state[r] = state[0] /\ cached[r] = cached[0]
  BY RankZero DEF IInv, Alike
<1>2. CASE cached[0] = state[0].steps
  <2>1. Skipping = Ranks
    BY <1>1, <1>2 DEF Skipping
  <2> QED BY <2>1
<1>3. CASE cached[0] # state[0].steps
  <2>1. Skipping = {}
    BY <1>1, <1>3 DEF Skipping
  <2> QED BY <2>1
<1> QED BY <1>2, <1>3

\* After a save, taken or skipped, the checkpoint is every rank's state.
LEMMA SavedNow ==
    ASSUME IInv, Save
    PROVE  /\ checkpoint' = state[0]
           /\ cached' = [r \in Ranks |-> state[r].steps]
<1>1. \A r \in Ranks : state[r] = state[0] /\ cached[r] = cached[0] /\ state[r].steps \in Nat
  BY RankZero DEF IInv, Alike, TypeOK, TrainState
<1>2. CASE Skipping = {}
  BY <1>2 DEF Save
<1>3. CASE Skipping # {}
  <2>1. UNCHANGED <<checkpoint, cached>>
    BY <1>3 DEF Save
  <2>2. \A r \in Ranks : cached[r] = state[r].steps
    BY <1>1, <1>3 DEF Skipping
  <2>3. cached = [r \in Ranks |-> state[r].steps]
    BY <2>2 DEF IInv, TypeOK
  <2>4. checkpoint = state[0]
    BY <2>2, <1>1, RankZero, NoneAssumption DEF IInv, Cached
  <2> QED BY <2>1, <2>3, <2>4
<1> QED BY <1>2, <1>3

\* A save leaves every rank's state in the checkpoint.
LEMMA SaveStep == ASSUME IInv, Save PROVE IInv'
<1>0. /\ UNCHANGED <<state, loader, requested, vote, exit, supervisor>>
      /\ AllAt("save")
  BY DEF Save
<1> USE <1>0 DEF supervisor
<1> DEFINE s == state[0]
           place == pc[0][2]
           point == AfterSave(place)
<1>1. /\ \A r \in Ranks : pc[r] = <<"save", place>> /\ state[r] = s /\ exit[r] = None
      /\ place \in {"catch_up", "periodic", "stop", "final"} /\ outcome = None
      /\ s \in TrainState /\ Consistent(s) /\ Placed(<<"save", place>>, s)
  <2>1. \A r \in Ranks : pc[r] = pc[0] /\ exit[r] = None
    BY InLockstep
  <2>2. /\ pc[0] \in {"save"} \X {"catch_up", "periodic", "stop", "final"} /\ outcome = None
    BY InLockstep DEF Points, Waiting
  <2>3. \A r \in Ranks : state[r] = s
    BY RankZero DEF IInv, Alike
  <2>4. s \in TrainState /\ Consistent(s) /\ Placed(pc[0], s)
    BY RankZero DEF IInv, TypeOK, Sane, Located
  <2> QED BY <2>1, <2>2, <2>3, <2>4
<1>2. checkpoint' = s /\ cached' = [r \in Ranks |-> s.steps]
  BY <1>1, SavedNow
<1>3. pc' = [r \in Ranks |-> point]
  BY <1>1 DEF Save
<1>4. place \in {"stop", "final"} => Stopping \/ Complete(s)
  BY <1>1, RankZero DEF IInv, WindsDown
<1>5. Stopping => place \in {"stop", "final"}
  BY <1>1, RankZero DEF IInv, WindsDown, Winding, Waiting
<1>6. place = "stop" => Stopping
  BY <1>1, RankZero DEF IInv, WindsDown
<1> HIDE DEF s, place
<1>7. /\ point \in Points /\ Placed(point, s)
      /\ place = "stop" => point = <<"save", "final">>
      /\ place # "stop" => point = <<"poll", place>>
  BY <1>1, AfterSaveFits
<1> HIDE DEF point
<1>8. \A r \in Ranks : pc'[r] = point /\ state[r] = s
  BY <1>1, <1>3
<1>9. TypeOK'
  BY <1>1, <1>2, <1>3, <1>7 DEF IInv, TypeOK, TrainState
<1>10. Alike' /\ Sane' /\ Together' /\ Voted'
  BY <1>2, <1>3 DEF IInv, Alike, Sane, Together, Compatible, Voted
<1>11. Located'
  BY <1>7, <1>8 DEF Located
<1>12. WindsDown'
  <2>1. Stopping' = Stopping
    BY DEF Stopping
  <2> QED BY <2>1, <1>1, <1>4, <1>5, <1>6, <1>7, <1>8, NoneAssumption
          DEF WindsDown, Winding, Waiting
<1>13. Cached'
  BY <1>1, <1>2 DEF Cached, TrainState
<1>14. Kept'
  <2>1. Grown(s, s)
    BY <1>1 DEF Grown, TrainState
  <2> QED BY <2>1, <1>1, <1>2 DEF Kept
<1>15. Saved'
  BY <1>1, <1>2, <1>7, <1>8, NoneAssumption DEF Saved
<1>16. Reported'
  BY <1>1 DEF Reported
<1> QED BY <1>9, <1>10, <1>11, <1>12, <1>13, <1>14, <1>15, <1>16 DEF IInv
-----------------------------------------------------------------------------
(* The invariant, of the trainer alone and of whole runs.                   *)

\* Before the first launch nothing is known and nothing is wrong.
LEMMA Initial == ASSUME Init PROVE IInv
<1> USE DEF Init, Down
<1>1. TypeOK
  BY FreshConsistent DEF TypeOK, Points
<1>2. Alike /\ Together /\ Voted /\ Cached /\ Kept /\ Reported
  BY DEF Alike, Together, Compatible, Voted, Cached, Kept, Reported
<1>3. Sane
  BY FreshConsistent DEF Sane, Fresh
<1>4. \A r \in Ranks : pc[r] = <<"down", "down">> /\ exit[r] = None /\ ~vote[r]
  OBVIOUS
<1>5. Located
  BY <1>4 DEF Located, Placed, Waiting
<1>6. WindsDown /\ Saved
  BY <1>4, NoneAssumption DEF WindsDown, Stopping, Saved, Waiting
<1> QED BY <1>1, <1>2, <1>3, <1>5, <1>6 DEF IInv

\* A signal, a supervisor's step or an idle one.
LEMMA AsideStep ==
    ASSUME IInv, Stop \/ PublishStop \/ SupervisorReturns \/ UNCHANGED vars
    PROVE  IInv'
<1>1. CASE Stop
  <2>1. ASSUME NEW r \in Ranks, Signal(r) PROVE IInv'
    BY <2>1, SignalStep
  <2> QED BY <1>1, <2>1, SupervisorStopStep DEF Stop
<1>2. CASE PublishStop
  BY <1>2, SupervisorStopStep
<1>3. CASE SupervisorReturns
  BY <1>3, SupervisorReturnsStep
<1>4. CASE UNCHANGED vars
  BY <1>4, Unread DEF vars
<1> QED BY <1>1, <1>2, <1>3, <1>4

\* The workers are ended from outside.
LEMMA OutsideStep == ASSUME IInv, Kill \/ ForceStop PROVE IInv'
<1>1. CASE Kill
  BY <1>1, EndedStep DEF Kill, supervisor
<1>2. CASE ForceStop
  BY <1>2, EndedStep DEF ForceStop
<1> QED BY <1>1, <1>2

\* Every step of the trainer keeps the invariant.
LEMMA TrainerStep == ASSUME IInv, [Next]_vars PROVE IInv'
<1>1. ASSUME NEW track \in BOOLEAN, Launch(track) PROVE IInv'
  BY <1>1, LaunchStep
<1>2. CASE Worker
  <2>1. ASSUME NEW r \in Ranks, Rank(r) PROVE IInv'
    BY <2>1, PollStep, ExitStep DEF Rank
  <2>2. CASE Collective
    BY <2>2, ReduceStep, EvaluateStep, UpdateStep, SaveStep DEF Collective
  <2> QED BY <1>2, <2>1, <2>2 DEF Worker
<1>3. CASE Finished
  BY <1>3, AsideStep DEF Finished
<1> QED BY <1>1, <1>2, <1>3, AsideStep, OutsideStep DEF Next

\* Every step of a run keeps it too: one that is not a step of the trainer ends
\* the launch, or leaves the trainer alone.
LEMMA RunStep == ASSUME IInv, [RunNext]_runVars PROVE IInv'
<1>1. CASE \/ Building \/ Restore \/ Preparing \/ (\E key \in Mine : Swap(key))
           \/ UNCHANGED runVars
  <2>1. UNCHANGED vars
    BY <1>1 DEF Building, WritePayload, PublishOrder, Restore, Preparing, ReadGeometry,
                OpenLoader, Verify, GiveUp, Swap, runVars
  <2> QED BY <2>1, AsideStep
<1>2. CASE StartTraining
  BY <1>2, LaunchStep DEF StartTraining
<1>3. CASE Working
  <2>1. CASE RefuseUpdate
    BY <2>1, EndedStep DEF RefuseUpdate, Crash, supervisor
  <2>2. ASSUME NEW r \in Ranks, Leave(r) PROVE IInv'
    BY <2>2, ExitStep DEF Leave
  <2>3. ASSUME NEW r \in Ranks, Poll(r) PROVE IInv'
    BY <2>3, PollStep
  <2>4. CASE Learn \/ Validate \/ Commit \/ Reduce
    BY <2>4, UpdateStep, EvaluateStep, SaveStep, ReduceStep DEF Learn, Validate, Commit
  <2> QED BY <1>3, <2>1, <2>2, <2>3, <2>4 DEF Working
<1>4. CASE Supervising \/ Aside
  BY <1>4, AsideStep DEF Supervising, Aside, Finished
<1>5. CASE Ends
  BY <1>5, OutsideStep DEF Ends
<1> QED BY <1>1, <1>2, <1>3, <1>4, <1>5 DEF RunNext

\* The invariant holds of the trainer by itself...
THEOREM TrainerInvariant == Spec => []IInv
<1>1. Init => IInv
  BY Initial
<1>2. IInv /\ [Next]_vars => IInv'
  BY TrainerStep
<1> QED BY <1>1, <1>2, PTL DEF Spec

\* ... and of the trainer in a run, where it shares its steps with the order, the
\* loaders and an operator who replaces the order.
THEOREM RunInvariant == RunSpec => []IInv
<1>1. RunInit => IInv
  BY Initial DEF RunInit
<1>2. IInv /\ [RunNext]_runVars => IInv'
  BY RunStep
<1> QED BY <1>1, <1>2, PTL DEF RunSpec

-----------------------------------------------------------------------------
(* What follows from it.                                                    *)

\* Ranks whose points are compatible wait in the same collective and save alike,
\* a success is of a run complete and saved, a vote to stop winds the launch down.
LEMMA AgreementFollows == ASSUME IInv PROVE RanksAgree
<1>1. CollectivesAgree
  <2>1. ASSUME NEW r \in Ranks, NEW q \in Ranks,
               {pc[r][1], pc[q][1]} \subseteq {"reduce", "eval", "update", "save"}
        PROVE  pc[r] = pc[q]
    <3>1. pc[r] \in Points /\ pc[q] \in Points /\ Compatible(r, q)
      BY DEF IInv, TypeOK, Together
    <3>2. CASE pc[r][1] \in Waiting /\ pc[q][1] \in Waiting /\ pc[r][2] = pc[q][2]
      <4>1. pc[r][1] = "reduce" /\ pc[q][1] = "reduce"
        BY <2>1, <3>2 DEF Waiting
      <4> QED BY <4>1, <3>1, <3>2 DEF Points, Waiting
    <3> QED BY <2>1, <3>1, <3>2 DEF Compatible
  <2> QED BY <2>1, SkippingAgrees DEF CollectivesAgree
<1>2. OutcomesHonest
  <2>1. outcome = "done" => /\ checkpoint # None /\ checkpoint.steps = MaxSteps
                            /\ checkpoint.validated = MaxSteps
                            /\ EvalAtStart => checkpoint.startValidated
    BY NoneAssumption DEF IInv, Reported, Complete
  <2>2. ASSUME NEW q \in Ranks, vote[q], NEW r \in Ranks
        PROVE  pc[r][1] \notin {"eval", "update"} /\ exit[r] # "done"
    BY <2>2 DEF IInv, WindsDown, Stopping, Winding, Waiting
  <2> QED BY <2>1, <2>2 DEF OutcomesHonest
<1> QED BY <1>1, <1>2 DEF RanksAgree

\* Whatever the schedule and whoever is stopped when, the ranks meet in the same
\* collectives, agree whether a step is already saved, and report success only of
\* a run that is complete and saved (_distributed_stop_signal, save_checkpoint,
\* supervise_torchrun).
THEOREM RanksAlwaysAgree == RunSpec => []RanksAgree
<1>1. IInv => RanksAgree
  BY AgreementFollows
<1> QED BY <1>1, RunInvariant, PTL

\* A launch that ended of itself left its whole state in the checkpoint, and no
\* launch is refused the checkpoint it finds (save_checkpoint, load_checkpoint).
THEOREM NothingIsLeftUnsaved == RunSpec => []NothingLeftUnsaved
<1>1. IInv => NothingLeftUnsaved
  BY NoneAssumption DEF IInv, Saved, Reported, NothingLeftUnsaved
<1> QED BY <1>1, RunInvariant, PTL

\* Update k of any rank learned the k-th window of the order's positions, over all
\* interruptions and resumptions (DistributedBatchSampler, load_checkpoint).
THEOREM WindowsInOrder ==
    RunSpec => [](/\ \A r \in Ranks : Exact(state[r])
                  /\ checkpoint # None => Exact(checkpoint))
<1>1. IInv => (/\ \A r \in Ranks : Exact(state[r])
               /\ checkpoint # None => Exact(checkpoint))
  BY DEF IInv, Sane, Kept, Consistent
<1> QED BY <1>1, RunInvariant, PTL

\* What a state has learned begins what a state grown from it has.
LEMMA GrownPrefix ==
    ASSUME NEW a \in TrainState, NEW b \in TrainState, Exact(a), Exact(b), Grown(a, b)
    PROVE  SubSeq(b.weights, 1, a.steps) = a.weights
<1> DEFINE aw == a.weights
           bw == b.weights
           n == a.steps
<1>1. /\ aw \in Seq(SUBSET Nat) /\ bw \in Seq(SUBSET Nat) /\ Len(aw) = n /\ n \in Nat
      /\ n <= Len(bw) /\ \A k \in 1..n : bw[k] = aw[k]
  BY DEF TrainState, Exact, Grown
<1> HIDE DEF aw, bw, n
<1>2. SubSeq(bw, 1, n) \in Seq(SUBSET Nat) /\ Len(SubSeq(bw, 1, n)) = n
        /\ \A k \in 1..n : SubSeq(bw, 1, n)[k] = aw[k]
  BY <1>1
<1>3. SubSeq(bw, 1, n) = aw
  BY <1>1, <1>2
<1> QED BY <1>3 DEF aw, bw, n

\* Only a save writes the checkpoint.
LEMMA OnlySavesWrite ==
    ASSUME [RunNext]_runVars, checkpoint' # checkpoint
    PROVE  Save
  BY DEF RunNext, Building, WritePayload, PublishOrder, Restore, Preparing, ReadGeometry,
         OpenLoader, Verify, GiveUp, Swap, StartTraining, Launch, Working, Learn, Update,
         RefuseUpdate, Crash, Validate, Evaluate, Commit, Leave, Exit, Reduce, Poll, Supervising,
         SupervisorReturns, PublishStop, Ends, Kill, ForceStop, Aside, Stop, SignalSupervisor,
         Signal, Finished, runVars, vars

\* No update passes a validation that is due, and the checkpoint only grows,
\* whatever launch writes it (train, save_checkpoint).
THEOREM ProgressIsInOrder == RunSpec => ProgressInOrder
<1>1. IInv => (Update => \A r \in Ranks : ~Due(state[r]) /\ ~StartDue(state[r]))
  BY DEF IInv, Located, Placed, Settled, Update, AllAt
<1>2. ASSUME IInv, IInv', [RunNext]_runVars, checkpoint # None
      PROVE  /\ checkpoint' # None
             /\ SubSeq(checkpoint'.weights, 1, checkpoint.steps) = checkpoint.weights
             /\ checkpoint.validated <= checkpoint'.validated
             /\ checkpoint.startValidated => checkpoint'.startValidated
             /\ checkpoint.tracked => checkpoint'.tracked
  <2>1. /\ checkpoint \in TrainState /\ Exact(checkpoint) /\ Grown(checkpoint, state[0])
        /\ state[0] \in TrainState /\ Exact(state[0]) /\ Grown(checkpoint, checkpoint)
    BY <1>2, RankZero DEF IInv, TypeOK, Kept, Sane, Consistent, Grown, TrainState
  <2>2. checkpoint' \in {checkpoint, state[0]}
    BY <1>2, OnlySavesWrite, SavedNow
  <2>3. checkpoint' \in TrainState /\ Exact(checkpoint') /\ Grown(checkpoint, checkpoint')
    BY <2>1, <2>2
  <2>4. SubSeq(checkpoint'.weights, 1, checkpoint.steps) = checkpoint.weights
    BY <2>1, <2>3, GrownPrefix
  <2>5. checkpoint' # None
    BY <2>3, NoneAssumption
  <2> QED BY <2>3, <2>4, <2>5 DEF Grown
<1> QED BY <1>1, <1>2, RunInvariant, PTL DEF RunSpec, ProgressInOrder, runVars
-----------------------------------------------------------------------------
(* What a run learns: the trajectory of the trainer against the order.      *)

Stages == {"idle", "read", "verified", "refused", "opened", "training"}
RunTypeOK ==
    /\ directory = Unset \/ (directory \in [order : Keys, whole : BOOLEAN])
    /\ setup \in [Ranks -> Stages] /\ opened \in [Ranks -> Keys \cup {Unset}]
    /\ authority \in Keys \cup {Unset} /\ bound \in Keys \cup {Unset}

(* A rank trains from the end of its setup until it is down.               *)
Staged == \A r \in Ranks : setup[r] = "training" <=> pc[r] # <<"down", "down">>

(* A launch that has verified its order continues the run of that order.   *)
Authorised == (\E r \in Ranks : setup[r] \in {"verified", "opened", "training"}) =>
    authority # Unset /\ (bound # Unset => bound = authority)

(* The trajectory, in the checkpoint and in the launch that continues it.  *)
KeptInOrder ==
    IF checkpoint = None THEN bound = Unset /\ kept = <<>>
    ELSE bound # Unset /\ kept = WindowsOf(bound, checkpoint.steps)
LearnedInOrder == \A r \in Ranks :
    setup[r] = "training" => learned = WindowsOf(authority, state[r].steps)

RInv == RunTypeOK /\ Staged /\ Authorised /\ KeptInOrder /\ LearnedInOrder

\* The next window, after those before it.
LEMMA NextWindow ==
    ASSUME NEW order, NEW n \in Nat, NEW batch,
           batch = {Orders[order].payload[p + 1] :
                       p \in n * Accumulation * GlobalRows..(n + 1) * Accumulation * GlobalRows - 1}
    PROVE  Append(WindowsOf(order, n), batch) = WindowsOf(order, n + 1)
<1> DEFINE At(k) == {Orders[order].payload[p + 1] :
                        p \in (k - 1) * Accumulation * GlobalRows
                                  ..k * Accumulation * GlobalRows - 1}
           windows == WindowsOf(order, n)
           all == {At(k) : k \in 1..n + 1}
<1>1. batch = At(n + 1)
  BY GeometryAssumption DEF GlobalRows
<1>2. windows = [k \in 1..n |-> At(k)] /\ WindowsOf(order, n + 1) = [k \in 1..n + 1 |-> At(k)]
  BY DEF WindowsOf
<1> HIDE DEF At, windows
<1>3. windows \in Seq(all) /\ Len(windows) = n /\ batch \in all
  BY <1>1, <1>2
<1>4. Append(windows, batch) = [k \in 1..n + 1 |-> At(k)]
  BY <1>1, <1>2, <1>3
<1> QED BY <1>2, <1>4 DEF windows

\* Ranks whose loaders map the authority read its next window together.
LEMMA BatchIsWindow ==
    ASSUME IInv, AllAt("update"), \A r \in Ranks : SourceValid(r)
    PROVE  LET n == state[0].steps
           IN  Batch = {Orders[authority].payload[p + 1] :
                          p \in n * Accumulation * GlobalRows
                                    ..(n + 1) * Accumulation * GlobalRows - 1}
<1> DEFINE m == state[0].microbatches
           n == state[0].steps
           Row(p) == Orders[authority].payload[p + 1]
<1>1. /\ \A r \in Ranks : loader[r] = m
      /\ m \in Nat /\ n \in Nat /\ m = n * Accumulation
  BY RankZero DEF IInv, TypeOK, TrainState, Sane, Alike, Consistent, Loadable
<1>2. WindowAt(m) = (n * Accumulation * GlobalRows)..((n + 1) * Accumulation * GlobalRows - 1)
  <2>1. m + Accumulation = (n + 1) * Accumulation
    BY <1>1, GeometryAssumption
  <2>2. WindowAt(m) = (m * GlobalRows)..((m + Accumulation) * GlobalRows - 1)
    BY <1>1, WindowIsInterval
  <2> QED BY <1>1, <2>1, <2>2
<1>3. \A r \in Ranks : opened[r] = authority
  BY DEF SourceValid
<1> HIDE DEF m, n
<1>4. \A r \in Ranks, a \in 0..Accumulation - 1 : Window(r, a) = {Row(p) : p \in Slice(r, m + a)}
  BY <1>1, <1>3 DEF Window
<1> HIDE DEF Row
<1>5. Batch = {Row(p) : p \in WindowAt(m)}
  <2>1. ASSUME NEW x \in Batch PROVE \E p \in WindowAt(m) : x = Row(p)
    <3>1. PICK r \in Ranks, a \in 0..Accumulation - 1 : x \in Window(r, a)
      BY <2>1 DEF Batch
    <3>2. PICK p \in Slice(r, m + a) : x = Row(p)
      BY <3>1, <1>4
    <3>3. p \in WindowAt(m)
      BY <3>2 DEF WindowAt
    <3> QED BY <3>2, <3>3
  <2>2. ASSUME NEW p \in WindowAt(m) PROVE Row(p) \in Batch
    <3>1. PICK r \in Ranks, a \in 0..Accumulation - 1 : p \in Slice(r, m + a)
      BY <2>2 DEF WindowAt
    <3>2. Row(p) \in Window(r, a)
      BY <3>1, <1>4
    <3> QED BY <3>2 DEF Batch
  <2> QED BY <2>1, <2>2
<1>6. Batch = {Row(p) : p \in n * Accumulation * GlobalRows
                                  ..(n + 1) * Accumulation * GlobalRows - 1}
  BY <1>2, <1>5
<1> QED BY <1>6 DEF Row, n

\* A launch puts every rank where the checkpoint left the run.
LEMMA LaunchStarts ==
    ASSUME IInv, NEW track \in BOOLEAN, Launch(track)
    PROVE  /\ \A r \in Ranks : pc'[r] = <<"poll", "start">> /\ state'[r].steps = Restored.steps
           /\ checkpoint' = checkpoint
<1>1. Restored \in TrainState /\ Consistent(Restored)
  BY FreshConsistent DEF Restored, IInv, TypeOK, Kept
<1>2. /\ pc' = [r \in Ranks |-> <<"poll", "start">>] /\ checkpoint' = checkpoint
      /\ state' = [r \in Ranks |-> [Restored EXCEPT !.tracked = @ \/ (track /\ ~Restored.tracked)]]
  BY <1>1 DEF Launch, Consistent
<1> QED BY <1>1, <1>2 DEF TrainState

\* A validation takes no step.
LEMMA EvaluateKeepsSteps ==
    ASSUME IInv, Evaluate
    PROVE  \A r \in Ranks : state'[r].steps = state[r].steps
<1>1. \A r \in Ranks : state[r] \in TrainState /\ state'[r] = Validated(state[r])
  BY DEF IInv, TypeOK, Evaluate
<1> QED BY <1>1 DEF Validated, TrainState

\* Before the first launch nothing is learned.
LEMMA RunInitial == ASSUME RunInit PROVE RInv
<1>1. \A r \in Ranks : pc[r] = <<"down", "down">>
  BY DEF RunInit, Init, Down
<1> QED BY <1>1 DEF RInv, RunTypeOK, Stages, Staged, Authorised, KeptInOrder, LearnedInOrder,
                   RunInit, Init

\* Before training: building, replacing and reading the order, up to a launch that
\* is verified or given up.
LEMMA PreparingStep ==
    ASSUME RInv, Building \/ Restore \/ Preparing \/ (\E key \in Mine : Swap(key))
    PROVE  RInv'
<1>0. UNCHANGED <<vars, trajectory>>
  BY DEF Building, WritePayload, PublishOrder, Restore, Preparing, ReadGeometry, OpenLoader,
         Verify, GiveUp, Swap
<1> USE <1>0 DEF vars, memory, supervisor, trajectory
<1>1. CASE Building \/ Restore \/ (\E key \in Mine : Swap(key))
  <2>1. UNCHANGED launching
    BY <1>1 DEF Building, WritePayload, PublishOrder, Restore, Swap
  <2>2. directory' = Unset \/ (directory' \in [order : Keys, whole : BOOLEAN])
    <3>1. Mine \subseteq Keys /\ bound \in Keys \cup {Unset}
      BY DEF Mine, RInv, RunTypeOK
    <3>2. CASE Building
      <4>1. ASSUME NEW key \in Mine, WritePayload(key)
            PROVE  directory' \in [order : Keys, whole : BOOLEAN]
        BY <3>1, <4>1 DEF WritePayload
      <4>2. CASE PublishOrder
        BY <4>2 DEF PublishOrder, RInv, RunTypeOK
      <4> QED BY <3>2, <4>1, <4>2 DEF Building
    <3>3. CASE Restore
      BY <3>1, <3>3 DEF Restore, Whole, RInv, RunTypeOK
    <3>4. ASSUME NEW key \in Mine, Swap(key) PROVE directory' \in [order : Keys, whole : BOOLEAN]
      BY <3>1, <3>4 DEF Swap, Whole, RInv, RunTypeOK
    <3> QED BY <1>1, <3>2, <3>3, <3>4
  <2> QED BY <2>1, <2>2 DEF RInv, RunTypeOK, Staged, Authorised, KeptInOrder, LearnedInOrder,
                            launching
<1>2. ASSUME NEW r \in Ranks, ReadGeometry(r) PROVE RInv'
  <2>1. /\ setup[r] = "idle" /\ setup' = [setup EXCEPT ![r] = "read"]
        /\ UNCHANGED <<files, authority, opened>>
    BY <1>2 DEF ReadGeometry
  <2> QED BY <2>1 DEF RInv, RunTypeOK, Stages, Staged, Authorised, KeptInOrder, LearnedInOrder,
                      files
<1>3. CASE Verify
  <2>1. /\ \A r \in Ranks : setup[r] = "read" /\ setup'[r] \in {"verified", "refused"}
        /\ setup' \in [Ranks -> Stages]
        /\ authority' = directory.order /\ authority' \in Keys /\ UNCHANGED <<files, opened>>
    BY <1>3 DEF Verify, AllSet, Whole, RInv, RunTypeOK, Stages
  <2>2. (\E r \in Ranks : setup'[r] = "verified") => (bound # Unset => bound = authority')
    BY <1>3 DEF Verify, SameRun
  <2> QED BY <2>1, <2>2, OrdersAssumption
          DEF RInv, RunTypeOK, Staged, Authorised, KeptInOrder, LearnedInOrder, files
<1>4. ASSUME NEW r \in Ranks, OpenLoader(r) PROVE RInv'
  <2>1. /\ setup[r] = "verified" /\ setup' \in [Ranks -> Stages]
        /\ \A q \in Ranks : IF q = r THEN setup'[q] \in {"opened", "refused"}
                            ELSE setup'[q] = setup[q]
        /\ opened' \in [Ranks -> Keys \cup {Unset}]
        /\ UNCHANGED <<files, authority>>
    BY <1>4 DEF OpenLoader, Whole, RInv, RunTypeOK, Stages
  <2> QED BY <2>1 DEF RInv, RunTypeOK, Staged, Authorised, KeptInOrder, LearnedInOrder, files
<1>5. CASE GiveUp
  <2>1. /\ \A r \in Ranks : setup[r] \in {"opened", "refused"} /\ setup'[r] = "idle"
        /\ setup' \in [Ranks -> Stages] /\ opened' \in [Ranks -> Keys \cup {Unset}]
        /\ authority' = Unset /\ UNCHANGED files
    BY <1>5 DEF GiveUp, Abandoned, Stages
  <2> QED BY <2>1 DEF RInv, RunTypeOK, Staged, Authorised, KeptInOrder, LearnedInOrder, files
<1> QED BY <1>1, <1>2, <1>3, <1>4, <1>5 DEF Preparing

\* A launch begins with the trajectory of the checkpoint, in the order that
\* trajectory is of.
LEMMA StartTrainingStep == ASSUME IInv, RInv, StartTraining PROVE RInv'
<1>1. /\ \A r \in Ranks : setup[r] = "opened" /\ setup'[r] = "training"
      /\ setup' \in [Ranks -> Stages]
      /\ learned' = kept /\ UNCHANGED <<files, opened, authority, bound, kept>>
  BY DEF StartTraining, AllSet, Stages
<1>2. /\ \A r \in Ranks : pc'[r] = <<"poll", "start">> /\ state'[r].steps = Restored.steps
      /\ checkpoint' = checkpoint
  BY LaunchStarts DEF StartTraining
<1>3. authority # Unset /\ (bound # Unset => bound = authority)
  BY <1>1, RankZero DEF RInv, Authorised
<1>4. kept = WindowsOf(authority, Restored.steps)
  <2>1. CASE checkpoint = None
    BY <2>1, GeometryAssumption DEF RInv, KeptInOrder, Restored, Fresh, WindowsOf
  <2>2. CASE checkpoint # None
    BY <2>2, <1>3 DEF RInv, KeptInOrder, Restored
  <2> QED BY <2>1, <2>2
<1> QED BY <1>1, <1>2, <1>3, <1>4
        DEF RInv, RunTypeOK, Staged, Authorised, KeptInOrder, LearnedInOrder, files

\* A launch that ends keeps what is in the checkpoint.
LEMMA AbandonedStep ==
    ASSUME RInv, AllDown, Abandoned, UNCHANGED <<checkpoint, files, trajectory>>
    PROVE  RInv'
<1>1. /\ \A r \in Ranks : setup'[r] = "idle" /\ pc'[r] = <<"down", "down">>
      /\ setup' \in [Ranks -> Stages] /\ opened' \in [Ranks -> Keys \cup {Unset}]
      /\ authority' = Unset /\ UNCHANGED <<files, trajectory, checkpoint>>
  BY DEF Abandoned, AllDown, Stages
<1> QED BY <1>1 DEF RInv, RunTypeOK, Staged, Authorised, KeptInOrder, LearnedInOrder, files,
                    trajectory

\* Training: a step either moves the trainer and leaves what was learned, learns
\* the next window, or writes what was learned into the checkpoint.
LEMMA WorkingStep == ASSUME IInv, RInv, Working PROVE RInv'
<1> DEFINE Still == UNCHANGED <<files, launching, trajectory>>
           Quiet == /\ \A r \in Ranks : state'[r].steps = state[r].steps
                    /\ UNCHANGED checkpoint
<1>1. ASSUME Still, Quiet,
             \A r \in Ranks : pc[r] = <<"down", "down">> <=> pc'[r] = <<"down", "down">>
      PROVE  RInv'
  BY <1>1 DEF RInv, RunTypeOK, Staged, Authorised, KeptInOrder, LearnedInOrder, files, launching,
              trajectory
<1>2. \A r \in Ranks : pc[r] \in Points /\ state[r] \in TrainState
  BY DEF IInv, TypeOK
<1>3. ASSUME NEW r \in Ranks, Poll(r), Still PROVE RInv'
  <2>1. \A q \in Ranks : pc'[q] = IF q = r THEN <<"reduce", pc[r][2]>> ELSE pc[q]
    BY <1>3 DEF Poll, IInv, TypeOK
  <2>2. pc[r] # <<"down", "down">>
    BY <1>3 DEF Poll
  <2>3. Quiet
    BY <1>3 DEF Poll
  <2> QED BY <1>1, <1>3, <2>1, <2>2, <2>3
<1>4. CASE Reduce /\ Still
  <2>1. \A r \in Ranks : pc[r] # <<"down", "down">>
    BY <1>4 DEF Reduce, AllAt
  <2>2. \A r \in Ranks : pc'[r] # <<"down", "down">>
    <3>1. ASSUME NEW r \in Ranks PROVE pc'[r] # <<"down", "down">>
      <4>1. pc'[r] = IF Agreed(r) THEN AfterStop(pc[r][2]) ELSE AfterContinue(state[r], pc[r][2])
        BY <1>4 DEF Reduce
      <4>2. pc[r][2] \in Places
        BY <1>2, <1>4 DEF Reduce, AllAt, Points, Waiting
      <4> QED BY <4>1, <4>2 DEF AfterStop, AfterContinue, CatchUp, Advance, Periodic, Places
    <3> QED BY <3>1
  <2> QED BY <1>1, <1>4, <2>1, <2>2 DEF Reduce, memory
<1>5. CASE Validate
  <2>1. Evaluate /\ Still /\ AllAt("eval")
    BY <1>5 DEF Validate, Evaluate
  <2>2. \A r \in Ranks : pc[r] # <<"down", "down">> /\ pc[r][2] \in {"start", "catch_up", "loop"}
    BY <1>2, <2>1 DEF AllAt, Points, Waiting
  <2>3. \A r \in Ranks : pc'[r] = AfterEval(state'[r], pc[r][2])
    BY <2>1 DEF Evaluate
  <2>4. \A r \in Ranks : pc'[r] # <<"down", "down">>
    BY <2>2, <2>3 DEF AfterEval, Periodic
  <2>5. Quiet
    BY <2>1, EvaluateKeepsSteps DEF Evaluate
  <2> QED BY <1>1, <2>1, <2>2, <2>4, <2>5
<1>6. CASE Learn
  <2> DEFINE n == state[0].steps
  <2>1. /\ AllAt("update") /\ Update /\ (\A r \in Ranks : SourceValid(r))
        /\ learned' = Append(learned, Batch)
        /\ UNCHANGED <<files, launching, bound, kept, checkpoint>>
    BY <1>6 DEF Learn, Learns, Update
  <2>2. /\ n \in Nat
        /\ \A r \in Ranks : /\ pc[r] # <<"down", "down">> /\ pc'[r] = <<"poll", "update">>
                            /\ state[r].steps = n /\ state'[r].steps = n + 1
    <3>1. \A r \in Ranks : state[r] = state[0] /\ n \in Nat
      BY <1>2, RankZero DEF IInv, Alike, TrainState
    <3>2. \A r \in Ranks : state[r] \in TrainState /\ state'[r] =
            [state[r] EXCEPT !.steps = state[r].steps + 1,
                             !.microbatches = state[r].microbatches + Accumulation,
                             !.weights = Append(state[r].weights, WindowRows)]
      BY <1>2, <2>1 DEF Update
    <3>3. \A r \in Ranks : state'[r].steps = state[r].steps + 1
      BY <3>2 DEF TrainState
    <3>4. \A r \in Ranks : pc[r] # <<"down", "down">> /\ pc'[r] = <<"poll", "update">>
      <4>1. \A r \in Ranks : pc[r] # <<"down", "down">>
        BY <2>1 DEF AllAt
      <4>2. pc' = [r \in Ranks |-> <<"poll", "update">>]
        BY <2>1 DEF Update
      <4> QED BY <4>1, <4>2
    <3>5. n \in Nat
      BY <3>1, RankZero
    <3> HIDE DEF n
    <3>6. \A r \in Ranks : state[r].steps = n
      BY <3>1 DEF n
    <3> QED BY <3>3, <3>4, <3>5, <3>6
  <2>3. \A r \in Ranks : setup[r] = "training"
    BY <2>2 DEF RInv, Staged
  <2>4. learned = WindowsOf(authority, n)
    BY <2>2, <2>3, RankZero DEF RInv, LearnedInOrder
  <2>5. learned' = WindowsOf(authority, n + 1)
    BY <2>1, <2>2, <2>4, BatchIsWindow, NextWindow
  <2> QED BY <2>1, <2>2, <2>3, <2>5
          DEF RInv, RunTypeOK, Staged, Authorised, KeptInOrder, LearnedInOrder, files, launching
<1>7. CASE Commit
  <2>1. Save /\ AllAt("save") /\ UNCHANGED <<files, launching, learned, state>>
    BY <1>7 DEF Commit, Save
  <2>2. \A r \in Ranks : /\ pc[r] # <<"down", "down">> /\ setup[r] = "training"
                         /\ pc'[r] # <<"down", "down">>
    BY <1>2, <2>1 DEF Save, AllAt, AfterSave, RInv, Staged
  <2>3. /\ authority # Unset /\ (bound # Unset => bound = authority)
        /\ learned = WindowsOf(authority, state[0].steps)
    BY <2>2, RankZero DEF RInv, Authorised, LearnedInOrder
  <2>4. CASE Skipping = {}
    <3>1. bound' = authority /\ kept' = learned /\ checkpoint' = state[0] /\ state[0] # None
      BY <1>7, <2>1, <2>4, <1>2, RankZero, NoneAssumption DEF Commit, Save
    <3> QED BY <2>1, <2>2, <2>3, <3>1
            DEF RInv, RunTypeOK, Staged, Authorised, KeptInOrder, LearnedInOrder, files, launching
  <2>5. CASE Skipping # {}
    <3>1. UNCHANGED <<bound, kept, checkpoint>>
      BY <1>7, <2>1, <2>5 DEF Commit, Save
    <3> QED BY <2>1, <2>2, <3>1
            DEF RInv, RunTypeOK, Staged, Authorised, KeptInOrder, LearnedInOrder, files, launching
  <2> QED BY <2>4, <2>5
<1>8. ASSUME NEW r \in Ranks, Leave(r) PROVE RInv'
  <2>1. /\ \A q \in Ranks : /\ pc'[q] = IF q = r THEN <<"down", "down">> ELSE pc[q]
                            /\ setup'[q] = IF q = r THEN "idle" ELSE setup[q]
        /\ setup' \in [Ranks -> Stages] /\ opened' \in [Ranks -> Keys \cup {Unset}]
        /\ UNCHANGED <<files, trajectory, authority, state, checkpoint>>
    BY <1>8 DEF Leave, Exit, IInv, TypeOK, RInv, RunTypeOK, Stages
  <2> QED BY <2>1 DEF RInv, RunTypeOK, Staged, Authorised, KeptInOrder, LearnedInOrder, files,
                      trajectory
<1>9. CASE RefuseUpdate
  BY <1>9, AbandonedStep DEF RefuseUpdate, Crash
<1> HIDE DEF Still
<1>10. ASSUME Reduce \/ \E r \in Ranks : Poll(r), Still PROVE RInv'
  BY <1>3, <1>4, <1>10
<1> QED BY <1>5, <1>6, <1>7, <1>8, <1>9, <1>10 DEF Working, Still

\* Every step of a run keeps what it learned in the order it verified.
LEMMA TrajectoryStep == ASSUME IInv, RInv, [RunNext]_runVars PROVE RInv'
<1>1. CASE Supervising \/ Aside \/ UNCHANGED runVars
  <2>1. UNCHANGED <<pc, state, checkpoint, files, launching, trajectory>>
    BY <1>1 DEF Supervising, SupervisorReturns, PublishStop, Aside, Stop, SignalSupervisor, Signal,
                Finished, runVars, vars, memory
  <2> QED BY <2>1 DEF RInv, RunTypeOK, Staged, Authorised, KeptInOrder, LearnedInOrder, files,
                      launching, trajectory
<1>2. CASE Ends
  BY <1>2, AbandonedStep DEF Ends, Kill, ForceStop
<1> QED BY <1>1, <1>2, PreparingStep, StartTrainingStep, WorkingStep DEF RunNext

\* Update k learns the k-th window of the one order the run is bound to, on every
\* rank and in the checkpoint, whatever interrupts the run and whichever order
\* stands in the directory when (load_checkpoint, _validate_batch_source).
THEOREM LearnsInOrder == RunSpec => []WindowsLearned
<1>1. RunInit => IInv /\ RInv
  BY Initial, RunInitial DEF RunInit
<1>2. IInv /\ RInv /\ [RunNext]_runVars => IInv' /\ RInv'
  BY RunStep, TrajectoryStep
<1>3. ASSUME IInv, RInv PROVE WindowsLearned
  <2>1. \A r \in Ranks : Exact(state[r])
    BY <1>3 DEF IInv, Sane, Consistent
  <2>2. checkpoint # None => kept = WindowsOf(bound, checkpoint.steps)
    BY <1>3 DEF RInv, KeptInOrder
  <2>3. AllAt("update") => learned = WindowsOf(authority, state[0].steps)
    BY <1>3, RankZero DEF AllAt, RInv, Staged, LearnedInOrder
  <2> QED BY <2>1, <2>2, <2>3 DEF WindowsLearned
<1> QED BY <1>1, <1>2, <1>3, PTL DEF RunSpec
=============================================================================
