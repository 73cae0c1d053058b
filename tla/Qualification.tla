------------------------------ MODULE Qualification ------------------------------
(***************************************************************************)
(* Qualification of the training geometry (pretrain/geometry_qualification *)
(* .py): single-GPU baselines, a grid of candidates and a soak of the      *)
(* fastest on the final order.  Each candidate is trained under a          *)
(* supervisor in two phases with a checkpoint and a resume between them.   *)
(* Evidence is published once, as a file and then its checksum; a phase    *)
(* that left evidence without a journal poisons its candidate.             *)
(***************************************************************************)
EXTENDS Naturals, Sequences, SealedEvidence

CONSTANTS
    Geometries,   \* the geometries, in the grid's order
    Warmup,       \* measurement_warmup_steps
    StopAfter,    \* stop_after_soak_steps
    MinimumSoak,  \* minimum_soak_steps
    OrderSteps,   \* optimizer updates of an order
    Rates,        \* throughputs that can be measured; 0 is below a threshold
    Lagging,      \* bound: modes whose supervisor may read a line late
    MaxKills,     \* bound: supervisors or trainers killed, timeouts and reboots
    MaxEdits      \* bound: times an operator replaces the bound inputs

ASSUME QualificationAssumption ==
    /\ Geometries \in Seq({Geometries[i] : i \in DOMAIN Geometries}) /\ Geometries # <<>>
    /\ Warmup \in Nat \ {0} /\ StopAfter \in Nat \ {0} /\ MinimumSoak \in Nat \ {0}
    /\ OrderSteps > Warmup + MinimumSoak /\ MinimumSoak > StopAfter
    /\ Rates \subseteq Nat /\ Lagging \subseteq {"baselines", "grid", "final"} /\ MaxKills \in Nat /\ MaxEdits \in Nat

Modes == {"baselines", "grid", "final"}
Names == {Geometries[i] : i \in DOMAIN Geometries}
Generations == {"A", "B"}   \* contents the bound inputs can have, of other sources or orders

(* A checkpoint names the sources and the order it was made with; the boot *)
(* is not in the file.                                                     *)
NoSave == [step |-> 0, inputs |-> "none", boot |-> 0]
NewRoot == [log1 |-> FALSE, log2 |-> FALSE, stop |-> FALSE, last |-> NoSave, prev |-> NoSave,
            journal |-> Absent, result |-> Absent, failure |-> Absent]
Off == [pc |-> "off", m |-> "none", i |-> 1, seen |-> 0, asked |-> FALSE, rec |-> <<>>]
Idle == [alive |-> FALSE, m |-> "none", c |-> "none", step |-> 0, inputs |-> "none", end |-> "none"]

VARIABLES
    inputs,   \* generation of the sources, data, tokenizer and contracts plans bind
    boot,     \* the machine's boot
    plan,     \* PLAN.json of each mode's output root
    orders,   \* orders[m][c]: none, partial, or the generation it was built of
    root,     \* root[m][c]: the candidate's directory
    summary,  \* receipt of the baselines, GRID-RESULT.json, accepted-geometry.json
    sup,      \* the command that holds the qualification lock
    train,    \* the torchrun it supervises
    orphans,  \* torchruns of killed supervisors
    told,     \* what the last build-final-train-order told its operator
    kills, edits
qualificationVars ==
    <<inputs, boot, plan, orders, root, summary, sup, train, orphans, told, kills, edits>>

QualificationInit ==
    /\ inputs = "A" /\ boot = 1
    /\ plan = [m \in Modes |-> Absent]
    /\ orders = [m \in Modes |-> [c \in Names |-> "none"]]
    /\ root = [m \in Modes |-> [c \in Names |-> NewRoot]]
    /\ summary = [m \in Modes |-> Absent]
    /\ sup = Off /\ train = Idle /\ orphans = {} /\ told = "nothing"
    /\ \/ kills = 0 /\ edits = MaxEdits   \* bound: one kind of fault in a run
       \/ kills = MaxKills /\ edits = 0

pod == <<inputs, boot, kills, edits, told>>

-----------------------------------------------------------------------------
(* What is measured, and the candidate that is accepted: the fastest that  *)
(* passes, the first of equals.                                            *)
Fails == [pass |-> FALSE, rate |-> 0]
Measured(rate) == [pass |-> rate > 0, rate |-> rate]
Passing(rec) == {i \in DOMAIN rec : rec[i].pass}
LastOfEquals(rec) ==
    IF Passing(rec) = {} THEN 0
    ELSE CHOOSE i \in Passing(rec) : \A j \in Passing(rec) :
             rec[j].rate < rec[i].rate \/ (rec[j].rate = rec[i].rate /\ j <= i)
Fastest(rec) ==
    IF Passing(rec) = {} THEN 0
    ELSE CHOOSE i \in Passing(rec) : \A j \in Passing(rec) :
             rec[j].rate < rec[i].rate \/ (rec[j].rate = rec[i].rate /\ i <= j)

(* The baselines' receipt and the grid's result are read together with the *)
(* plan and every candidate's evidence that stands behind them.            *)
BaselinesHold ==
    /\ IsSealed(summary["baselines"]) /\ IsSealed(plan["baselines"])
    /\ \A i \in DOMAIN Geometries :
         /\ IsSealed(root["baselines"][Geometries[i]].result)
         /\ root["baselines"][Geometries[i]].result.v = summary["baselines"].v.rec[i]

Evidence(m, c) ==
    IF IsSealed(root[m][c].failure) THEN Fails
    ELSE IF IsSealed(root[m][c].result) THEN root[m][c].result.v
    ELSE [pass |-> TRUE, rate |-> 0]   \* none

GridHolds ==
    /\ IsSealed(summary["grid"]) /\ IsSealed(plan["grid"])
    /\ plan["grid"].v.inputs = inputs /\ BaselinesHold
    /\ LET s == summary["grid"].v
       IN  /\ \A i \in DOMAIN Geometries : Evidence("grid", Geometries[i]) = s.rec[i]
           /\ s.accepted = Fastest(s.rec) /\ s.accepted # 0

(* build_*_plan: each plan binds the inputs as they are and the authority  *)
(* of the plan before it.                                                  *)
NewPlan(m) == [inputs |-> inputs,
               roster |-> IF m = "final" THEN <<Geometries[summary["grid"].v.accepted]>>
                          ELSE Geometries]
Buildable(m) ==
    CASE m = "baselines" -> TRUE
      [] m = "grid" -> BaselinesHold /\ plan["baselines"].v.inputs = inputs
      [] m = "final" -> /\ GridHolds
                        /\ orders["final"][Geometries[summary["grid"].v.accepted]] = inputs

-----------------------------------------------------------------------------
(* The command: the plan is built and its root prepared, the lock taken,   *)
(* the plan's authority verified again, and the orders built.              *)
Exit == sup' = Off
To(pc) == sup' = [sup EXCEPT !.pc = pc]
Planned == plan[sup.m].v.inputs
Roster == plan[sup.m].v.roster
Here == Roster[sup.i]
Room == root[sup.m][Here]
Write(d) == root' = [root EXCEPT ![sup.m][Here] = d]
Looks == inputs = Planned   \* verify_plan_artifacts and verify_order_binding

Launch(m) ==
    /\ sup.pc = "off" /\ summary[m] = Absent /\ Buildable(m)
    /\ plan[m] \in {Absent, Sealed(NewPlan(m))}
    /\ IF plan[m] = Absent
       THEN plan' = [plan EXCEPT ![m] = Bare(NewPlan(m))] /\ sup' = [Off EXCEPT !.m = m, !.pc = "plan"]
       ELSE UNCHANGED plan /\ sup' = [Off EXCEPT !.m = m, !.pc = "verify"]
    /\ UNCHANGED <<pod, orders, root, summary, train, orphans>>

SealPlan ==
    /\ sup.pc = "plan" /\ To("verify")
    /\ plan' = [plan EXCEPT ![sup.m] = Sealed(@.v)]
    /\ UNCHANGED <<pod, orders, root, summary, train, orphans>>

Verify ==
    /\ sup.pc = "verify"
    /\ IF ~Looks THEN Exit ELSE To(IF sup.m = "final" THEN "candidate" ELSE "orders")
    /\ UNCHANGED <<pod, plan, orders, root, summary, train, orphans>>

EnsureOrder ==
    /\ sup.pc = "orders"
    /\ IF orders[sup.m][Here] = "partial" THEN Exit /\ UNCHANGED orders
       ELSE /\ orders' = IF orders[sup.m][Here] = "none" THEN [orders EXCEPT ![sup.m][Here] = inputs]
                         ELSE orders
            /\ IF orders'[sup.m][Here] # orders'[sup.m][Roster[1]] THEN Exit
               ELSE IF sup.i < Len(Roster) THEN sup' = [sup EXCEPT !.i = @ + 1]
               ELSE sup' = [sup EXCEPT !.pc = "candidate", !.i = 1]
    /\ UNCHANGED <<pod, plan, root, summary, train, orphans>>

(* build_final_train_order_from_grid, a command of its own: an order that  *)
(* exists is read again, else it is built, whole updates and no tail; then *)
(* its frozen geometry must be the selected one.                           *)
FrozenGeometry(c) == [global_microbatch_rows |-> c, optimizer_updates |-> OrderSteps, dropped_rows |-> 0]
Get(r, field) == {r[f] : f \in {field} \cap DOMAIN r}   \* {} is None
AsSelected(geometry, c) ==
    /\ geometry.global_microbatch_rows = c /\ geometry.optimizer_updates = OrderSteps
    /\ Get(geometry, "dropped_tail_rows") = {0}
BuildFinalOrder ==
    /\ sup.pc = "off" /\ GridHolds
    /\ LET c == Geometries[summary["grid"].v.accepted]
       IN  /\ orders' = IF orders["final"][c] = "none" THEN [orders EXCEPT !["final"][c] = inputs]
                        ELSE orders
           /\ told' = IF AsSelected(FrozenGeometry(c), c) THEN "built" ELSE "refused"
    /\ UNCHANGED <<inputs, boot, kills, edits, plan, root, summary, sup, train, orphans>>

-----------------------------------------------------------------------------
(* One candidate: run_candidate, and run_baseline_candidate for one GPU.   *)
(* An exception ends the final soak and fails a candidate of the grid for  *)
(* good; the baselines do not look at an earlier failure.                  *)
FailEscapes == Exit
Fail == IF sup.m = "final" THEN Exit ELSE To("fail")
Record(r) ==
    sup' = [sup EXCEPT !.rec = Append(@, r), !.i = @ + 1, !.seen = 0, !.asked = FALSE,
                       !.pc = IF sup.i < Len(Roster) THEN "candidate" ELSE "summary"]

Condemned == sup.m = "grid" /\ Room.failure # Absent
RecordFailure ==
    /\ sup.pc = "candidate" /\ Condemned
    /\ IF Room.result # Absent \/ Room.failure.at = "bare" THEN Exit ELSE Record(Fails)
    /\ UNCHANGED <<pod, plan, orders, root, summary, train, orphans>>

(* run_candidate: a published result, a journal of this boot, or nothing.  *)
Reusable == Looks /\ IsSealed(Room.result)
JournalHoldsAcrossBoots(j) == Room.last = j.save
JournalHolds(j) == j.boot = boot /\ Room.last = j.save
Resumable ==
    Looks /\ Room.result = Absent /\ IsSealed(Room.journal) /\ JournalHolds(Room.journal.v)
Untouched ==
    /\ Looks /\ Room.result = Absent /\ Room.journal = Absent
    /\ Room.last = NoSave /\ Room.prev = NoSave /\ ~Room.log1

ReuseResult ==
    /\ sup.pc = "candidate" /\ ~Condemned /\ Reusable /\ Record(Room.result.v)
    /\ UNCHANGED <<pod, plan, orders, root, summary, train, orphans>>
ReuseJournal ==
    /\ sup.pc = "candidate" /\ ~Condemned /\ Resumable
    /\ sup' = [sup EXCEPT !.pc = "resume", !.seen = Room.journal.v.seen]
    /\ UNCHANGED <<pod, plan, orders, root, summary, train, orphans>>
BeginPhaseOne ==
    /\ sup.pc = "candidate" /\ ~Condemned /\ Untouched /\ To("launch_one")
    /\ UNCHANGED <<pod, plan, orders, root, summary, train, orphans>>
RefuseCandidate ==
    /\ sup.pc = "candidate" /\ ~Condemned /\ ~Reusable /\ ~Resumable /\ ~Untouched /\ Fail
    /\ UNCHANGED <<pod, plan, orders, root, summary, train, orphans>>

-----------------------------------------------------------------------------
(* A phase: torchrun in a session of its own, watched through its log.     *)
(* The trainer refuses data, code or a checkpoint that are not of one      *)
(* generation, and looks for the stop request at every step.               *)
Torchrun(from) ==
    LET compatible == orders[sup.m][Here] = inputs /\ (from = NoSave \/ from.inputs = inputs)
    IN  [alive |-> compatible, m |-> sup.m, c |-> Here, step |-> from.step, inputs |-> inputs,
         end |-> IF compatible THEN "none" ELSE "crash"]

LaunchPhaseOne ==
    /\ sup.pc = "launch_one" /\ To("phase_one")
    /\ Write([Room EXCEPT !.log1 = TRUE]) /\ train' = Torchrun(NoSave)
    /\ UNCHANGED <<pod, plan, orders, summary, orphans>>

(* Before the resume: the inputs once more, the stop request of phase one  *)
(* removed, and nothing of an earlier phase two.                           *)
Resume ==
    /\ sup.pc = "resume"
    /\ IF ~Looks THEN Fail /\ UNCHANGED root
       ELSE /\ Write([Room EXCEPT !.stop = FALSE])
            /\ IF Room.log2 \/ Room.prev # NoSave THEN Fail ELSE To("launch_two")
    /\ UNCHANGED <<pod, plan, orders, summary, train, orphans>>
LaunchPhaseTwo ==
    /\ sup.pc = "launch_two" /\ sup' = [sup EXCEPT !.pc = "phase_two", !.asked = FALSE]
    /\ Write([Room EXCEPT !.log2 = TRUE]) /\ train' = Torchrun(Room.last)
    /\ UNCHANGED <<pod, plan, orders, summary, orphans>>

Watching == sup.pc \in {"phase_one", "phase_two"}
Target == Warmup + IF sup.pc = "phase_one" THEN StopAfter ELSE MinimumSoak
Observe ==
    /\ Watching /\ train.alive /\ sup.seen # train.step
    /\ LET ask == train.step >= Target /\ ~sup.asked
       IN  /\ sup' = [sup EXCEPT !.seen = train.step, !.asked = @ \/ ask]
           /\ IF ask THEN Write([Room EXCEPT !.stop = TRUE]) ELSE UNCHANGED root
    /\ UNCHANGED <<pod, plan, orders, summary, train, orphans>>

Saved(d, t) == [d EXCEPT !.prev = d.last,
                         !.last = [step |-> t.step, inputs |-> t.inputs, boot |-> boot]]
StopSeen == root[train.m][train.c].stop
TrainerStep ==
    /\ train.alive /\ train.step < OrderSteps /\ ~StopSeen
    /\ sup.seen = train.step \/ train.m \in Lagging
    /\ train' = [train EXCEPT !.step = @ + 1]
    /\ UNCHANGED <<pod, plan, orders, root, summary, sup, orphans>>
TrainerEnds ==   \* a graceful stop, or the end of the order; both save
    /\ train.alive /\ (StopSeen \/ train.step = OrderSteps)
    /\ train' = [train EXCEPT !.alive = FALSE, !.end = IF StopSeen THEN "graceful" ELSE "complete"]
    /\ root' = [root EXCEPT ![train.m][train.c] = Saved(@, train)]
    /\ UNCHANGED <<pod, plan, orders, summary, sup, orphans>>

(* A timeout or an error of the watch: stop, wait, terminate.              *)
WatchFails ==
    /\ Watching /\ train.alive /\ kills < MaxKills /\ kills' = kills + 1
    /\ Write([Room EXCEPT !.stop = TRUE]) /\ To("abort")
    /\ UNCHANGED <<inputs, boot, edits, told, plan, orders, summary, train, orphans>>
Abort ==
    /\ sup.pc = "abort" /\ Fail
    /\ train' = [train EXCEPT !.alive = FALSE, !.end = "crash"]
    /\ UNCHANGED <<pod, plan, orders, root, summary, orphans>>

-----------------------------------------------------------------------------
(* Phase one ends in a journal, phase two in a result.                     *)
Graceful == train.end = "graceful" /\ sup.asked
Clean == ~train.alive /\ train.end # "none"

PhaseOneEnds ==
    /\ sup.pc = "phase_one" /\ Clean
    /\ IF Graceful /\ train.step > Warmup
       THEN /\ sup' = [sup EXCEPT !.pc = "journal", !.seen = train.step]
            /\ Write([Room EXCEPT !.journal =
                         Bare([seen |-> train.step, save |-> Room.last, boot |-> boot])])
       ELSE Fail /\ UNCHANGED root
    /\ train' = Idle
    /\ UNCHANGED <<pod, plan, orders, summary, orphans>>
SealJournal ==
    /\ sup.pc = "journal" /\ To("resume")
    /\ Write([Room EXCEPT !.journal = Sealed(@.v)])
    /\ UNCHANGED <<pod, plan, orders, summary, train, orphans>>

(* The two checkpoints prove the stop and the resume: their counters are   *)
(* those observed, and both were made by the planned sources and order.    *)
(* Order, geometry and sources are compared with the plan, the trajectory, *)
(* the runtime and the data identity with each other: a generation of the  *)
(* inputs is told by the former.                                           *)
Continuous(mid, final) ==
    /\ mid # NoSave /\ mid.step = Room.journal.v.seen /\ final.step = train.step
    /\ mid.step < final.step /\ mid.inputs = final.inputs /\ final.inputs = Planned
    /\ final.step - Warmup >= MinimumSoak

PhaseTwoEnds ==
    /\ sup.pc = "phase_two" /\ Clean
    /\ IF ~Graceful THEN Fail /\ UNCHANGED root
       ELSE LET d == [Room EXCEPT !.stop = FALSE]
            IN  IF Continuous(Room.prev, Room.last) /\ Looks
                THEN \E rate \in (IF sup.m = "grid" THEN Rates ELSE {0, 1}) :
                       IF sup.m = "baselines" /\ rate = 0 THEN To("fail") /\ Write(d)
                       ELSE To("result") /\ Write([d EXCEPT !.result = Bare(Measured(rate))])
                ELSE Fail /\ Write(d)
    /\ train' = Idle
    /\ UNCHANGED <<pod, plan, orders, summary, orphans>>
SealResult ==
    /\ sup.pc = "result" /\ Write([Room EXCEPT !.result = Sealed(@.v)]) /\ Record(Room.result.v)
    /\ UNCHANGED <<pod, plan, orders, summary, train, orphans>>

(* _candidate_failure_result, _baseline_failure_result.                    *)
PublishFailure ==
    /\ sup.pc = "fail"
    /\ IF Room.failure = Absent
       THEN To("failure") /\ Write([Room EXCEPT !.failure = Bare("failed")])
       ELSE /\ IF IsSealed(Room.failure) THEN Record(Fails) ELSE Exit
            /\ UNCHANGED root
    /\ train' = Idle
    /\ UNCHANGED <<pod, plan, orders, summary, orphans>>
SealFailure ==
    /\ sup.pc = "failure" /\ Write([Room EXCEPT !.failure = Sealed(@.v)]) /\ Record(Fails)
    /\ UNCHANGED <<pod, plan, orders, summary, train, orphans>>

(* The receipt of the whole: every baseline and the final candidate must   *)
(* pass, a grid may fail.                                                  *)
Summarise ==
    /\ sup.pc = "summary"
    /\ IF sup.m # "grid" /\ Passing(sup.rec) # DOMAIN sup.rec THEN Exit /\ UNCHANGED summary
       ELSE /\ summary' = [summary EXCEPT ![sup.m] =
                               Bare([rec |-> sup.rec, accepted |-> Fastest(sup.rec)])]
            /\ To("seal")
    /\ UNCHANGED <<pod, plan, orders, root, train, orphans>>
SealSummary ==
    /\ sup.pc = "seal" /\ Exit /\ summary' = [summary EXCEPT ![sup.m] = Sealed(@.v)]
    /\ UNCHANGED <<pod, plan, orders, root, train, orphans>>

-----------------------------------------------------------------------------
(* Kills.  A supervisor that dies leaves its torchrun running until the    *)
(* torchrun prints into the closed pipe; a partial order stays.            *)
Interrupted == IF sup.pc = "orders" /\ orders[sup.m][Here] = "none"
               THEN [orders EXCEPT ![sup.m][Here] = "partial"] ELSE orders
KillSupervisor ==
    /\ sup.pc # "off" /\ kills < MaxKills /\ kills' = kills + 1
    /\ Exit /\ orders' = Interrupted
    /\ orphans' = IF train.alive THEN orphans \cup {train} ELSE orphans
    /\ train' = Idle
    /\ UNCHANGED <<inputs, boot, edits, told, plan, root, summary>>
Reboot ==
    /\ kills < MaxKills /\ kills' = kills + 1 /\ boot' = boot + 1
    /\ Exit /\ orders' = Interrupted /\ orphans' = {} /\ train' = Idle
    /\ UNCHANGED <<inputs, edits, told, plan, root, summary>>
KillTrainer ==
    /\ train.alive /\ kills < MaxKills /\ kills' = kills + 1
    /\ train' = [train EXCEPT !.alive = FALSE, !.end = "crash"]
    /\ UNCHANGED <<inputs, boot, edits, told, plan, orders, root, summary, sup, orphans>>

OrphanEnds(o) ==
    /\ o \in orphans /\ orphans' = orphans \ {o}
    /\ root' = IF root[o.m][o.c].stop THEN [root EXCEPT ![o.m][o.c] = Saved(@, o)] ELSE root
    /\ UNCHANGED <<pod, plan, orders, summary, sup, train>>

(* An operator replaces the inputs, and puts back what a plan binds.       *)
EditInputs ==
    /\ sup.pc # "off" /\ edits < MaxEdits /\ edits' = edits + 1
    /\ inputs' \in Generations \ {inputs}
    /\ UNCHANGED <<boot, kills, told, plan, orders, root, summary, sup, train, orphans>>
Restore ==
    /\ \E m \in Modes : plan[m] # Absent /\ plan[m].v.inputs # inputs /\ inputs' = plan[m].v.inputs
    /\ UNCHANGED <<boot, kills, edits, told, plan, orders, root, summary, sup, train, orphans>>

Supervise ==
    \/ SealPlan \/ Verify \/ EnsureOrder
    \/ RecordFailure \/ ReuseResult \/ ReuseJournal \/ BeginPhaseOne \/ RefuseCandidate
    \/ LaunchPhaseOne \/ Resume \/ LaunchPhaseTwo \/ Observe \/ Abort
    \/ PhaseOneEnds \/ SealJournal \/ PhaseTwoEnds \/ SealResult
    \/ PublishFailure \/ SealFailure \/ Summarise \/ SealSummary
Training == TrainerStep \/ TrainerEnds
Fault == WatchFails \/ KillSupervisor \/ Reboot \/ KillTrainer \/ EditInputs
QualificationNext ==
    \/ \E m \in Modes : Launch(m)
    \/ BuildFinalOrder \/ Supervise \/ Training \/ Fault \/ Restore
    \/ \E o \in orphans : OrphanEnds(o)
QualificationSpec ==
    /\ QualificationInit /\ [][QualificationNext]_qualificationVars
    /\ WF_qualificationVars(Supervise) /\ WF_qualificationVars(Training)
    /\ WF_qualificationVars(Restore) /\ SF_qualificationVars(Launch("grid"))

-----------------------------------------------------------------------------
(* A result that passes is the measurement of one continuous run: two      *)
(* phases of the planned sources and order on one boot, the second resumed *)
(* from the first's only checkpoint, at least as long as planned           *)
(* (run_candidate, run_baseline_candidate).                                *)
QualifiedIsMeasured ==
    \A m \in Modes : \A c \in Names :
      root[m][c].result # Absent /\ root[m][c].result.v.pass =>
        LET d == root[m][c]
        IN  /\ d.log1 /\ d.log2 /\ IsSealed(d.journal) /\ d.prev = d.journal.v.save
            /\ \A save \in {d.prev, d.last} :
                 save.inputs = plan[m].v.inputs /\ save.boot = d.journal.v.boot
            /\ Warmup < d.prev.step /\ d.prev.step < d.last.step
            /\ d.last.step - Warmup >= MinimumSoak

(* The accepted geometry is the fastest candidate whose evidence passes,   *)
(* the first of equals, and it was soaked again on the final order under   *)
(* the inputs the whole chain of plans binds (run_grid, run_final_soak).   *)
AcceptedIsFastest ==
    /\ summary["grid"] # Absent =>
         \A i \in DOMAIN Geometries :
           LET pass == /\ root["grid"][Geometries[i]].failure = Absent
                       /\ root["grid"][Geometries[i]].result # Absent
                       /\ root["grid"][Geometries[i]].result.v.pass
               rate == root["grid"][Geometries[i]].result.v.rate
               best == summary["grid"].v.accepted
           IN  /\ pass => best # 0
               /\ pass /\ best # i =>
                    LET top == root["grid"][Geometries[best]].result.v.rate
                    IN  top > rate \/ (top = rate /\ best < i)
    /\ summary["final"] # Absent =>
         /\ plan["final"].v.roster = <<Geometries[summary["grid"].v.accepted]>>
         /\ root["final"][plan["final"].v.roster[1]].result.v.pass
         /\ \A m \in Modes : plan[m].v.inputs = plan["final"].v.inputs

(* The order that the command itself builds for the accepted geometry,     *)
(* exact to the last row, is not refused (build_final_train_order_from_    *)
(* grid: "Publish the selected 52.58B ... order from grid authority").     *)
SelectedOrderAccepted == told # "refused"

(* A grid that is relaunched ends in a result, unless a kill left one of   *)
(* the files it never touches again: a plan, a failure or the result       *)
(* without its checksum, a partial order, or a failure beside a result.    *)
Poisoned ==
    \/ plan["grid"].at = "bare" \/ summary["grid"].at = "bare"
    \/ \E c \in Names : \/ orders["grid"][c] = "partial"
                        \/ root["grid"][c].failure.at = "bare"
                        \/ root["grid"][c].failure # Absent /\ root["grid"][c].result # Absent
    \/ \E c, e \in Names : orders["grid"][c] # orders["grid"][e]
QualificationConcludes ==
    BaselinesHold ~> (IsSealed(summary["grid"]) \/ Poisoned)
=============================================================================
