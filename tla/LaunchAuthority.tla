---------------------------- MODULE LaunchAuthority ----------------------------
(***************************************************************************)
(* From a packed corpus to a training run: an operator certifies the two   *)
(* orders, qualifies the corpus, obtains a geometry receipt (a soak, or a  *)
(* waiver of it), has them collected into a run authority for one exact    *)
(* command line, and launches it.  The launcher looks at the mount and the *)
(* checkpoints, at the orders, and at everything the authority names, one  *)
(* after the other; then it becomes the supervisor of the run.             *)
(*                                                                         *)
(* All evidence is write-once: what is published again has another path,   *)
(* and an authority names the files it was collected from.                 *)
(***************************************************************************)
EXTENDS Naturals, FiniteSets, SealedEvidence

CONSTANTS
    Orders,      \* contents that a split's order can have
    Commits,     \* whose sources a commit may change: sets of validators
    Capacity,    \* checkpoint generations the durable filesystem holds
    Saves,       \* saves of a complete run
    MaxTenants,  \* bound: generations' worth of room that others take
    MaxTroubles  \* bound: edits, commits, remounts, kills, and commands out of turn

Validators == {"certifier", "qualifier"}
Peak == 3        \* _CHECKPOINT_ROTATION_PEAK_GENERATIONS
ASSUME LaunchAssumption ==
    /\ Orders # {} /\ Commits \subseteq SUBSET Validators
    /\ Saves \in Nat \ {0} /\ Capacity \in Nat /\ Capacity > Peak
    /\ MaxTenants \in Nat /\ MaxTroubles \in Nat

Splits == {"train", "validation"}
Resumes == {"none", "latest", "previous"}   \* --resume-generation

NoJob == [kind |-> "none", step |-> "none", arg |-> "none", argv |-> "none", saw |-> {}]
NoRun == [pc |-> "off", resume |-> "none", step |-> 0, rollback |-> FALSE, by |-> {}]
NoLineage == [last |-> 0, prev |-> 0, link |-> 0, parts |-> 0]

VARIABLES
    data,       \* data[split]: its order, whether payloads are valid, its files' identity
    immutable,  \* is the local data root mounted read-only?
    code,       \* code[part]: the clean tree's commit, to which the pod's contract is
                \* bound, and in it the sources of the two validators
    grid,       \* does the evidence stand that a waiver of the soak rests on?
    receipt,    \* accepted geometry
    corpus,     \* corpus qualification; its directory appears at once
    cert,       \* cert[split]: full-validation evidence
    authority,  \* authority[resume]: run authority of that command line
    job,        \* the operator's command
    lineage,    \* checkpoints: steps of last, previous and the link aside; parts
    run,        \* the supervised run
    tenant,     \* room taken by others on the durable filesystem
    troubles
inputsOfLaunch == <<data, immutable, code, grid>>
evidenceOfLaunch == <<receipt, corpus, cert, authority>>
launchVars ==
    <<inputsOfLaunch, evidenceOfLaunch, job, lineage, run, tenant, troubles>>

LaunchInit ==
    /\ data = [s \in Splits |-> [order |-> CHOOSE o \in Orders : TRUE, sound |-> TRUE, id |-> 1]]
    /\ immutable = TRUE /\ code = [part \in {"commit"} \cup Validators |-> 1] /\ grid = TRUE
    /\ receipt = Absent /\ corpus = Absent
    /\ cert = [s \in Splits |-> Absent] /\ authority = [r \in Resumes |-> Absent]
    /\ job = NoJob /\ lineage = NoLineage /\ run = NoRun /\ tenant = 0
    /\ troubles = 0

-----------------------------------------------------------------------------
(* What evidence binds, and whether it stands: the metadata of every file  *)
(* (device, inode, size, times), the order's content, the validator's      *)
(* sources: a commit that leaves these alone invalidates neither           *)
(* certificate nor corpus qualification, but does invalidate the geometry  *)
(* receipt, whose hardware contract names the commit.                      *)
Metadata(s) == [order |-> data[s].order, id |-> data[s].id]
Look(s) == [of |-> Metadata(s), by |-> code["certifier"]]
LookAtAll == [of |-> [s \in Splits |-> Metadata(s)], by |-> code["qualifier"]]
OrdersNow == [s \in Splits |-> data[s].order]

Certifies(c, s) == c = Look(s)
CorpusStands(c) == c = LookAtAll
GeometryStands(g, tree) == g.code = tree /\ (g.waiver => grid)

(* collect_run_authority: the payload of one command line.                 *)
Payload(r) == [resume |-> r, code |-> code, receipt |-> receipt.v, corpus |-> corpus.v,
               cert |-> [s \in Splits |-> cert[s].v]]
Commands(p, r) == p.resume = r   \* the rest of the command line does not vary
OrdersStand(p) ==
    /\ p.receipt.orders = OrdersNow
    /\ CorpusStands(p.corpus)
    /\ \A s \in Splits : Certifies(p.cert[s], s)
AuthorityStands(p) == p.code = code /\ GeometryStands(p.receipt, code) /\ OrdersStand(p)

-----------------------------------------------------------------------------
(* The operator renews what no longer stands, in one order; any command    *)
(* out of turn, futile or not, is counted with the troubles.               *)
Trouble == troubles < MaxTroubles /\ troubles' = troubles + 1
Begin(j, sensible) ==
    /\ job.kind = "none" /\ run.pc = "off" /\ lineage.last < Saves
    /\ job' = j
    /\ IF sensible THEN UNCHANGED troubles ELSE Trouble
    /\ UNCHANGED <<inputsOfLaunch, lineage, run, tenant>>
Step(to) == job' = [job EXCEPT !.step = to]
Done == job' = NoJob
At(kind, step) == job.kind = kind /\ job.step = step
quiet == <<inputsOfLaunch, lineage, run, tenant, troubles>>

(* certify_order: metadata, the whole content, the metadata again.         *)
CertifiedNow(s) == cert[s] = Sealed(Look(s))
CertifyBegin(s) ==
    /\ ~CertifiedNow(s)
    /\ Begin([NoJob EXCEPT !.kind = "certify", !.step = "validate", !.arg = s, !.saw = Look(s)],
             data[s].sound /\ (s = "validation" => CertifiedNow("train")))
    /\ UNCHANGED evidenceOfLaunch
CertifyValidate ==
    /\ At("certify", "validate")
    /\ IF data[job.arg].sound THEN Step("publish") ELSE Done
    /\ UNCHANGED <<quiet, evidenceOfLaunch>>
CertifyPublish ==
    /\ At("certify", "publish")
    /\ IF Look(job.arg) = job.saw
       THEN Step("seal") /\ cert' = [cert EXCEPT ![job.arg] = Bare(job.saw)]
       ELSE Done /\ UNCHANGED cert
    /\ UNCHANGED <<quiet, receipt, corpus, authority>>
CertifySeal ==
    /\ At("certify", "seal") /\ Done
    /\ cert' = [cert EXCEPT ![job.arg] = Sealed(@.v)]
    /\ UNCHANGED <<quiet, receipt, corpus, authority>>

(* qualify_corpus: snapshots around the whole check, published at once.    *)
QualifiedNow == corpus = Sealed(LookAtAll)
QualifyBegin ==
    /\ ~QualifiedNow
    /\ Begin([NoJob EXCEPT !.kind = "qualify", !.step = "validate", !.saw = LookAtAll],
             \A s \in Splits : data[s].sound /\ CertifiedNow(s))
    /\ UNCHANGED evidenceOfLaunch
QualifyValidate ==
    /\ At("qualify", "validate")
    /\ IF \A s \in Splits : data[s].sound THEN Step("publish") ELSE Done
    /\ UNCHANGED <<quiet, evidenceOfLaunch>>
QualifyPublish ==
    /\ At("qualify", "publish") /\ Done
    /\ corpus' = IF LookAtAll = job.saw THEN Sealed(job.saw) ELSE corpus
    /\ UNCHANGED <<quiet, receipt, cert, authority>>

(* run_final_soak's receipt, or a waiver resting on the grid's evidence.   *)
GeometryNow(waiver) == [waiver |-> waiver, orders |-> OrdersNow, code |-> code]
ReceiptBegin(waiver) ==
    /\ ~(IsSealed(receipt) /\ receipt.v.orders = OrdersNow /\ GeometryStands(receipt.v, code))
    /\ Begin([NoJob EXCEPT !.kind = "receipt", !.step = "publish", !.saw = GeometryNow(waiver)],
             (waiver => grid) /\ QualifiedNow)
    /\ UNCHANGED evidenceOfLaunch
ReceiptPublish ==
    /\ At("receipt", "publish")
    /\ IF job.saw.waiver => grid THEN Step("seal") /\ receipt' = Bare(job.saw)
       ELSE Done /\ UNCHANGED receipt
    /\ UNCHANGED <<quiet, corpus, cert, authority>>
ReceiptSeal ==
    /\ At("receipt", "seal") /\ Done /\ receipt' = Sealed(receipt.v)
    /\ UNCHANGED <<quiet, corpus, cert, authority>>

(* collect_run_authority looks at the commit, the receipt, then the orders *)
(* and what qualifies them; publish_run_authority writes where the command *)
(* line says.                                                              *)
EvidenceSealed == IsSealed(receipt) /\ IsSealed(corpus) /\ \A s \in Splits : IsSealed(cert[s])
Authorised(r) == IsSealed(authority[r]) /\ AuthorityStands(authority[r].v)
Lineage(r) ==   \* inspect_storage_and_checkpoint's choice of a generation
    CASE r = "none" -> lineage.last = 0 /\ lineage.prev = 0
      [] r = "latest" -> lineage.last # 0
      [] r = "previous" -> lineage.prev # 0
CollectBegin(r) ==
    /\ EvidenceSealed /\ ~Authorised(r)
    /\ Begin([NoJob EXCEPT !.kind = "collect", !.step = "geometry", !.arg = r, !.saw = Payload(r)],
             AuthorityStands(Payload(r)) /\ Lineage(r))
    /\ UNCHANGED evidenceOfLaunch
CollectGeometry ==
    /\ At("collect", "geometry")
    /\ IF GeometryStands(job.saw.receipt, job.saw.code) THEN Step("publish") ELSE Done
    /\ UNCHANGED <<quiet, evidenceOfLaunch>>
CollectPublish ==
    /\ At("collect", "publish")
    /\ IF OrdersStand(job.saw)
       THEN Step("seal") /\ authority' = [authority EXCEPT ![job.arg] = Bare(job.saw)]
       ELSE Done /\ UNCHANGED authority
    /\ UNCHANGED <<quiet, receipt, corpus, cert>>
CollectSeal ==
    /\ At("collect", "seal") /\ Done
    /\ authority' = [authority EXCEPT ![job.arg] = Sealed(@.v)]
    /\ UNCHANGED <<quiet, receipt, corpus, cert>>

-----------------------------------------------------------------------------
(* The launcher.  Room is admitted for the generations that the rotation   *)
(* will hold at its peak beyond the distinct ones that exist.              *)
Existing == Cardinality({lineage.last, lineage.prev} \ {0})
Held == Cardinality({lineage.last, lineage.prev, lineage.link} \ {0}) + lineage.parts
Free == Capacity - Held - tenant
SlotsOfOneSave == 1
Slots == IF Existing + 1 >= Peak THEN 1 ELSE Peak - Existing
Admitted == Free >= Slots
ReadOnlyAssumed == TRUE
ReadOnly == immutable

LaunchBegin(r, a) ==
    /\ IsSealed(authority[a])
    /\ Begin([NoJob EXCEPT !.kind = "launch", !.step = "storage", !.arg = a, !.argv = r,
                           !.saw = authority[a].v],
             r = a /\ Authorised(a) /\ ReadOnly /\ Lineage(r) /\ Admitted)
    /\ UNCHANGED evidenceOfLaunch
LaunchStorage ==   \* inspect_storage_and_checkpoint
    /\ At("launch", "storage")
    /\ IF ReadOnly /\ Lineage(job.argv) /\ Admitted THEN Step("orders") ELSE Done
    /\ UNCHANGED <<quiet, evidenceOfLaunch>>
LaunchOrders ==    \* inspect_order, verify_full_validation_evidence
    /\ At("launch", "orders")
    /\ IF \A s \in Splits : Certifies(job.saw.cert[s], s) THEN Step("authority") ELSE Done
    /\ UNCHANGED <<quiet, evidenceOfLaunch>>
LaunchValidate ==  \* validate_launch_authority
    /\ At("launch", "authority")
    /\ IF AuthorityStands(job.saw) /\ Commands(job.saw, job.argv) THEN Step("exec") ELSE Done
    /\ UNCHANGED <<quiet, evidenceOfLaunch>>
LaunchExec ==      \* the strict receipt once more, then exec_clean_supervisor
    /\ At("launch", "exec") /\ Done
    /\ IF job.saw.receipt.waiver => grid
       THEN run' = [NoRun EXCEPT !.pc = "starting", !.resume = job.argv, !.by = job.saw]
       ELSE UNCHANGED run
    /\ UNCHANGED <<inputsOfLaunch, evidenceOfLaunch, lineage, tenant, troubles>>

-----------------------------------------------------------------------------
(* The run: it sweeps what a killed save left, and saves by rotation: the  *)
(* last generation is linked aside, replaced, and only then renamed to     *)
(* previous.  The first save of a rollback retains nothing.                *)
Running(pc) == run.pc = pc
calm == <<inputsOfLaunch, evidenceOfLaunch, job, tenant, troubles>>
Unswept == lineage
Swept == [lineage EXCEPT !.parts = 0, !.link = 0]
RunStart ==
    /\ Running("starting")
    /\ lineage' = Swept
    /\ run' = [run EXCEPT !.pc = "training", !.rollback = run.resume = "previous",
                          !.step = CASE run.resume = "none" -> 0
                                     [] run.resume = "latest" -> lineage.last
                                     [] run.resume = "previous" -> lineage.prev]
    /\ UNCHANGED calm
SaveWrite ==
    /\ Running("training") /\ run.step < Saves
    /\ IF Free = 0 THEN run' = [run EXCEPT !.pc = "starved"] /\ UNCHANGED lineage
       ELSE /\ run' = [run EXCEPT !.step = @ + 1,
                          !.pc = IF lineage.last # 0 /\ ~run.rollback THEN "link" ELSE "replace"]
            /\ lineage' = [lineage EXCEPT !.parts = @ + 1]
    /\ UNCHANGED calm
SaveLink ==
    /\ Running("link") /\ run' = [run EXCEPT !.pc = "replace"]
    /\ lineage' = [lineage EXCEPT !.link = lineage.last]
    /\ UNCHANGED calm
SaveReplace ==
    /\ Running("replace")
    /\ run' = [run EXCEPT !.pc = IF lineage.link # 0 THEN "rotate" ELSE "training",
                          !.rollback = FALSE]
    /\ lineage' = [lineage EXCEPT !.last = run.step, !.parts = @ - 1]
    /\ UNCHANGED calm
SaveRotate ==
    /\ Running("rotate") /\ run' = [run EXCEPT !.pc = "training"]
    /\ lineage' = [lineage EXCEPT !.prev = lineage.link, !.link = 0]
    /\ UNCHANGED calm
RunEnds ==
    /\ Running("training") /\ run.step = Saves /\ run' = NoRun
    /\ UNCHANGED <<calm, lineage>>

-----------------------------------------------------------------------------
(* What happens to the machine.  The data root is written to or mounted    *)
(* anew only while it is writable, and while no launch or run relies on it *)
(* (docs and the launcher demand an immutable snapshot).                   *)
Relied == job.kind = "launch" \/ run.pc # "off"
others == <<evidenceOfLaunch, job, lineage, run>>
EditData ==
    /\ ~immutable /\ Trouble
    /\ \E s \in Splits, o \in Orders, b \in BOOLEAN :
         data' = [data EXCEPT ![s] = [order |-> o, sound |-> b, id |-> @.id + 1]]
    /\ UNCHANGED <<others, immutable, code, grid, tenant>>
Unlock ==
    /\ immutable /\ ~Relied /\ immutable' = FALSE /\ Trouble
    /\ UNCHANGED <<others, data, code, grid, tenant>>
Reattach ==   \* another device number: every file's identity changes
    /\ ~Relied /\ Trouble
    /\ data' = [s \in Splits |-> [data[s] EXCEPT !.id = @ + 1]]
    /\ UNCHANGED <<others, immutable, code, grid, tenant>>
Commit ==
    /\ Trouble
    /\ \E changed \in Commits :
         code' = [part \in DOMAIN code |->
                    IF part \in changed \cup {"commit"} THEN code[part] + 1 ELSE code[part]]
    /\ UNCHANGED <<others, data, immutable, grid, tenant>>
LoseGrid ==
    /\ grid /\ Trouble /\ grid' = FALSE
    /\ UNCHANGED <<others, data, immutable, code, tenant>>
Occupy ==
    /\ ~Relied /\ Trouble /\ tenant' \in 1..MaxTenants
    /\ UNCHANGED <<others, inputsOfLaunch>>
Mend ==   \* the operator restores what a launch needs
    /\ ~Relied
    /\ \/ /\ \E s \in Splits : ~data[s].sound
          /\ IF immutable THEN immutable' = FALSE /\ UNCHANGED data
             ELSE /\ data' = [s \in Splits |-> IF data[s].sound THEN data[s]
                                ELSE [data[s] EXCEPT !.sound = TRUE, !.id = @ + 1]]
                  /\ UNCHANGED immutable
          /\ UNCHANGED tenant
       \/ /\ ~immutable /\ \A s \in Splits : data[s].sound
          /\ immutable' = TRUE /\ UNCHANGED <<data, tenant>>
       \/ tenant # 0 /\ ~Admitted /\ tenant' = 0 /\ UNCHANGED <<data, immutable>>
    /\ UNCHANGED <<others, code, grid, troubles>>

KillJob ==
    /\ job.kind # "none" /\ Trouble /\ Done
    /\ UNCHANGED <<inputsOfLaunch, evidenceOfLaunch, lineage, run, tenant>>
KillRun ==
    /\ run.pc # "off" /\ Trouble /\ run' = NoRun
    /\ UNCHANGED <<inputsOfLaunch, evidenceOfLaunch, job, lineage, tenant>>

Operate ==
    \/ \E s \in Splits : CertifyBegin(s)
    \/ QualifyBegin
    \/ \E w \in BOOLEAN : ReceiptBegin(w)
    \/ \E r \in Resumes : CollectBegin(r)
    \/ \E r, a \in Resumes : LaunchBegin(r, a)
    \/ Mend
JobStep ==
    \/ CertifyValidate \/ CertifyPublish \/ CertifySeal
    \/ QualifyValidate \/ QualifyPublish \/ ReceiptPublish \/ ReceiptSeal
    \/ CollectGeometry \/ CollectPublish \/ CollectSeal
    \/ LaunchStorage \/ LaunchOrders \/ LaunchValidate \/ LaunchExec
RunStep == RunStart \/ SaveWrite \/ SaveLink \/ SaveReplace \/ SaveRotate \/ RunEnds
World == EditData \/ Unlock \/ Reattach \/ Commit \/ LoseGrid \/ Occupy \/ KillJob \/ KillRun
LaunchNext == Operate \/ JobStep \/ RunStep \/ World
LaunchSpec ==
    /\ LaunchInit /\ [][LaunchNext]_launchVars
    /\ WF_launchVars(Operate) /\ WF_launchVars(JobStep) /\ WF_launchVars(RunStep)

-----------------------------------------------------------------------------
(* A run reads what was qualified: the content of both orders is valid and *)
(* is, file for file, what the certificates and the corpus qualification   *)
(* name, which the validators in the authority's commit made, and what the *)
(* geometry receipt of that commit names, from the generation that the     *)
(* authority is for (validate_launch_authority; the launcher itself reads  *)
(* no payload byte).                                                       *)
LaunchedIsQualified ==
    run.pc # "off" =>
      /\ \A s \in Splits :
           /\ data[s].sound
           /\ run.by.cert[s] = [of |-> Metadata(s), by |-> run.by.code["certifier"]]
      /\ run.by.corpus =
           [of |-> [s \in Splits |-> Metadata(s)], by |-> run.by.code["qualifier"]]
      /\ run.by.receipt.orders = OrdersNow /\ run.by.receipt.code = run.by.code
      /\ run.by.resume = run.resume
      /\ run.pc = "starting" => Lineage(run.resume)

(* A run that was admitted finds room for every save to its end, whatever  *)
(* earlier runs left (inspect_storage_and_checkpoint's admission).         *)
SavesHaveRoom == run.pc # "starved"

(* However the inputs changed and whatever was killed, an operator who     *)
(* renews the evidence that no longer stands gets the run launched and to  *)
(* its last save.                                                          *)
LaunchResumes == <>(lineage.last = Saves)
=============================================================================
