------------------------- MODULE DeliveryRunProofs -------------------------
(* Theorems about DeliveryRun, for any executors, packages and layers.      *)
EXTENDS DeliveryRun, WellFoundedInduction, TLAPS

(* The loop of executeRun takes the steps in order: a non-empty set of      *)
(* steps has a first one.                                                   *)
LEMMA FirstStep ==
    ASSUME NEW S \in SUBSET Nat, S # {}
    PROVE  \E s \in S : \A t \in S : s <= t
<1>1. IsWellFoundedOn(OpToRel(<, Nat), Nat)
  BY NatLessThanWellFounded, Zenon
<1>2. PICK s \in S : \A t \in S : ~ (<<t, s>> \in OpToRel(<, Nat))
  BY <1>1, WFMin
<1>3. \A t \in S : ~ (t < s)
  BY <1>2 DEF OpToRel
<1>4. QED
  BY <1>3

LEMMA StepsInNat == Steps \in SUBSET Nat /\ Layers \in SUBSET Steps
                    /\ Ensure \in Steps /\ Finalize \in Steps
BY ConstantsAssumption DEF Steps, Layers, Ensure, Finalize

LEMMA NextStepType ==
    ASSUME NEW x, x.todo \in SUBSET Steps, x.todo # {}
    PROVE  NextStep(x) \in x.todo /\ NextStep(x) \in Steps
BY FirstStep, StepsInNat DEF NextStep

(* A non-empty set of positions of a sequence has a last one: the newest    *)
(* run of the list.                                                         *)
LEMMA LastPosition ==
    ASSUME NEW n \in Nat, NEW S \in SUBSET (1..n), S # {}
    PROVE  \E i \in S : \A j \in S : j <= i
<1> DEFINE T == { n - i : i \in S }
<1>0. \A i \in S : i \in Nat /\ i <= n /\ n - i \in Nat
  OBVIOUS
<1>1. T \in SUBSET Nat /\ T # {}
  BY <1>0
<1>2. PICK t \in T : \A u \in T : t <= u
  BY <1>1, FirstStep
<1>3. PICK i \in S : t = n - i
  BY <1>2
<1>4. \A j \in S : n - j \in T
  OBVIOUS
<1> HIDE DEF T
<1>5. ASSUME NEW j \in S PROVE j <= i
  <2>1. t <= n - j
    BY <1>2, <1>4
  <2>2. QED
    BY <2>1, <1>0, <1>3
<1>6. QED
  BY <1>5

-----------------------------------------------------------------------------
(* Type correctness.                                                        *)

(* A process inside a step has that step still to do.                       *)
StepPending == \A e \in Executors : ex[e].pc = "step" => ex[e].todo # {}

TypeInv == TypeOK /\ StepPending

LEMMA AbsentRunType ==
    ASSUME NEW p \in Packages \cup {Base}
    PROVE  AbsentRun(p) \in RunRecord
BY DEF AbsentRun, RunRecord, Statuses

LEMMA IdleType == Idle \in ExecutorRecord /\ NoRequest \in Request /\ SomeRun \in Runs
<1>1. SomeRun \in Runs
  BY ConstantsAssumption DEF SomeRun, Runs
<1>2. NoRequest \in Request
  BY <1>1 DEF NoRequest, Request
<1>3. AbsentRun(Base) \in RunRecord
  BY AbsentRunType
<1>4. QED
  BY <1>1, <1>2, <1>3 DEF Idle, ExecutorRecord, PCs, Continuations

LEMMA RecordType ==
    ASSUME NEW rec \in RunRecord, NEW m \in Request
    PROVE  /\ Record(rec, m) \in RunRecord
           /\ Record(rec, m).attempt = rec.attempt
<1>1. m.status # "same" => m.status \in Statuses
  BY DEF Request
<1>2. QED
  BY <1>1 DEF Record, RunRecord, Request

LEMMA AcceptType ==
    ASSUME TypeOK, NEW m \in Request, Accept(m)
    PROVE  run' \in [Runs -> RunRecord] /\ lease' \in Children
<1>1. m.run \in Runs /\ run[m.run] \in RunRecord
  BY DEF TypeOK, Request
<1>2. Record(run[m.run], m) \in RunRecord
  BY <1>1, RecordType
<1>3. NoLease \in Children
  BY DEF NoLease, Children
<1>4. QED
  BY <1>1, <1>2, <1>3 DEF TypeOK, Accept, LeaseAfter

LEMMA CheckpointType ==
    ASSUME NEW x \in ExecutorRecord, NEW status \in Statuses \cup {"same"},
           NEW step \in SUBSET Steps, NEW rel \in Nat
    PROVE  Checkpoint(x, status, step, rel) \in Request
BY DEF Checkpoint, Request, ExecutorRecord, RunRecord

LEMMA SendType ==
    ASSUME NEW x \in ExecutorRecord, NEW m \in Request, NEW n \in Continuations
    PROVE  Send(x, m, n) \in ExecutorRecord /\ Send(x, m, n).pc = "await"
BY DEF Send, ExecutorRecord, PCs, Continuations

LEMMA LatestSuccessfulRunType ==
    ASSUME TypeOK, NEW excluded
    PROVE  LatestSuccessfulRun(excluded) \in Packages \cup {Base}
<1> DEFINE S == { i \in DOMAIN created : /\ run[created[i]].status = "succeeded"
                                         /\ created[i] \notin excluded }
<1>1. Len(created) \in Nat /\ S \in SUBSET (1..Len(created))
  BY DEF TypeOK
<1>2. CASE S = {}
  BY <1>2 DEF LatestSuccessfulRun
<1>3. CASE S # {}
  <2>1. \E i \in S : \A j \in S : j <= i
    BY <1>1, <1>3, LastPosition
  <2>2. (CHOOSE i \in S : \A j \in S : j <= i) \in S
    BY <2>1
  <2>3. \A i \in S : run[created[i]].pkg \in Packages \cup {Base}
    BY <1>1 DEF TypeOK, RunRecord
  <2>4. QED
    BY <1>3, <2>2, <2>3 DEF LatestSuccessfulRun
<1>4. QED
  BY <1>2, <1>3

LEMMA InitType == Init => TypeInv
<1> SUFFICES ASSUME Init PROVE TypeInv
  OBVIOUS
<1>1. run \in [Runs -> RunRecord]
  BY AbsentRunType DEF Init, Runs
<1>2. ex \in [Executors -> ExecutorRecord] /\ StepPending
  BY IdleType DEF Init, StepPending, Idle
<1>3. lease \in Children /\ live \in [Layers -> Children]
  BY DEF Init, NoLease, Children
<1>4. QED
  BY <1>1, <1>2, <1>3 DEF Init, TypeInv, TypeOK

(* What an action that only changes the state of one executor must show.    *)
LEMMA ExecutorType ==
    ASSUME TypeInv, NEW e \in Executors, NEW y \in ExecutorRecord,
           y.pc = "step" => y.todo # {},
           ex' = [ex EXCEPT ![e] = y]
    PROVE  ex' \in [Executors -> ExecutorRecord] /\ StepPending'
BY DEF TypeInv, TypeOK, StepPending

LEMMA LocalType ==
    ASSUME TypeInv, UNCHANGED platform, late' \in SUBSET Request, faults' \in Nat,
           ex' \in [Executors -> ExecutorRecord], StepPending'
    PROVE  TypeInv'
BY DEF TypeInv, TypeOK, platform

LEMMA DeployType ==
    ASSUME TypeInv, NEW e \in Executors, NEW p \in Packages, Deploy(e, p)
    PROVE  TypeInv'
<1> DEFINE y == [Idle EXCEPT !.pc = "create", !.run = p, !.act = AbsentRun(p),
                             !.prev = LatestSuccessfulRun({})]
<1>1. AbsentRun(p) \in RunRecord /\ LatestSuccessfulRun({}) \in Packages \cup {Base}
  BY AbsentRunType, LatestSuccessfulRunType DEF TypeInv
<1>2. y \in ExecutorRecord /\ y.pc # "step"
  BY <1>1, IdleType DEF ExecutorRecord, PCs, Continuations, Runs
<1>3. ex' = [ex EXCEPT ![e] = y]
  BY DEF Deploy
<1>4. QED
  BY <1>2, <1>3, ExecutorType, LocalType DEF Deploy, TypeInv, TypeOK

LEMMA RollbackType ==
    ASSUME TypeInv, NEW e \in Executors, NEW r \in Rollbacks, NEW rel, Rollback(e, r, rel)
    PROVE  TypeInv'
<1> DEFINE S == FindSuccessfulRunByRelease(rel)
           q == CHOOSE i \in S : \A j \in S : j <= i
           y == [Idle EXCEPT !.pc = "create", !.run = r,
                             !.act = AbsentRun(run[created[q]].pkg), !.force = TRUE]
<1>1. Len(created) \in Nat /\ S \in SUBSET (1..Len(created)) /\ S # {}
  BY DEF Rollback, FindSuccessfulRunByRelease, TypeInv, TypeOK
<1>2. q \in S
  <2>1. \E i \in S : \A j \in S : j <= i
    BY <1>1, LastPosition
  <2>2. QED
    BY <2>1
<1>3. created[q] \in Runs
  BY <1>1, <1>2 DEF TypeInv, TypeOK
<1>4. run[created[q]].pkg \in Packages \cup {Base}
  BY <1>3 DEF TypeInv, TypeOK, RunRecord
<1>5. AbsentRun(run[created[q]].pkg) \in RunRecord
  BY <1>4, AbsentRunType
<1>6. y \in ExecutorRecord /\ y.pc # "step"
  <2> HIDE DEF q
  <2>1. QED
    BY <1>5, IdleType DEF ExecutorRecord, PCs, Continuations, Runs
<1>7. ex' = [ex EXCEPT ![e] = y]
  BY DEF Rollback
<1> HIDE DEF y
<1>8. QED
  BY <1>6, <1>7, ExecutorType, LocalType DEF Rollback, TypeInv, TypeOK

LEMMA RetryType ==
    ASSUME TypeInv, NEW e \in Executors, NEW r \in Runs, Retry(e, r)
    PROVE  TypeInv'
<1> DEFINE y == [Idle EXCEPT !.run = r, !.act = run[r],
                             !.pc = IF run[r].status = "succeeded" THEN "returned"
                                    ELSE "retry",
                             !.next = "previous"]
<1>1. run[r] \in RunRecord /\ (run[r].status = "succeeded") \in BOOLEAN
  BY DEF TypeInv, TypeOK
<1>2. y \in ExecutorRecord /\ y.pc # "step"
  BY <1>1, IdleType DEF ExecutorRecord, PCs, Continuations
<1>3. ex' = [ex EXCEPT ![e] = y]
  BY DEF Retry
<1> HIDE DEF y
<1>4. QED
  BY <1>2, <1>3, ExecutorType, LocalType DEF Retry, TypeInv, TypeOK

LEMMA CreateRunType ==
    ASSUME TypeInv, NEW e \in Executors, CreateRun(e)
    PROVE  TypeInv'
<1> DEFINE r == ex[e].run
           opened == [AbsentRun(ex[e].act.pkg) EXCEPT
                         !.status = "packaged", !.attempt = 1, !.writer = 1]
<1>1. ex[e] \in ExecutorRecord /\ r \in Runs /\ run[r] \in RunRecord
  BY DEF TypeInv, TypeOK, ExecutorRecord
<1>2. opened \in RunRecord
  <2>1. AbsentRun(ex[e].act.pkg) \in RunRecord
    BY <1>1, AbsentRunType DEF ExecutorRecord, RunRecord
  <2>2. QED
    BY <2>1 DEF RunRecord, Statuses
<1>3. CASE /\ run' = [run EXCEPT ![r] = opened]
           /\ created' = Append(created, r)
           /\ lease' = <<r, 1>>
           /\ ex' = [ex EXCEPT ![e] = [@ EXCEPT !.act = run'[r], !.pc = "begin"]]
  <2> HIDE DEF opened
  <2>1. run' \in [Runs -> RunRecord] /\ run'[r] \in RunRecord
    BY <1>1, <1>2, <1>3 DEF TypeInv, TypeOK
  <2>2. created' \in Seq(Runs) /\ lease' \in Children
    BY <1>1, <1>3 DEF TypeInv, TypeOK, Children
  <2>3. [ex[e] EXCEPT !.act = run'[r], !.pc = "begin"] \in ExecutorRecord
    BY <1>1, <2>1 DEF ExecutorRecord, PCs, Continuations
  <2>4. ex' \in [Executors -> ExecutorRecord] /\ StepPending'
    BY <1>1, <1>3, <2>1, <2>3, ExecutorType DEF ExecutorRecord
  <2>5. QED
    BY <2>1, <2>2, <2>4 DEF CreateRun, TypeInv, TypeOK
<1> DEFINE answers == { [ex[e] EXCEPT !.act = run[r], !.pc = "returned"],
                        [ex[e] EXCEPT !.act = run[r], !.pc = "begin"],
                        [ex[e] EXCEPT !.act = run[r], !.pc = "retry", !.next = "begin"],
                        Idle }
<1>4. CASE UNCHANGED <<run, created, lease>> /\ \E y \in answers : ex' = [ex EXCEPT ![e] = y]
  <2>1. PICK y \in answers : ex' = [ex EXCEPT ![e] = y]
    BY <1>4
  <2>2. y \in ExecutorRecord /\ y.pc # "step"
    BY <2>1, <1>1, IdleType DEF ExecutorRecord, PCs, Continuations, Idle
  <2>3. ex' \in [Executors -> ExecutorRecord] /\ StepPending'
    BY <2>1, <2>2, ExecutorType
  <2>4. QED
    BY <1>4, <2>3, LocalType DEF CreateRun, TypeInv, TypeOK, platform
<1>5. CASE /\ run[r].status # "absent"
           /\ ex' = [ex EXCEPT ![e] =
                          CASE run[r].status = "succeeded" ->
                                 [@ EXCEPT !.act = run[r], !.pc = "returned"]
                            [] run[r].status = "packaged" ->
                                 [@ EXCEPT !.act = run[r], !.pc = "begin"]
                            [] run[r].status = "failed" ->
                                 [@ EXCEPT !.act = run[r], !.pc = "retry", !.next = "begin"]
                            [] OTHER -> Idle]
  <2>1. \E y \in answers : ex' = [ex EXCEPT ![e] = y]
    BY <1>1, <1>5 DEF TypeInv, TypeOK
  <2>2. QED
    BY <2>1, <1>4, <1>5 DEF CreateRun
<1>6. QED
  BY <1>3, <1>4, <1>5 DEF CreateRun

LEMMA OpenAttemptType ==
    ASSUME NEW r, run[r] \in RunRecord
    PROVE  OpenAttempt(r) \in RunRecord
<1>1. run[r].attempt + 1 \in Nat /\ "packaged" \in Statuses
  BY DEF RunRecord, Statuses
<1>2. QED
  BY <1>1 DEF OpenAttempt, RunRecord

LEMMA RequestRunRetryType ==
    ASSUME TypeInv, NEW e \in Executors, RequestRunRetry(e)
    PROVE  TypeInv'
<1> DEFINE r == ex[e].run
           y == [ex[e] EXCEPT !.act = run'[r], !.pc = ex[e].next]
<1>1. ex[e] \in ExecutorRecord /\ r \in Runs /\ run[r] \in RunRecord
  BY DEF TypeInv, TypeOK, ExecutorRecord
<1>2. OpenAttempt(r) \in RunRecord
  BY <1>1, OpenAttemptType
<1>3. CASE run' = [run EXCEPT ![r] = OpenAttempt(r)] /\ lease' = <<r, run[r].attempt + 1>>
  <2>1. run' \in [Runs -> RunRecord] /\ run'[r] \in RunRecord
    BY <1>1, <1>2, <1>3 DEF TypeInv, TypeOK
  <2>2. lease' \in Children
    BY <1>1, <1>3 DEF Children, RunRecord
  <2>3. y \in ExecutorRecord /\ y.pc # "step"
    BY <1>1, <2>1 DEF ExecutorRecord, PCs, Continuations
  <2>4. CASE ex' = ex /\ faults' = faults + 1
    BY <2>1, <2>2, <2>4 DEF RequestRunRetry, TypeInv, TypeOK, StepPending
  <2>5. CASE ex' = [ex EXCEPT ![e] = y] /\ faults' = faults
    <3>1. ex' \in [Executors -> ExecutorRecord] /\ StepPending'
      BY <2>3, <2>5, ExecutorType
    <3>2. QED
      BY <2>1, <2>2, <2>5, <3>1 DEF RequestRunRetry, TypeInv, TypeOK
  <2>6. CASE ex' = [ex EXCEPT ![e] = Idle] /\ UNCHANGED <<run, lease, faults>>
    <3>1. ex' \in [Executors -> ExecutorRecord] /\ StepPending'
      BY <2>6, IdleType, ExecutorType DEF Idle
    <3>2. QED
      BY <2>6, <3>1, LocalType DEF RequestRunRetry, TypeInv, TypeOK, platform
  <2>7. QED
    BY <1>3, <2>4, <2>5, <2>6 DEF RequestRunRetry
<1>4. CASE ex' = [ex EXCEPT ![e] = Idle] /\ UNCHANGED <<run, lease, faults>>
  <2>1. ex' \in [Executors -> ExecutorRecord] /\ StepPending'
    BY <1>4, IdleType, ExecutorType DEF Idle
  <2>2. QED
    BY <1>4, <2>1, LocalType DEF RequestRunRetry, TypeInv, TypeOK, platform
<1>5. QED
  BY <1>3, <1>4 DEF RequestRunRetry

LEMMA ReadPreviousType ==
    ASSUME TypeInv, NEW e \in Executors, ReadPrevious(e)
    PROVE  TypeInv'
<1> DEFINE y == [ex[e] EXCEPT !.prev = LatestSuccessfulRun({ex[e].run}), !.pc = "begin"]
<1>1. ex[e] \in ExecutorRecord
  BY DEF TypeInv, TypeOK
<1>2. LatestSuccessfulRun({ex[e].run}) \in Packages \cup {Base}
  BY LatestSuccessfulRunType DEF TypeInv
<1>3. y \in ExecutorRecord /\ y.pc # "step"
  BY <1>1, <1>2 DEF ExecutorRecord, PCs, Continuations
<1>4. ex' = [ex EXCEPT ![e] = y]
  BY DEF ReadPrevious
<1> HIDE DEF y
<1>5. QED
  BY <1>3, <1>4, ExecutorType, LocalType DEF ReadPrevious, TypeInv, TypeOK

LEMMA PlanType ==
    ASSUME NEW p, NEW q, NEW force
    PROVE  /\ ReleaseTargets(p, q, force) \in SUBSET Layers
           /\ StepsOf(ReleaseTargets(p, q, force)) \in SUBSET Steps
BY StepsInNat DEF ReleaseTargets, StepsOf

LEMMA BeginType ==
    ASSUME TypeInv, NEW e \in Executors, Begin(e)
    PROVE  TypeInv'
<1> DEFINE targets == ReleaseTargets(ex[e].act.pkg, ex[e].prev, ex[e].force)
           x == [ex[e] EXCEPT !.plan = targets, !.todo = StepsOf(targets)]
           y == Send(x, Checkpoint(x, "preparing", {}, 0), "loop")
<1>1. ex[e] \in ExecutorRecord
  BY DEF TypeInv, TypeOK
<1>2. x \in ExecutorRecord
  <2>1. targets \in SUBSET Layers /\ StepsOf(targets) \in SUBSET Steps
    BY PlanType
  <2> HIDE DEF targets
  <2>2. QED
    BY <1>1, <2>1 DEF ExecutorRecord
<1>3. ex' = [ex EXCEPT ![e] = y]
  BY DEF Begin
<1> HIDE DEF x
<1>4. y \in ExecutorRecord /\ y.pc # "step"
  BY <1>2, CheckpointType, SendType DEF Statuses, Continuations
<1> HIDE DEF y
<1>5. QED
  BY <1>3, <1>4, ExecutorType, LocalType DEF Begin, TypeInv, TypeOK

LEMMA RespondType ==
    ASSUME TypeInv, NEW e \in Executors, Respond(e)
    PROVE  TypeInv'
<1> DEFINE m == ex[e].req
           y == [ex[e] EXCEPT !.act = run'[m.run], !.pc = ex[e].next]
<1>1. ex[e] \in ExecutorRecord /\ m \in Request /\ m.run \in Runs
  BY DEF TypeInv, TypeOK, ExecutorRecord, Request
<1>2. CASE Accept(m) /\ ex' = [ex EXCEPT ![e] = y]
  <2>1. run' \in [Runs -> RunRecord] /\ lease' \in Children
    BY <1>1, <1>2, AcceptType DEF TypeInv
  <2>2. y \in ExecutorRecord /\ y.pc # "step"
    BY <1>1, <2>1 DEF ExecutorRecord, PCs, Continuations
  <2>3. ex' \in [Executors -> ExecutorRecord] /\ StepPending'
    BY <1>2, <2>2, ExecutorType
  <2>4. QED
    BY <2>1, <2>3 DEF Respond, TypeInv, TypeOK
<1>3. CASE ex' = [ex EXCEPT ![e] = AfterRefusal(@)] /\ UNCHANGED <<run, lease>>
  <2>1. AfterRefusal(ex[e]) \in ExecutorRecord /\ AfterRefusal(ex[e]).pc # "step"
    BY <1>1 DEF AfterRefusal, ExecutorRecord, PCs, Continuations
  <2>2. ex' \in [Executors -> ExecutorRecord] /\ StepPending'
    BY <1>3, <2>1, ExecutorType
  <2>3. QED
    BY <1>3, <2>2 DEF Respond, TypeInv, TypeOK
<1>4. QED
  BY <1>2, <1>3 DEF Respond

LEMMA AnswerLostType ==
    ASSUME TypeInv, NEW e \in Executors, AnswerLost(e)
    PROVE  TypeInv'
<1>1. ex[e].req \in Request
  BY DEF TypeInv, TypeOK, ExecutorRecord
<1>2. run' \in [Runs -> RunRecord] /\ lease' \in Children
  BY <1>1, AcceptType DEF AnswerLost, TypeInv
<1>3. QED
  BY <1>2 DEF AnswerLost, TypeInv, TypeOK, StepPending

LEMMA ResendType ==
    ASSUME TypeInv, NEW e \in Executors, Resend(e)
    PROVE  TypeInv'
<1>1. ex[e].req \in Request
  BY DEF TypeInv, TypeOK, ExecutorRecord
<1>2. QED
  BY <1>1 DEF Resend, TypeInv, TypeOK, StepPending, platform

LEMMA DeliverLateType ==
    ASSUME TypeInv, NEW m, DeliverLate(m)
    PROVE  TypeInv'
<1>1. m \in Request /\ late' \in SUBSET Request
  BY DEF DeliverLate, TypeInv, TypeOK
<1>2. run' \in [Runs -> RunRecord] /\ lease' \in Children
  BY <1>1, AcceptType DEF DeliverLate, TypeInv, TypeOK
<1>3. QED
  BY <1>1, <1>2 DEF DeliverLate, TypeInv, TypeOK, StepPending

LEMMA SkipStepType ==
    ASSUME TypeInv, NEW e \in Executors, SkipStep(e)
    PROVE  TypeInv'
<1> DEFINE s == NextStep(ex[e])
           rest == [ex[e] EXCEPT !.todo = @ \ {s}]
<1>1. ex[e] \in ExecutorRecord /\ ex[e].pc = "loop"
  BY DEF SkipStep, TypeInv, TypeOK
<1>2. rest \in ExecutorRecord /\ rest.pc = "loop"
  BY <1>1 DEF ExecutorRecord
<1>3. ex' = [ex EXCEPT ![e] = IF s = Ensure THEN Replay(rest) ELSE rest]
  BY DEF SkipStep
<1> HIDE DEF rest
<1>4. Replay(rest) \in ExecutorRecord /\ Replay(rest).pc = "await"
  <2>1. [rest EXCEPT !.bound = TRUE] \in ExecutorRecord
    BY <1>2 DEF ExecutorRecord
  <2>2. Checkpoint(rest, "preparing", {}, 0) \in Request
    BY <1>2, CheckpointType DEF Statuses
  <2>3. QED
    BY <2>1, <2>2, SendType DEF Replay, Continuations
<1>5. ex' \in [Executors -> ExecutorRecord] /\ StepPending'
  BY <1>2, <1>3, <1>4, ExecutorType
<1>6. QED
  BY <1>5, LocalType DEF SkipStep, TypeInv, TypeOK

LEMMA StartStepType ==
    ASSUME TypeInv, NEW e \in Executors, StartStep(e)
    PROVE  TypeInv'
<1> DEFINE y == Send(ex[e], Checkpoint(ex[e], "activating", {}, 0), "capture")
           z == [ex[e] EXCEPT !.pc = "step"]
<1>1. ex[e] \in ExecutorRecord /\ ex[e].todo # {}
  BY DEF StartStep, TypeInv, TypeOK
<1>2. y \in ExecutorRecord /\ y.pc = "await"
  BY <1>1, CheckpointType, SendType DEF Statuses, Continuations
<1>3. z \in ExecutorRecord /\ z.todo # {}
  BY <1>1 DEF ExecutorRecord, PCs
<1>4. ex' = [ex EXCEPT ![e] = IF NextStep(ex[e]) = Finalize THEN y ELSE z]
  BY DEF StartStep
<1> HIDE DEF y, z
<1>5. ex' \in [Executors -> ExecutorRecord] /\ StepPending'
  BY <1>2, <1>3, <1>4, ExecutorType
<1>6. QED
  BY <1>5, LocalType DEF StartStep, TypeInv, TypeOK

LEMMA StepDoneType ==
    ASSUME NEW x \in ExecutorRecord, NEW s \in Steps
    PROVE  StepDone(x, s) \in ExecutorRecord /\ StepDone(x, s).pc = "await"
<1>1. [x EXCEPT !.todo = @ \ {s}, !.bound = (s = Ensure) \/ @] \in ExecutorRecord
  BY DEF ExecutorRecord
<1>2. Checkpoint(x, "same", {s}, 0) \in Request
  BY CheckpointType
<1>3. QED
  BY <1>1, <1>2, SendType DEF StepDone, Continuations

LEMMA RunStepType ==
    ASSUME TypeInv, NEW e \in Executors, RunStep(e)
    PROVE  TypeInv'
<1> DEFINE x == ex[e]
           s == NextStep(x)
<1>1. x \in ExecutorRecord /\ x.pc = "step" /\ x.todo # {}
  BY DEF RunStep, TypeInv, TypeOK, StepPending
<1>2. s \in Steps
  BY <1>1, NextStepType DEF ExecutorRecord
<1> HIDE DEF s
<1>3. StepDone(x, s) \in ExecutorRecord /\ StepDone(x, s).pc = "await"
  BY <1>1, <1>2, StepDoneType
<1>4. StepFailed(x, s) \in ExecutorRecord /\ StepFailed(x, s).pc = "failing"
  BY <1>1 DEF StepFailed, ExecutorRecord, PCs
<1>5. ex' = [ex EXCEPT ![e] = StepDone(x, s)] \/ ex' = [ex EXCEPT ![e] = StepFailed(x, s)]
  BY DEF RunStep, s
<1>6. ex' \in [Executors -> ExecutorRecord] /\ StepPending'
  BY <1>3, <1>4, <1>5, ExecutorType
<1>7. effects' \in [Runs -> SUBSET Layers] /\ live' \in [Layers -> Children]
  <2>1. <<x.run, x.act.attempt>> \in Children /\ x.run \in Runs
    BY <1>1 DEF ExecutorRecord, RunRecord, Children
  <2>2. QED
    BY <2>1 DEF RunStep, TypeInv, TypeOK
<1>8. QED
  BY <1>6, <1>7 DEF RunStep, TypeInv, TypeOK

LEMMA CaptureAppType ==
    ASSUME TypeInv, NEW e \in Executors, CaptureApp(e)
    PROVE  TypeInv'
<1> DEFINE x == ex[e]
           answers == { [x EXCEPT !.pc = "failing"],
                        [x EXCEPT !.pc = "activate", !.parent = head] }
<1>1. x \in ExecutorRecord /\ head \in Nat
  BY DEF TypeInv, TypeOK
<1>2. PICK y \in answers : ex' = [ex EXCEPT ![e] = y]
  BY DEF CaptureApp
<1>3. y \in ExecutorRecord /\ y.pc # "step"
  BY <1>1, <1>2 DEF ExecutorRecord, PCs
<1>4. ex' \in [Executors -> ExecutorRecord] /\ StepPending'
  BY <1>2, <1>3, ExecutorType
<1>5. QED
  BY <1>4, LocalType DEF CaptureApp, TypeInv, TypeOK

LEMMA StagedChildrenType ==
    ASSUME NEW x
    PROVE  StagedChildren(x) \in SUBSET Layers
BY DEF StagedChildren, StagedLayers

LEMMA ActivateAppType ==
    ASSUME TypeInv, NEW e \in Executors, ActivateApp(e)
    PROVE  TypeInv'
<1> DEFINE x == ex[e]
           n == Len(releases) + 1
           root == [run |-> x.run, children |-> StagedChildren(x), plan |-> x.plan]
           y == Send([x EXCEPT !.todo = @ \ {Finalize}, !.own = n],
                     Checkpoint(x, "same", {Finalize}, n), "loop")
           z == [x EXCEPT !.pc = "failing"]
<1>1. x \in ExecutorRecord /\ n \in Nat
  BY DEF TypeInv, TypeOK
<1> HIDE DEF n
<1>2. y \in ExecutorRecord /\ y.pc = "await"
  <2>1. [x EXCEPT !.todo = @ \ {Finalize}, !.own = n] \in ExecutorRecord
    BY <1>1 DEF ExecutorRecord
  <2>2. Checkpoint(x, "same", {Finalize}, n) \in Request
    BY <1>1, StepsInNat, CheckpointType
  <2>3. QED
    BY <2>1, <2>2, SendType DEF Continuations
<1>3. z \in ExecutorRecord /\ z.pc = "failing"
  BY <1>1 DEF ExecutorRecord, PCs
<1>4. ex' = [ex EXCEPT ![e] = y] \/ ex' = [ex EXCEPT ![e] = z]
  BY DEF ActivateApp, n
<1> HIDE DEF y, z
<1>5. ex' \in [Executors -> ExecutorRecord] /\ StepPending'
  BY <1>2, <1>3, <1>4, ExecutorType
<1>6. root \in [run : Runs, children : SUBSET Layers, plan : SUBSET Layers]
  BY <1>1, StagedChildrenType DEF ExecutorRecord
<1>7. \A l \in Layers : x.act.child[l] \in Nat
  BY <1>1 DEF ExecutorRecord, RunRecord
<1>8. live' \in [Layers -> Children]
  <2>1. x.run \in Runs \cup {Base}
    BY <1>1 DEF ExecutorRecord
  <2>2. \A l \in Layers : <<x.run, x.act.child[l]>> \in Children
    BY <1>7, <2>1 DEF Children
  <2> HIDE DEF x
  <2>3. \/ live' = [l \in Layers |-> IF l \in StagedChildren(x)
                                    THEN <<x.run, x.act.child[l]>> ELSE live[l]]
        \/ live' = live
    BY DEF ActivateApp, x
  <2>4. QED
    BY <2>2, <2>3 DEF TypeInv, TypeOK
<1>9. releases' \in Seq([run : Runs, children : SUBSET Layers, plan : SUBSET Layers])
      /\ head' \in Nat
  <2> DEFINE Roots == [run : Runs, children : SUBSET Layers, plan : SUBSET Layers]
  <2>0. releases \in Seq(Roots) /\ head \in Nat /\ root \in Roots
    BY <1>6 DEF TypeInv, TypeOK
  <2> HIDE DEF root, Roots
  <2>1. \/ releases' = Append(releases, root) /\ head' = n
        \/ UNCHANGED <<releases, head>>
    BY DEF ActivateApp, root, n
  <2>2. releases' \in Seq(Roots) /\ head' \in Nat
    BY <2>0, <2>1, <1>1
  <2>3. QED
    BY <2>2 DEF Roots
<1>10. QED
  BY <1>5, <1>8, <1>9 DEF ActivateApp, TypeInv, TypeOK

LEMMA FinishStepsType ==
    ASSUME TypeInv, NEW e \in Executors, FinishSteps(e)
    PROVE  TypeInv'
<1> DEFINE x == ex[e]
           answers == { [x EXCEPT !.pc = "verify"],
                        Send(x, Checkpoint(x, "verifying", {}, 0), "verify"),
                        Send(x, Checkpoint(x, "activating", {}, 0), "loop") }
<1>1. x \in ExecutorRecord
  BY DEF TypeInv, TypeOK
<1>2. PICK y \in answers : ex' = [ex EXCEPT ![e] = y]
  <2>1. \/ ex' = [ex EXCEPT ![e] = [x EXCEPT !.pc = "verify"]]
        \/ ex' = [ex EXCEPT ![e] = Send(x, Checkpoint(x, "verifying", {}, 0), "verify")]
        \/ ex' = [ex EXCEPT ![e] = Send(x, Checkpoint(x, "activating", {}, 0), "loop")]
    BY DEF FinishSteps
  <2>2. QED
    BY <2>1
<1>3. y \in ExecutorRecord /\ y.pc # "step"
  <2> DEFINE v == [x EXCEPT !.pc = "verify"]
  <2>1. v \in ExecutorRecord /\ v.pc = "verify"
    BY <1>1 DEF ExecutorRecord, PCs
  <2>2. \A status \in {"verifying", "activating"} :
            Checkpoint(x, status, {}, 0) \in Request
    BY <1>1, CheckpointType DEF Statuses
  <2>3. /\ Send(x, Checkpoint(x, "verifying", {}, 0), "verify") \in ExecutorRecord
        /\ Send(x, Checkpoint(x, "verifying", {}, 0), "verify").pc = "await"
    BY <1>1, <2>2, SendType DEF Continuations
  <2>4. /\ Send(x, Checkpoint(x, "activating", {}, 0), "loop") \in ExecutorRecord
        /\ Send(x, Checkpoint(x, "activating", {}, 0), "loop").pc = "await"
    BY <1>1, <2>2, SendType DEF Continuations
  <2>5. \/ y = v
        \/ y = Send(x, Checkpoint(x, "verifying", {}, 0), "verify")
        \/ y = Send(x, Checkpoint(x, "activating", {}, 0), "loop")
    BY <1>2
  <2> HIDE DEF v, answers
  <2>6. QED
    BY <2>1, <2>3, <2>4, <2>5
<1>4. ex' \in [Executors -> ExecutorRecord] /\ StepPending'
  BY <1>2, <1>3, ExecutorType
<1>5. QED
  BY <1>4, LocalType DEF FinishSteps, TypeInv, TypeOK

LEMMA VerifyActivationType ==
    ASSUME TypeInv, NEW e \in Executors, VerifyActivation(e)
    PROVE  TypeInv'
<1> DEFINE x == ex[e]
           rel == IF head # 0 THEN head ELSE ExpectedRelease(x)
           y == Send(x, Checkpoint(x, "succeeded", {}, rel), "returned")
           z == [x EXCEPT !.pc = "failing"]
<1>1. x \in ExecutorRecord /\ rel \in Nat
  BY DEF TypeInv, TypeOK, ExecutorRecord, ExpectedRelease
<1>2. ex' = [ex EXCEPT ![e] = y] \/ ex' = [ex EXCEPT ![e] = z]
  BY DEF VerifyActivation
<1> HIDE DEF rel
<1>3. y \in ExecutorRecord /\ y.pc = "await"
  BY <1>1, CheckpointType, SendType DEF Statuses, Continuations
<1>4. z \in ExecutorRecord /\ z.pc = "failing"
  BY <1>1 DEF ExecutorRecord, PCs
<1> HIDE DEF y, z
<1>5. ex' \in [Executors -> ExecutorRecord] /\ StepPending'
  BY <1>2, <1>3, <1>4, ExecutorType
<1>6. QED
  BY <1>5, LocalType DEF VerifyActivation, TypeInv, TypeOK

LEMMA ThrowType ==
    ASSUME TypeInv, NEW e \in Executors, Throw(e)
    PROVE  TypeInv'
<1> DEFINE y == [ex[e] EXCEPT !.pc = "failing"]
<1>1. y \in ExecutorRecord /\ y.pc = "failing" /\ ex' = [ex EXCEPT ![e] = y]
  BY DEF Throw, TypeInv, TypeOK, ExecutorRecord, PCs
<1>2. ex' \in [Executors -> ExecutorRecord] /\ StepPending'
  BY <1>1, ExecutorType
<1>3. QED
  BY <1>2, LocalType DEF Throw, TypeInv, TypeOK

LEMMA ReportFailureType ==
    ASSUME TypeInv, NEW e \in Executors, ReportFailure(e)
    PROVE  TypeInv'
<1> DEFINE m == FailRequest(ex[e])
<1>1. m \in Request
  BY DEF FailRequest, Request, Statuses, TypeInv, TypeOK, ExecutorRecord, RunRecord
<1> HIDE DEF m
<1>2. ex' \in [Executors -> ExecutorRecord] /\ StepPending'
  BY IdleType, ExecutorType DEF ReportFailure, Idle
<1>3. run' \in [Runs -> RunRecord] /\ lease' \in Children
  BY <1>1, AcceptType DEF ReportFailure, TypeInv, TypeOK, m
<1>4. late' \in SUBSET Request /\ faults' \in Nat
  BY <1>1 DEF ReportFailure, TypeInv, TypeOK, m
<1>5. QED
  BY <1>2, <1>3, <1>4 DEF ReportFailure, TypeInv, TypeOK

LEMMA StopType ==
    ASSUME TypeInv, NEW e \in Executors, Crash(e) \/ Return(e)
    PROVE  TypeInv'
<1>1. ex' \in [Executors -> ExecutorRecord] /\ StepPending'
  BY IdleType, ExecutorType DEF Crash, Return, Idle
<1>2. QED
  BY <1>1, LocalType DEF Crash, Return, TypeInv, TypeOK

LEMMA LeaseExpiresType ==
    ASSUME TypeInv, LeaseExpires
    PROVE  TypeInv'
<1>1. NoLease \in Children
  BY DEF NoLease, Children
<1>2. QED
  BY <1>1 DEF LeaseExpires, TypeInv, TypeOK, StepPending

LEMMA NextType == TypeInv /\ [Next]_vars => TypeInv'
<1> SUFFICES ASSUME TypeInv, [Next]_vars PROVE TypeInv'
  OBVIOUS
<1>1. ASSUME NEW e \in Executors, Command(e) PROVE TypeInv'
  BY <1>1, DeployType, RollbackType, RetryType DEF Command
<1>2. ASSUME NEW e \in Executors, Progress(e) PROVE TypeInv'
  BY <1>2, CreateRunType, RequestRunRetryType, ReadPreviousType, BeginType, RespondType,
     SkipStepType, StartStepType, RunStepType, CaptureAppType, ActivateAppType,
     FinishStepsType, VerifyActivationType, ReportFailureType, StopType DEF Progress
<1>3. ASSUME NEW e \in Executors, Fault(e) PROVE TypeInv'
  BY <1>3, AnswerLostType, ResendType, ThrowType, StopType DEF Fault
<1>4. CASE UNCHANGED vars
  BY <1>4 DEF vars, TypeInv, TypeOK, StepPending
<1>5. QED
  BY <1>1, <1>2, <1>3, <1>4, DeliverLateType, LeaseExpiresType DEF Next

(* Every reachable state has well-formed runs, requests and executors; in   *)
(* particular no process is inside a step that it does not have.            *)
THEOREM TypeCorrect == Spec => []TypeOK
<1>1. TypeInv => TypeOK
  BY DEF TypeInv
<1>2. QED
  BY <1>1, InitType, NextType, PTL DEF Spec

-----------------------------------------------------------------------------
(* The fence, the checkpoints and the outcome of commands.                  *)

(* Requests carry an attempt, and the steps that they report took effect.   *)
Sound(m) ==
    /\ m.att # 0
    /\ m.by = m.att
    /\ m.step \cap Layers \subseteq effects[m.run]

AttemptsRecorded ==
    \A r \in Runs : run[r].status # "absent" => run[r].attempt # 0

AttemptsKnown == \A e \in Executors : ex[e].pc \notin {"idle", "create"} => ex[e].act.attempt # 0

RequestsSound ==
    /\ \A m \in late : Sound(m)
    /\ \A e \in Executors : ex[e].pc = "await" => Sound(ex[e].req)

(* Only the answer to a report of success, or the run itself, ends a        *)
(* command with success.                                                    *)
OutcomeSound ==
    \A e \in Executors :
        /\ ex[e].pc = "retry" => ex[e].next # "returned"
        /\ ex[e].pc = "await" /\ ex[e].next = "returned"
           => ex[e].req.status = "succeeded" /\ ex[e].req.run = ex[e].run

RunInv ==
    /\ TypeInv
    /\ AttemptsRecorded
    /\ OnlyCurrentAttemptWrites
    /\ DoneBacked
    /\ AttemptsKnown
    /\ RequestsSound
    /\ OutcomeSound
    /\ ReturnedRunSucceeded

LEMMA InitRunInv == Init => RunInv
<1> SUFFICES ASSUME Init PROVE RunInv
  OBVIOUS
<1>1. TypeInv
  BY InitType
<1>2. \A r \in Runs : run[r].status = "absent" /\ run[r].done = {}
  BY DEF Init, AbsentRun
<1>3. \A e \in Executors : ex[e].pc = "idle"
  BY DEF Init, Idle
<1>4. late = {}
  BY DEF Init
<1>5. QED
  BY <1>1, <1>2, <1>3, <1>4 DEF RunInv, AttemptsRecorded, OnlyCurrentAttemptWrites,
     DoneBacked, AttemptsKnown, RequestsSound, OutcomeSound, ReturnedRunSucceeded

(* A request that the platform accepts finds a run that exists, changes it  *)
(* in the current attempt and leaves a succeeded run as it is.              *)
LEMMA AcceptSound ==
    ASSUME RunInv, NEW m \in Request, Sound(m), CanRecord(run[m.run], m), Accept(m),
           UNCHANGED effects
    PROVE  /\ AttemptsRecorded'
           /\ OnlyCurrentAttemptWrites'
           /\ DoneBacked'
           /\ run'[m.run].attempt # 0
           /\ m.status = "succeeded" => run'[m.run].status = "succeeded"
           /\ \A r \in Runs : run[r].status = "succeeded" => run'[r].status = "succeeded"
<1> DEFINE r == m.run
           rec == run[m.run]
<1>1. r \in Runs /\ rec \in RunRecord /\ run \in [Runs -> RunRecord]
  BY DEF RunInv, TypeInv, TypeOK, Request
<1>2. rec.status # "absent" /\ rec.attempt # 0 /\ m.by = rec.attempt
  <2>1. rec.status # "absent"
    BY DEF CanRecord, Transitions, Executing
  <2>2. QED
    BY <1>1, <2>1 DEF CanRecord, Fence, Sound, RunInv, AttemptsRecorded
<1>3. run' = [run EXCEPT ![r] = Record(rec, m)]
  BY DEF Accept
<1>4. /\ Record(rec, m).attempt = rec.attempt
      /\ Record(rec, m).writer = rec.attempt
      /\ Record(rec, m).done \subseteq rec.done \cup m.step
  BY <1>1, <1>2 DEF Record, RunRecord, RunInv, OnlyCurrentAttemptWrites
<1>5. /\ m.status = "succeeded" => Record(rec, m).status = "succeeded"
      /\ rec.status = "succeeded" => Record(rec, m).status = "succeeded"
  BY <1>1 DEF Record, RunRecord
<1> HIDE DEF r, rec
<1>6. AttemptsRecorded' /\ OnlyCurrentAttemptWrites'
  BY <1>1, <1>2, <1>3, <1>4 DEF RunInv, AttemptsRecorded, OnlyCurrentAttemptWrites
<1>7. DoneBacked'
  <2>1. rec.done \cap Layers \subseteq effects[r] /\ m.step \cap Layers \subseteq effects[r]
    BY <1>1 DEF RunInv, DoneBacked, Sound, r, rec
  <2>2. QED
    BY <1>1, <1>3, <1>4, <2>1 DEF RunInv, DoneBacked
<1>8. QED
  BY <1>1, <1>2, <1>3, <1>4, <1>5, <1>6, <1>7 DEF r, rec

(* What an executor that works on its own may become: the run that it knows *)
(* stays, and a request that it sends is one about steps that took effect.  *)
LocalChange(x, y) ==
    /\ y.act = x.act
    /\ y.run = x.run
    /\ y.pc \notin {"idle", "create", "retry", "returned"}
    /\ y.pc = "await" =>
         /\ y.req.run = x.run
         /\ y.req.att = x.act.attempt
         /\ y.req.by = x.act.attempt
         /\ y.req.step \cap Layers \subseteq effects'[x.run]
         /\ y.next = "returned" => y.req.status = "succeeded"

LEMMA LocalChangeSafe ==
    ASSUME RunInv, TypeInv', NEW e \in Executors, NEW y,
           ex[e].pc \notin {"idle", "create"},
           LocalChange(ex[e], y), ex' = [ex EXCEPT ![e] = y],
           UNCHANGED <<run, late>>,
           \A r \in Runs : effects[r] \subseteq effects'[r]
    PROVE  RunInv'
<1>1. ex \in [Executors -> ExecutorRecord] /\ late \subseteq Request
      /\ \A m \in Request : m.run \in Runs
  BY DEF RunInv, TypeInv, TypeOK, Request
<1>2. ex'[e] = y /\ \A f \in Executors : f # e => ex'[f] = ex[f]
  BY <1>1
<1>3. ex[e].act.attempt # 0
  BY DEF RunInv, AttemptsKnown
<1>4. AttemptsRecorded' /\ OnlyCurrentAttemptWrites' /\ DoneBacked'
  BY DEF RunInv, AttemptsRecorded, OnlyCurrentAttemptWrites, DoneBacked
<1>5. AttemptsKnown'
  BY <1>2, <1>3 DEF LocalChange, RunInv, AttemptsKnown
<1>6. RequestsSound'
  <2>1. ASSUME NEW m \in Request, Sound(m) PROVE Sound(m)'
    BY <1>1, <2>1 DEF Sound
  <2>2. \A m \in late' : Sound(m)'
    BY <1>1, <2>1 DEF RunInv, RequestsSound
  <2>3. ASSUME NEW f \in Executors, f # e, ex'[f].pc = "await" PROVE Sound(ex[f].req)'
    <3>1. ex[f].req \in Request /\ Sound(ex[f].req) /\ ex'[f] = ex[f]
      BY <1>1, <1>2, <2>3 DEF RunInv, RequestsSound, ExecutorRecord
    <3>2. QED
      BY <1>1, <3>1 DEF Sound
  <2>4. y.pc = "await" => Sound(ex[e].req)'
    BY <1>2, <1>3 DEF LocalChange, Sound
  <2>5. QED
    BY <1>2, <2>2, <2>3, <2>4 DEF RequestsSound
<1>7. OutcomeSound'
  BY <1>2 DEF LocalChange, RunInv, OutcomeSound
<1>8. ReturnedRunSucceeded'
  BY <1>2 DEF LocalChange, RunInv, ReturnedRunSucceeded
<1>9. QED
  BY <1>4, <1>5, <1>6, <1>7, <1>8 DEF RunInv

LEMMA LocalSteps ==
    ASSUME RunInv, NEW e \in Executors,
           \/ Begin(e) \/ SkipStep(e) \/ StartStep(e) \/ CaptureApp(e) \/ FinishSteps(e)
           \/ VerifyActivation(e) \/ Throw(e)
    PROVE  /\ \E y : LocalChange(ex[e], y) /\ ex' = [ex EXCEPT ![e] = y]
           /\ ex[e].pc \notin {"idle", "create"}
           /\ UNCHANGED <<run, late, effects>>
<1>1. ex[e] \in ExecutorRecord
  BY DEF RunInv, TypeInv, TypeOK
<1>2. \A x \in ExecutorRecord, status \in {"preparing", "activating", "verifying"},
         n \in {"loop", "capture", "verify"} :
        /\ x.act = ex[e].act /\ x.run = ex[e].run
        => LocalChange(ex[e], Send(x, Checkpoint(x, status, {}, 0), n))
  BY DEF LocalChange, Send, Checkpoint, ExecutorRecord
<1>3. CASE Begin(e)
  <2> DEFINE targets == ReleaseTargets(ex[e].act.pkg, ex[e].prev, ex[e].force)
             x == [ex[e] EXCEPT !.plan = targets, !.todo = StepsOf(targets)]
  <2>1. x \in ExecutorRecord /\ x.act = ex[e].act /\ x.run = ex[e].run
    <3>1. targets \in SUBSET Layers /\ StepsOf(targets) \in SUBSET Steps
      BY PlanType
    <3> HIDE DEF targets
    <3>2. QED
      BY <1>1, <3>1 DEF ExecutorRecord
  <2>2. ex' = [ex EXCEPT ![e] = Send(x, Checkpoint(x, "preparing", {}, 0), "loop")]
    BY <1>3 DEF Begin
  <2> HIDE DEF x
  <2>3. QED
    BY <1>2, <1>3, <2>1, <2>2 DEF Begin, platform
<1>4. CASE SkipStep(e)
  <2> DEFINE rest == [ex[e] EXCEPT !.todo = @ \ {NextStep(ex[e])}]
             x == [rest EXCEPT !.bound = TRUE]
  <2>1. /\ rest.act = ex[e].act /\ rest.run = ex[e].run /\ rest.pc = "loop"
        /\ x \in ExecutorRecord /\ x.act = ex[e].act /\ x.run = ex[e].run
        /\ x.pc = "loop"
    BY <1>1, <1>4 DEF ExecutorRecord, SkipStep
  <2>2. LocalChange(ex[e], rest)
    BY <2>1 DEF LocalChange
  <2>3. LocalChange(ex[e], Replay(rest))
    <3>1. Replay(rest) = Send(x, Checkpoint(x, "preparing", {}, 0), "loop")
      BY <1>1 DEF Replay, Checkpoint, ExecutorRecord
    <3> HIDE DEF x
    <3>2. QED
      BY <1>2, <2>1, <3>1
  <2>4. ex' = [ex EXCEPT ![e] = IF NextStep(ex[e]) = Ensure THEN Replay(rest) ELSE rest]
    BY <1>4 DEF SkipStep
  <2> HIDE DEF rest
  <2>5. QED
    BY <1>4, <2>2, <2>3, <2>4 DEF SkipStep, platform
<1>5. CASE StartStep(e)
  <2>1. LocalChange(ex[e], Send(ex[e], Checkpoint(ex[e], "activating", {}, 0), "capture"))
    BY <1>1, <1>2
  <2>2. LocalChange(ex[e], [ex[e] EXCEPT !.pc = "step"])
    BY <1>1 DEF LocalChange, ExecutorRecord
  <2>3. QED
    BY <1>5, <2>1, <2>2 DEF StartStep, platform
<1>6. CASE CaptureApp(e)
  <2>1. /\ LocalChange(ex[e], [ex[e] EXCEPT !.pc = "failing"])
        /\ LocalChange(ex[e], [ex[e] EXCEPT !.pc = "activate", !.parent = head])
    BY <1>1 DEF LocalChange, ExecutorRecord
  <2>2. QED
    BY <1>6, <2>1 DEF CaptureApp, platform
<1>7. CASE FinishSteps(e)
  <2>1. LocalChange(ex[e], [ex[e] EXCEPT !.pc = "verify"])
    BY <1>1 DEF LocalChange, ExecutorRecord
  <2>2. /\ LocalChange(ex[e], Send(ex[e], Checkpoint(ex[e], "verifying", {}, 0), "verify"))
        /\ LocalChange(ex[e], Send(ex[e], Checkpoint(ex[e], "activating", {}, 0), "loop"))
    BY <1>1, <1>2
  <2>3. QED
    BY <1>7, <2>1, <2>2 DEF FinishSteps, platform
<1>8. CASE VerifyActivation(e)
  <2>1. \A rel : LocalChange(ex[e], Send(ex[e], Checkpoint(ex[e], "succeeded", {}, rel), "returned"))
    BY <1>1 DEF LocalChange, Send, Checkpoint, ExecutorRecord
  <2>2. LocalChange(ex[e], [ex[e] EXCEPT !.pc = "failing"])
    BY <1>1 DEF LocalChange, ExecutorRecord
  <2>3. QED
    BY <1>8, <2>1, <2>2 DEF VerifyActivation, platform
<1>9. CASE Throw(e)
  <2>1. LocalChange(ex[e], [ex[e] EXCEPT !.pc = "failing"])
    BY <1>1 DEF LocalChange, ExecutorRecord
  <2>2. QED
    BY <1>9, <2>1 DEF Throw, platform
<1>10. QED
  BY <1>3, <1>4, <1>5, <1>6, <1>7, <1>8, <1>9

LEMMA RunStepSafe ==
    ASSUME RunInv, TypeInv', NEW e \in Executors, RunStep(e)
    PROVE  RunInv'
<1> DEFINE x == ex[e]
           s == NextStep(x)
<1>1. x \in ExecutorRecord /\ x.run \in Runs /\ x.pc = "step" /\ x.todo # {}
  BY DEF RunStep, RunInv, TypeInv, TypeOK, StepPending, ExecutorRecord
<1>2. effects \in [Runs -> SUBSET Layers] /\ UNCHANGED <<run, late>>
  BY DEF RunStep, RunInv, TypeInv, TypeOK
<1>3. CASE HoldsLease(x)
  <2>1. effects' = [effects EXCEPT ![x.run] = @ \cup ({s} \cap Layers)]
        /\ ex' = [ex EXCEPT ![e] = StepDone(x, s)]
    BY <1>3 DEF RunStep
  <2> HIDE DEF s
  <2>2. {s} \cap Layers \subseteq effects'[x.run] /\ \A r \in Runs : effects[r] \subseteq effects'[r]
    BY <1>1, <1>2, <2>1
  <2>3. LocalChange(x, StepDone(x, s))
    BY <1>1, <2>2 DEF LocalChange, StepDone, Send, Checkpoint, ExecutorRecord
  <2>4. QED
    BY <1>1, <1>2, <2>1, <2>2, <2>3, LocalChangeSafe
<1>4. CASE ~HoldsLease(x)
  <2>1. ex' = [ex EXCEPT ![e] = StepFailed(x, s)] /\ effects' = effects
    BY <1>4 DEF RunStep
  <2>2. LocalChange(x, StepFailed(x, s))
    BY <1>1 DEF LocalChange, StepFailed, ExecutorRecord
  <2>3. QED
    BY <1>1, <1>2, <2>1, <2>2, LocalChangeSafe
<1>5. QED
  BY <1>3, <1>4

LEMMA ActivateAppSafe ==
    ASSUME RunInv, TypeInv', NEW e \in Executors, ActivateApp(e)
    PROVE  RunInv'
<1> DEFINE x == ex[e]
           n == Len(releases) + 1
           w == [x EXCEPT !.todo = @ \ {Finalize}, !.own = n]
           y == Send(w, Checkpoint(x, "same", {Finalize}, n), "loop")
           z == [x EXCEPT !.pc = "failing"]
<1>1. x \in ExecutorRecord /\ x.run \in Runs /\ x.pc = "activate"
  BY DEF ActivateApp, RunInv, TypeInv, TypeOK, ExecutorRecord
<1>2. UNCHANGED <<run, late, effects>>
  BY DEF ActivateApp
<1>3. Finalize \notin Layers
  BY ConstantsAssumption DEF Finalize, Layers
<1>4. w \in [DOMAIN x -> {w[f] : f \in DOMAIN x}] /\ w.act = x.act /\ w.run = x.run
  BY <1>1 DEF ExecutorRecord
<1> HIDE DEF n
<1>5. LocalChange(x, y)
  BY <1>1, <1>3 DEF LocalChange, Send, Checkpoint, ExecutorRecord
<1>6. LocalChange(x, z)
  BY <1>1 DEF LocalChange, ExecutorRecord
<1>7. ex' = [ex EXCEPT ![e] = y] \/ ex' = [ex EXCEPT ![e] = z]
  BY DEF ActivateApp, n
<1> HIDE DEF y, z
<1>8. QED
  BY <1>1, <1>2, <1>5, <1>6, <1>7, LocalChangeSafe

(* Actions in which the platform answers, or a command begins or ends.      *)

LEMMA StartSafe ==
    ASSUME RunInv, TypeInv', NEW e \in Executors, NEW y \in ExecutorRecord,
           ex' = [ex EXCEPT ![e] = y],
           \/ y.pc \in {"idle", "create"}
           \/ /\ y.pc \in {"retry", "begin"}
              /\ y.pc = "retry" => y.next # "returned"
              /\ y.act.attempt # 0
           \/ /\ y.pc = "returned"
              /\ y.act.attempt # 0
              /\ run[y.run].status = "succeeded",
           UNCHANGED <<run, late, effects>>
    PROVE  RunInv'
<1>1. ex \in [Executors -> ExecutorRecord]
  BY DEF RunInv, TypeInv, TypeOK
<1>2. ex'[e] = y /\ \A f \in Executors : f # e => ex'[f] = ex[f]
  BY <1>1
<1>3. AttemptsRecorded' /\ OnlyCurrentAttemptWrites' /\ DoneBacked'
  BY DEF RunInv, AttemptsRecorded, OnlyCurrentAttemptWrites, DoneBacked
<1>4. AttemptsKnown'
  BY <1>2 DEF RunInv, AttemptsKnown
<1>5. RequestsSound'
  BY <1>2 DEF RunInv, RequestsSound, Sound
<1>6. OutcomeSound'
  BY <1>2 DEF RunInv, OutcomeSound
<1>7. ReturnedRunSucceeded'
  BY <1>2 DEF RunInv, ReturnedRunSucceeded
<1>8. QED
  BY <1>3, <1>4, <1>5, <1>6, <1>7 DEF RunInv

LEMMA CommandSafe ==
    ASSUME RunInv, TypeInv', NEW e \in Executors, Command(e)
    PROVE  RunInv'
<1>1. UNCHANGED <<run, late, effects>> /\ ex \in [Executors -> ExecutorRecord]
      /\ ex' \in [Executors -> ExecutorRecord]
  BY DEF Command, Deploy, Rollback, Retry, platform, RunInv, TypeInv, TypeOK
<1>2. ASSUME NEW y, ex' = [ex EXCEPT ![e] = y] PROVE y \in ExecutorRecord
  <2>1. ex'[e] = y
    BY <1>1, <1>2
  <2>2. QED
    BY <1>1, <2>1
<1>3. ASSUME NEW r \in Runs, Retry(e, r) PROVE RunInv'
  <2> DEFINE y == [Idle EXCEPT !.run = r, !.act = run[r],
                               !.pc = IF run[r].status = "succeeded" THEN "returned"
                                      ELSE "retry",
                               !.next = "previous"]
  <2>1. ex' = [ex EXCEPT ![e] = y] /\ run[r].status # "absent"
    BY <1>3 DEF Retry
  <2>2. run[r].attempt # 0
    BY <2>1 DEF RunInv, AttemptsRecorded
  <2>3. /\ y.act = run[r] /\ y.run = r /\ y.next = "previous"
        /\ y.pc = IF run[r].status = "succeeded" THEN "returned" ELSE "retry"
    BY DEF Idle
  <2>4. y \in ExecutorRecord
    BY <1>2, <2>1
  <2> HIDE DEF y
  <2>5. QED
    BY <1>1, <2>1, <2>2, <2>3, <2>4, StartSafe
<1>4. ASSUME NEW p \in Packages, Deploy(e, p) PROVE RunInv'
  <2> DEFINE y == [Idle EXCEPT !.pc = "create", !.run = p, !.act = AbsentRun(p),
                               !.prev = LatestSuccessfulRun({})]
  <2>1. ex' = [ex EXCEPT ![e] = y]
    BY <1>4 DEF Deploy
  <2>2. y.pc = "create"
    BY DEF Idle
  <2> HIDE DEF y
  <2>3. QED
    BY <1>1, <1>2, <2>1, <2>2, StartSafe
<1>5. ASSUME NEW r \in Rollbacks, NEW rel, Rollback(e, r, rel) PROVE RunInv'
  <2> DEFINE S == FindSuccessfulRunByRelease(rel)
             q == CHOOSE i \in S : \A j \in S : j <= i
             y == [Idle EXCEPT !.pc = "create", !.run = r,
                               !.act = AbsentRun(run[created[q]].pkg), !.force = TRUE]
  <2>1. ex' = [ex EXCEPT ![e] = y]
    BY <1>5 DEF Rollback
  <2>2. y.pc = "create"
    BY DEF Idle
  <2> HIDE DEF y
  <2>3. QED
    BY <1>1, <1>2, <2>1, <2>2, StartSafe
<1>6. QED
  BY <1>3, <1>4, <1>5 DEF Command

LEMMA StopSafe ==
    ASSUME RunInv, TypeInv', NEW e \in Executors, Crash(e) \/ Return(e)
    PROVE  RunInv'
<1>1. Idle.pc = "idle"
  BY DEF Idle
<1>2. QED
  BY <1>1, IdleType, StartSafe DEF Crash, Return, platform

LEMMA ReadPreviousSafe ==
    ASSUME RunInv, TypeInv', NEW e \in Executors, ReadPrevious(e)
    PROVE  RunInv'
<1> DEFINE y == [ex[e] EXCEPT !.prev = LatestSuccessfulRun({ex[e].run}), !.pc = "begin"]
<1>1. ex[e] \in ExecutorRecord /\ ex[e].pc = "previous"
  BY DEF ReadPrevious, RunInv, TypeInv, TypeOK
<1>2. LocalChange(ex[e], y)
  BY <1>1 DEF LocalChange, ExecutorRecord
<1>3. ex' = [ex EXCEPT ![e] = y] /\ UNCHANGED <<run, late, effects>>
  BY DEF ReadPrevious, platform
<1> HIDE DEF y
<1>4. QED
  BY <1>1, <1>2, <1>3, LocalChangeSafe

(* A run that the platform creates or reopens, and the executor that asked. *)
LEMMA OpenSafe ==
    ASSUME RunInv, TypeInv', NEW r \in Runs, NEW rec,
           run' = [run EXCEPT ![r] = rec],
           rec.attempt # 0, rec.writer = rec.attempt, rec.done \subseteq run[r].done,
           run[r].status # "succeeded",
           UNCHANGED <<late, effects>>,
           \A f \in Executors :
              \/ ex'[f] = ex[f]
              \/ /\ ex'[f].pc \in {"idle", "begin", "previous", "loop", "capture", "verify"}
                 /\ ex'[f].act = rec
    PROVE  RunInv'
<1>1. run \in [Runs -> RunRecord] /\ run'[r] = rec
      /\ \A q \in Runs : q # r => run'[q] = run[q]
  BY DEF RunInv, TypeInv, TypeOK
<1>2. AttemptsRecorded' /\ OnlyCurrentAttemptWrites'
  BY <1>1 DEF RunInv, AttemptsRecorded, OnlyCurrentAttemptWrites
<1>3. DoneBacked'
  <2>1. ASSUME NEW q \in Runs PROVE run'[q].done \cap Layers \subseteq effects'[q]
    <3>1. run[q].done \cap Layers \subseteq effects[q]
      BY DEF RunInv, DoneBacked
    <3>2. run'[q].done \subseteq run[q].done
      BY <1>1
    <3>3. QED
      BY <3>1, <3>2
  <2>2. QED
    BY <2>1 DEF DoneBacked
<1>4. AttemptsKnown'
  BY DEF RunInv, AttemptsKnown
<1>5. RequestsSound'
  BY DEF RunInv, RequestsSound, Sound
<1>6. OutcomeSound'
  BY DEF RunInv, OutcomeSound
<1>7. ReturnedRunSucceeded'
  <2>1. \A f \in Executors : ex'[f].pc = "returned" => ex'[f] = ex[f]
    OBVIOUS
  <2>2. \A q \in Runs : run[q].status = "succeeded" => run'[q].status = "succeeded"
    BY <1>1
  <2>3. \A f \in Executors : ex[f].run \in Runs
    BY DEF RunInv, TypeInv, TypeOK, ExecutorRecord
  <2>4. QED
    BY <2>1, <2>2, <2>3 DEF RunInv, ReturnedRunSucceeded
<1>8. QED
  BY <1>2, <1>3, <1>4, <1>5, <1>6, <1>7 DEF RunInv

LEMMA CreateRunSafe ==
    ASSUME RunInv, TypeInv', NEW e \in Executors, CreateRun(e)
    PROVE  RunInv'
<1> DEFINE r == ex[e].run
           opened == [AbsentRun(ex[e].act.pkg) EXCEPT
                         !.status = "packaged", !.attempt = 1, !.writer = 1]
<1>1. /\ ex[e] \in ExecutorRecord /\ r \in Runs /\ run[r] \in RunRecord
      /\ ex \in [Executors -> ExecutorRecord] /\ ex' \in [Executors -> ExecutorRecord]
      /\ UNCHANGED <<late, effects>>
  BY DEF CreateRun, RunInv, TypeInv, TypeOK, ExecutorRecord
<1>2. CASE /\ run[r].status = "absent"
           /\ run' = [run EXCEPT ![r] = opened]
           /\ ex' = [ex EXCEPT ![e] = [@ EXCEPT !.act = run'[r], !.pc = "begin"]]
  <2>1. opened.attempt = 1 /\ opened.writer = 1 /\ opened.done = {}
    BY DEF AbsentRun
  <2> HIDE DEF opened
  <2>2. run'[r] = opened
    BY <1>1, <1>2 DEF RunInv, TypeInv, TypeOK
  <2>3. /\ ex'[e].act = opened /\ ex'[e].pc = "begin"
        /\ \A f \in Executors : f # e => ex'[f] = ex[f]
    BY <1>1, <1>2, <2>2 DEF ExecutorRecord
  <2>4. \A f \in Executors :
           \/ ex'[f] = ex[f]
           \/ /\ ex'[f].pc \in {"idle", "begin", "previous", "loop", "capture", "verify"}
              /\ ex'[f].act = opened
    BY <2>3
  <2>5. opened.attempt # 0 /\ opened.writer = opened.attempt
        /\ opened.done \subseteq run[r].done /\ run[r].status # "succeeded"
    BY <1>2, <2>1
  <2>6. QED
    BY <1>1, <1>2, <2>4, <2>5, OpenSafe
<1>3. CASE /\ run[r].status = "succeeded"
           /\ UNCHANGED run
           /\ ex' = [ex EXCEPT ![e] = [@ EXCEPT !.act = run[r], !.pc = "returned"]]
  <2> DEFINE y == [ex[e] EXCEPT !.act = run[r], !.pc = "returned"]
  <2>1. ex' = [ex EXCEPT ![e] = y] /\ y \in ExecutorRecord
    BY <1>1, <1>3 DEF ExecutorRecord, PCs
  <2>2. y.pc = "returned" /\ y.act.attempt # 0 /\ y.run = r
    BY <1>1, <1>3 DEF ExecutorRecord, RunInv, AttemptsRecorded
  <2> HIDE DEF y
  <2>3. QED
    BY <1>1, <1>3, <2>1, <2>2, StartSafe
<1>4. CASE /\ run[r].status # "absent"
           /\ UNCHANGED run
           /\ ex' = [ex EXCEPT ![e] = [@ EXCEPT !.act = run[r], !.pc = "begin"]]
  <2> DEFINE y == [ex[e] EXCEPT !.act = run[r], !.pc = "begin"]
  <2>1. ex' = [ex EXCEPT ![e] = y]
    BY <1>4
  <2>2. y.act = run[r] /\ y.run = r /\ y.pc = "begin"
    BY <1>1 DEF ExecutorRecord
  <2> HIDE DEF y
  <2>3. run[r].attempt # 0 /\ y \in ExecutorRecord
    BY <1>1, <1>4, <2>1 DEF RunInv, AttemptsRecorded
  <2>4. QED
    BY <1>1, <1>4, <2>1, <2>2, <2>3, StartSafe
<1>5. CASE /\ run[r].status # "absent"
           /\ UNCHANGED run
           /\ ex' = [ex EXCEPT ![e] = [@ EXCEPT !.act = run[r], !.pc = "retry", !.next = "begin"]]
  <2> DEFINE y == [ex[e] EXCEPT !.act = run[r], !.pc = "retry", !.next = "begin"]
  <2>1. ex' = [ex EXCEPT ![e] = y] /\ y \in ExecutorRecord
    BY <1>1, <1>5 DEF ExecutorRecord, PCs, Continuations
  <2>2. y.pc = "retry" /\ y.next = "begin" /\ y.act.attempt # 0
    BY <1>1, <1>5 DEF ExecutorRecord, RunInv, AttemptsRecorded
  <2> HIDE DEF y
  <2>3. QED
    BY <1>1, <1>5, <2>1, <2>2, StartSafe
<1>6. CASE UNCHANGED run /\ ex' = [ex EXCEPT ![e] = Idle]
  <2>1. Idle \in ExecutorRecord /\ Idle.pc = "idle"
    BY IdleType DEF Idle
  <2>2. QED
    BY <1>1, <1>6, <2>1, StartSafe
<1>7. QED
  BY <1>2, <1>3, <1>4, <1>5, <1>6 DEF CreateRun

LEMMA RequestRunRetrySafe ==
    ASSUME RunInv, TypeInv', NEW e \in Executors, RequestRunRetry(e)
    PROVE  RunInv'
<1> DEFINE r == ex[e].run
           y == [ex[e] EXCEPT !.act = run'[r], !.pc = ex[e].next]
<1>1. /\ ex[e] \in ExecutorRecord /\ r \in Runs /\ run[r] \in RunRecord
      /\ ex \in [Executors -> ExecutorRecord] /\ run \in [Runs -> RunRecord]
      /\ UNCHANGED <<late, effects>>
      /\ ex[e].pc = "retry"
  BY DEF RequestRunRetry, RunInv, TypeInv, TypeOK, ExecutorRecord
<1>2. CASE CanRetry(e) /\ run' = [run EXCEPT ![r] = OpenAttempt(r)]
           /\ (ex' = [ex EXCEPT ![e] = y] \/ ex' = ex)
  <2> DEFINE rec == OpenAttempt(r)
  <2>1. rec.attempt = run[r].attempt + 1 /\ rec.writer = rec.attempt /\ rec.done = run[r].done
    BY <1>1 DEF OpenAttempt, RunRecord
  <2>2. rec.attempt # 0 /\ run[r].status # "succeeded"
    BY <1>1, <1>2, <2>1 DEF CanRetry, RunRecord
  <2>3. run'[r] = rec
    BY <1>1, <1>2
  <2> HIDE DEF rec
  <2>4. /\ y.act = rec
        /\ y.pc \in {"idle", "begin", "previous", "loop", "capture", "verify"}
    BY <1>1, <2>3 DEF ExecutorRecord, Continuations, RunInv, OutcomeSound
  <2>5. \A f \in Executors :
           \/ ex'[f] = ex[f]
           \/ /\ ex'[f].pc \in {"idle", "begin", "previous", "loop", "capture", "verify"}
              /\ ex'[f].act = rec
    <3> HIDE DEF y
    <3>1. QED
      BY <1>1, <1>2, <2>4
  <2>6. run' = [run EXCEPT ![r] = rec]
    BY <1>2 DEF rec
  <2>7. QED
    BY <1>1, <2>1, <2>2, <2>5, <2>6, OpenSafe
<1>3. CASE UNCHANGED run /\ ex' = [ex EXCEPT ![e] = Idle]
  <2>1. Idle \in ExecutorRecord /\ Idle.pc = "idle"
    BY IdleType DEF Idle
  <2>2. QED
    BY <1>1, <1>3, <2>1, StartSafe
<1>4. QED
  BY <1>2, <1>3 DEF RequestRunRetry

(* A request accepted in the name of an executor, or long after it.         *)
LEMMA AcceptedSafe ==
    ASSUME RunInv, TypeInv', NEW m \in Request, Sound(m), CanRecord(run[m.run], m), Accept(m),
           UNCHANGED effects,
           \A n \in late' : n \in late \/ n = m,
           \A f \in Executors :
              \/ ex'[f] = ex[f]
              \/ ex'[f].pc = "idle"
              \/ /\ ex[f].pc = "await" /\ m = ex[f].req
                 /\ ex'[f].pc = ex[f].next
                 /\ ex'[f].next = ex[f].next
                 /\ ex'[f].run = ex[f].run
                 /\ ex'[f].act = run'[m.run]
    PROVE  RunInv'
<1>1. /\ AttemptsRecorded' /\ OnlyCurrentAttemptWrites' /\ DoneBacked'
      /\ run'[m.run].attempt # 0
      /\ m.status = "succeeded" => run'[m.run].status = "succeeded"
      /\ \A r \in Runs : run[r].status = "succeeded" => run'[r].status = "succeeded"
  BY AcceptSound
<1>2. \A f \in Executors : ex[f].run \in Runs /\ ex[f].next \in Continuations
  BY DEF RunInv, TypeInv, TypeOK, ExecutorRecord
<1>3. AttemptsKnown'
  BY <1>1 DEF RunInv, AttemptsKnown
<1>4. RequestsSound'
  <2>1. \A n : Sound(n) => Sound(n)'
    BY DEF Sound
  <2>2. \A f \in Executors : ex'[f].pc = "await" => ex'[f] = ex[f]
    BY <1>2 DEF Continuations
  <2>3. QED
    BY <2>1, <2>2 DEF RunInv, RequestsSound
<1>5. OutcomeSound'
  BY <1>2 DEF RunInv, OutcomeSound, Continuations
<1>6. ReturnedRunSucceeded'
  BY <1>1, <1>2 DEF RunInv, ReturnedRunSucceeded, OutcomeSound
<1>7. QED
  BY <1>1, <1>3, <1>4, <1>5, <1>6 DEF RunInv

(* The platform does nothing: requests are resent or dropped, and processes *)
(* stop.                                                                    *)
LEMMA IgnoredSafe ==
    ASSUME RunInv, TypeInv', UNCHANGED <<run, effects>>,
           \A n \in late' : n \in late \/ Sound(n),
           \A f \in Executors : ex'[f] = ex[f] \/ ex'[f].pc = "idle"
    PROVE  RunInv'
<1>1. AttemptsRecorded' /\ OnlyCurrentAttemptWrites' /\ DoneBacked'
  BY DEF RunInv, AttemptsRecorded, OnlyCurrentAttemptWrites, DoneBacked
<1>2. AttemptsKnown' /\ OutcomeSound' /\ ReturnedRunSucceeded'
  BY DEF RunInv, AttemptsKnown, OutcomeSound, ReturnedRunSucceeded
<1>3. RequestsSound'
  <2>1. \A n : Sound(n) => Sound(n)'
    BY DEF Sound
  <2>2. QED
    BY <2>1 DEF RunInv, RequestsSound
<1>4. QED
  BY <1>1, <1>2, <1>3 DEF RunInv

LEMMA RespondSafe ==
    ASSUME RunInv, TypeInv', NEW e \in Executors, Respond(e)
    PROVE  RunInv'
<1> DEFINE m == ex[e].req
           y == [ex[e] EXCEPT !.act = run'[m.run], !.pc = ex[e].next]
           z == AfterRefusal(ex[e])
<1>1. /\ ex[e] \in ExecutorRecord /\ m \in Request /\ ex[e].pc = "await" /\ Sound(m)
      /\ ex \in [Executors -> ExecutorRecord] /\ UNCHANGED <<late, effects>>
  BY DEF Respond, RunInv, TypeInv, TypeOK, ExecutorRecord, RequestsSound
<1>2. CASE CanRecord(run[m.run], m) /\ Accept(m) /\ ex' = [ex EXCEPT ![e] = y]
  <2>1. /\ y.pc = ex[e].next /\ y.next = ex[e].next /\ y.run = ex[e].run
        /\ y.act = run'[m.run]
    BY <1>1 DEF ExecutorRecord
  <2>2. ex'[e] = y /\ \A f \in Executors : f # e => ex'[f] = ex[f]
    BY <1>1, <1>2
  <2> HIDE DEF y
  <2>3. QED
    BY <1>1, <1>2, <2>1, <2>2, AcceptedSafe
<1>3. CASE UNCHANGED run /\ ex' = [ex EXCEPT ![e] = z]
  <2>1. LocalChange(ex[e], z)
    BY <1>1 DEF LocalChange, AfterRefusal, ExecutorRecord
  <2> HIDE DEF z
  <2>2. QED
    BY <1>1, <1>3, <2>1, LocalChangeSafe
<1>4. QED
  BY <1>2, <1>3 DEF Respond

LEMMA AnswerLostSafe ==
    ASSUME RunInv, TypeInv', NEW e \in Executors, AnswerLost(e)
    PROVE  RunInv'
<1>1. ex[e].req \in Request /\ Sound(ex[e].req)
  BY DEF AnswerLost, RunInv, TypeInv, TypeOK, ExecutorRecord, RequestsSound
<1>2. QED
  BY <1>1, AcceptedSafe DEF AnswerLost

LEMMA DeliverLateSafe ==
    ASSUME RunInv, TypeInv', NEW m \in late, DeliverLate(m)
    PROVE  RunInv'
<1>1. m \in Request /\ Sound(m)
  BY DEF RunInv, TypeInv, TypeOK, RequestsSound
<1>2. CASE CanRecord(run[m.run], m)
  BY <1>1, <1>2, AcceptedSafe DEF DeliverLate
<1>3. CASE ~CanRecord(run[m.run], m)
  BY <1>3, IgnoredSafe DEF DeliverLate
<1>4. QED
  BY <1>2, <1>3

LEMMA ResendSafe ==
    ASSUME RunInv, TypeInv', NEW e \in Executors, Resend(e)
    PROVE  RunInv'
<1>1. Sound(ex[e].req)
  BY DEF Resend, RunInv, RequestsSound
<1>2. QED
  BY <1>1, IgnoredSafe DEF Resend, platform

LEMMA ReportFailureSafe ==
    ASSUME RunInv, TypeInv', NEW e \in Executors, ReportFailure(e)
    PROVE  RunInv'
<1> DEFINE m == FailRequest(ex[e])
<1>1. /\ ex[e] \in ExecutorRecord /\ ex[e].act.attempt # 0
      /\ ex \in [Executors -> ExecutorRecord]
  BY DEF ReportFailure, RunInv, TypeInv, TypeOK, AttemptsKnown
<1>2. m \in Request /\ Sound(m)
  BY <1>1 DEF FailRequest, Request, Statuses, ExecutorRecord, RunRecord, Sound
<1>3. \A f \in Executors : ex'[f] = ex[f] \/ ex'[f].pc = "idle"
  BY <1>1 DEF ReportFailure, Idle
<1>4. effects' = effects
  BY DEF ReportFailure
<1>5. CASE CanRecord(run[m.run], m) /\ Accept(m) /\ UNCHANGED late
  <2> HIDE DEF m
  <2>1. QED
    BY <1>2, <1>3, <1>4, <1>5, AcceptedSafe
<1>6. CASE UNCHANGED run /\ late' \in {late, late \cup {m}}
  <2> HIDE DEF m
  <2>1. QED
    BY <1>2, <1>3, <1>4, <1>6, IgnoredSafe
<1>7. QED
  BY <1>5, <1>6 DEF ReportFailure

LEMMA NextRunInv == RunInv /\ [Next]_vars => RunInv'
<1> SUFFICES ASSUME RunInv, [Next]_vars PROVE RunInv'
  OBVIOUS
<1>1. TypeInv'
  BY NextType DEF RunInv
<1>2. ASSUME NEW e \in Executors, Command(e) PROVE RunInv'
  BY <1>1, <1>2, CommandSafe
<1>3. ASSUME NEW e \in Executors,
             \/ Begin(e) \/ SkipStep(e) \/ StartStep(e) \/ CaptureApp(e) \/ FinishSteps(e)
             \/ VerifyActivation(e) \/ Throw(e)
      PROVE  RunInv'
  <2>1. /\ \E y : LocalChange(ex[e], y) /\ ex' = [ex EXCEPT ![e] = y]
        /\ ex[e].pc \notin {"idle", "create"}
        /\ UNCHANGED <<run, late, effects>>
    BY <1>3, LocalSteps
  <2>2. PICK y : LocalChange(ex[e], y) /\ ex' = [ex EXCEPT ![e] = y]
    BY <2>1
  <2>3. \A r \in Runs : effects[r] \subseteq effects'[r]
    BY <2>1
  <2>5. QED
    BY <1>1, <2>1, <2>2, <2>3, LocalChangeSafe
<1>4. ASSUME NEW e \in Executors, Progress(e) PROVE RunInv'
  BY <1>1, <1>3, <1>4, CreateRunSafe, RequestRunRetrySafe, ReadPreviousSafe, RespondSafe,
     RunStepSafe, ActivateAppSafe, ReportFailureSafe, StopSafe DEF Progress
<1>5. ASSUME NEW e \in Executors, Fault(e) PROVE RunInv'
  BY <1>1, <1>3, <1>5, AnswerLostSafe, ResendSafe, StopSafe DEF Fault
<1>6. ASSUME NEW m \in late, DeliverLate(m) PROVE RunInv'
  BY <1>1, <1>6, DeliverLateSafe
<1>7. CASE LeaseExpires
  BY <1>1, <1>7, IgnoredSafe DEF LeaseExpires
<1>8. CASE UNCHANGED vars
  BY <1>1, <1>8, IgnoredSafe DEF vars
<1>9. QED
  BY <1>2, <1>4, <1>5, <1>6, <1>7, <1>8 DEF Next

LEMMA RunInvariant == Spec => []RunInv
<1>1. QED
  BY InitRunInv, NextRunInv, PTL DEF Spec

(* The attempt fence works: whatever is late, resent or reported by the     *)
(* failure handler of an executor that was taken over, the last request     *)
(* that changed a run was one of its current attempt.                       *)
THEOREM AttemptFence == Spec => []OnlyCurrentAttemptWrites
<1>1. RunInv => OnlyCurrentAttemptWrites
  BY DEF RunInv
<1>2. QED
  BY <1>1, RunInvariant, PTL

(* What a retry skips was released: a done-<step> checkpoint is recorded    *)
(* only for a step that took effect, in this attempt or in an earlier one.  *)
THEOREM CheckpointsBacked == Spec => []DoneBacked
<1>1. RunInv => DoneBacked
  BY DEF RunInv
<1>2. QED
  BY <1>1, RunInvariant, PTL

(* A command that returns a run returns one that succeeded, and that no     *)
(* late request of any executor can turn back.                              *)
THEOREM ReturnMeansSuccess == Spec => []ReturnedRunSucceeded
<1>1. RunInv => ReturnedRunSucceeded
  BY DEF RunInv
<1>2. QED
  BY <1>1, RunInvariant, PTL

-----------------------------------------------------------------------------
(* What an executor knows and has done.  Several executors of one attempt   *)
(* and of several ones look at a run that only grows, so that what each has *)
(* read stays true: steps that are done stay done, and the child that was   *)
(* staged for a layer stays the one that app-finalize will promote.         *)

Working == {"await", "loop", "step", "capture", "activate", "verify"}

Consistent(rec) == \A l \in StagedLayers : rec.child[l] # 0 <=> l \in rec.done

(* Run rec became run rec2.                                                 *)
Evolves(rec, rec2) ==
    /\ rec.attempt <= rec2.attempt
    /\ rec.done \subseteq rec2.done
    /\ \A l \in rec.done \cap StagedLayers : rec2.child[l] = rec.child[l]
    /\ rec2.attempt = rec.attempt =>
         \A l \in rec2.done \cap StagedLayers : l \in rec.done \/ rec2.child[l] = rec2.attempt

(* An executor of the current attempt knows every child that an earlier     *)
(* attempt staged, so that it will not stage another one.                   *)
Knows(x, rec) ==
    /\ x.act.attempt <= rec.attempt
    /\ x.act.done \subseteq rec.done
    /\ \A l \in x.act.done \cap StagedLayers : x.act.child[l] = rec.child[l]
    /\ Consistent(x.act)
    /\ x.act.attempt = rec.attempt =>
         \A l \in rec.done \cap StagedLayers : l \in x.act.done \/ rec.child[l] = rec.attempt

Answerable(m, rec) ==
    /\ m.att <= rec.attempt
    /\ m.status = "succeeded" => m.step = {}
    /\ m.att = rec.attempt =>
         \A l \in m.step \cap rec.done \cap StagedLayers : rec.child[l] = rec.attempt

Asked(x) == IF x.pc = "await" THEN x.req.step ELSE {}
Finalizing(x) == x.pc \in {"capture", "activate"} \/ (x.pc = "await" /\ x.next = "capture")
Finished(x) == x.pc = "verify" \/ (x.pc = "await" /\ x.next \in {"verify", "returned"})

(* The loop of executeRun: the steps of the plan that are not to do are     *)
(* done, or are what the request in flight reports.                         *)
Orderly(x) ==
    /\ StepsOf(x.plan) \ x.todo \subseteq x.act.done \cup Asked(x)
    /\ x.todo # {} /\ Ensure \notin x.todo => x.bound
    /\ Finalizing(x) => x.todo = {Finalize}
    /\ Finished(x) => x.todo = {}
    /\ x.pc = "step" => NextStep(x) \notin x.act.done /\ NextStep(x) # Finalize
    /\ x.pc = "activate" => ScopeMatches(x)
    /\ x.pc = "await" =>
         /\ x.next \in {"loop", "capture", "verify", "returned"}
         /\ x.req.run = x.run
         /\ x.req.att = x.act.attempt
         /\ x.next = "returned" <=> x.req.status = "succeeded"

Owns(x, rels) ==
    /\ x.pc = "create" => x.own = 0
    /\ x.own # 0 => x.own \in DOMAIN rels /\ rels[x.own].run = x.run
    /\ x.own # 0 /\ x.pc \in {"await", "returned"} /\ x.req.status = "succeeded"
       => x.req.rel = x.own

ExecutorOK(x, rec, rels) ==
    /\ x.pc \notin {"idle", "create"} => Knows(x, rec)
    /\ x.pc = "retry" => x.next \in {"previous", "begin"}
    /\ x.pc \in Working => Orderly(x)
    /\ x.pc = "await" => Answerable(x.req, rec)
    /\ Owns(x, rels)

RecordsOK ==
    \A r \in Runs :
        /\ Consistent(run[r])
        /\ run[r].status = "absent" => run[r].attempt = 0 /\ run[r].done = {}

WorkInv ==
    /\ RecordsOK
    /\ \A m \in late : Answerable(m, run[m.run])
    /\ \A e \in Executors : ExecutorOK(ex[e], run[ex[e].run], releases)
    /\ ManifestCoversPlan
    /\ head = Len(releases)

LEMMA FirstStepOfTodo ==
    ASSUME NEW x, x.todo \in SUBSET Steps, x.todo # {}
    PROVE  NextStep(x) \in x.todo /\ \A t \in x.todo : NextStep(x) <= t
<1>1. \E s \in x.todo : \A t \in x.todo : s <= t
  BY FirstStep, StepsInNat
<1>2. QED
  BY <1>1 DEF NextStep

LEMMA StepNumbers ==
    /\ Ensure \notin Layers /\ Finalize \notin Layers /\ Ensure # Finalize
    /\ StagedLayers \subseteq Layers
    /\ \A s \in Steps : s = Ensure \/ s = Finalize \/ s \in Layers
    /\ \A s \in Steps : 0 <= s /\ s <= Finalize
BY ConstantsAssumption DEF Steps, Layers, Ensure, Finalize, StagedLayers

LEMMA EvolvesReflexive ==
    ASSUME NEW rec \in RunRecord
    PROVE  Evolves(rec, rec)
BY DEF Evolves, RunRecord

LEMMA KnowsStays ==
    ASSUME NEW x \in ExecutorRecord, NEW rec \in RunRecord, NEW rec2 \in RunRecord,
           Knows(x, rec), Evolves(rec, rec2)
    PROVE  Knows(x, rec2)
<1>1. /\ x.act.attempt \in Nat /\ rec.attempt \in Nat /\ rec2.attempt \in Nat
  BY DEF ExecutorRecord, RunRecord
<1>2. x.act.attempt <= rec2.attempt
  BY <1>1 DEF Knows, Evolves
<1>3. x.act.done \subseteq rec2.done
  BY DEF Knows, Evolves
<1>4. \A l \in x.act.done \cap StagedLayers : x.act.child[l] = rec2.child[l]
  BY DEF Knows, Evolves
<1>5. ASSUME x.act.attempt = rec2.attempt, NEW l \in rec2.done \cap StagedLayers
      PROVE  l \in x.act.done \/ rec2.child[l] = rec2.attempt
  <2>1. x.act.attempt = rec.attempt /\ rec2.attempt = rec.attempt
    BY <1>1, <1>5 DEF Knows, Evolves
  <2>2. QED
    BY <1>5, <2>1 DEF Knows, Evolves
<1>6. QED
  BY <1>2, <1>3, <1>4, <1>5 DEF Knows

LEMMA AnswerableStays ==
    ASSUME NEW m \in Request, NEW rec \in RunRecord, NEW rec2 \in RunRecord,
           Answerable(m, rec), Evolves(rec, rec2)
    PROVE  Answerable(m, rec2)
<1>1. m.att \in Nat /\ rec.attempt \in Nat /\ rec2.attempt \in Nat
  BY DEF Request, RunRecord
<1>2. ASSUME m.att = rec2.attempt, NEW l \in m.step \cap rec2.done \cap StagedLayers
      PROVE  rec2.child[l] = rec2.attempt
  <2>1. m.att = rec.attempt /\ rec2.attempt = rec.attempt
    BY <1>1, <1>2 DEF Answerable, Evolves
  <2>2. QED
    BY <1>2, <2>1 DEF Answerable, Evolves
<1>3. m.att <= rec2.attempt
  BY <1>1 DEF Answerable, Evolves
<1>4. QED
  BY <1>2, <1>3 DEF Answerable

(* An executor that does nothing meanwhile.                                 *)
LEMMA ExecutorStays ==
    ASSUME NEW x \in ExecutorRecord, NEW rec \in RunRecord, NEW rec2 \in RunRecord,
           NEW rels, NEW rels2, ExecutorOK(x, rec, rels), Evolves(rec, rec2),
           \A i \in DOMAIN rels : i \in DOMAIN rels2 /\ rels2[i] = rels[i]
    PROVE  ExecutorOK(x, rec2, rels2)
<1>1. x.req \in Request
  BY DEF ExecutorRecord
<1>2. x.pc \notin {"idle", "create"} => Knows(x, rec2)
  BY KnowsStays DEF ExecutorOK
<1>3. x.pc = "await" => Answerable(x.req, rec2)
  BY <1>1, AnswerableStays DEF ExecutorOK
<1>4. Owns(x, rels2)
  BY DEF ExecutorOK, Owns
<1>5. QED
  BY <1>2, <1>3, <1>4 DEF ExecutorOK

LEMMA IdleOK ==
    ASSUME NEW x, NEW rec, NEW rels, x.pc \in {"idle", "create"}, x.own = 0
    PROVE  ExecutorOK(x, rec, rels)
BY DEF ExecutorOK, Owns, Working

(* A request of the loop.                                                   *)
LEMMA SendOK ==
    ASSUME NEW x \in ExecutorRecord, NEW rec \in RunRecord, NEW rels,
           NEW status \in Statuses \cup {"same"}, NEW step \in SUBSET Steps, NEW rel \in Nat,
           NEW n \in {"loop", "capture", "verify", "returned"},
           Knows(x, rec),
           StepsOf(x.plan) \ x.todo \subseteq x.act.done \cup step,
           x.todo # {} /\ Ensure \notin x.todo => x.bound,
           n = "capture" => x.todo = {Finalize},
           n \in {"verify", "returned"} => x.todo = {},
           n = "returned" <=> status = "succeeded",
           status = "succeeded" => step = {},
           x.act.attempt = rec.attempt =>
              \A l \in step \cap rec.done \cap StagedLayers : rec.child[l] = rec.attempt,
           x.own # 0 => x.own \in DOMAIN rels /\ rels[x.own].run = x.run,
           status = "succeeded" /\ x.own # 0 => rel = x.own
    PROVE  ExecutorOK(Send(x, Checkpoint(x, status, step, rel), n), rec, rels)
<1>1. PICK m : m = Checkpoint(x, status, step, rel)
  OBVIOUS
<1>2. /\ m.run = x.run /\ m.att = x.act.attempt /\ m.status = status /\ m.step = step
      /\ m.rel = rel
  BY <1>1 DEF Checkpoint
<1>3. PICK y : y = Send(x, m, n)
  OBVIOUS
<1>4. /\ y.pc = "await" /\ y.next = n /\ y.req = m
      /\ y.run = x.run /\ y.act = x.act /\ y.plan = x.plan /\ y.todo = x.todo
      /\ y.bound = x.bound /\ y.own = x.own
  BY <1>3 DEF Send, ExecutorRecord
<1>5. Knows(y, rec)
  BY <1>4 DEF Knows
<1>6. Orderly(y)
  BY <1>2, <1>4 DEF Orderly, Asked, Finalizing, Finished
<1>7. Answerable(m, rec)
  BY <1>2 DEF Answerable, Knows
<1>8. Owns(y, rels)
  BY <1>2, <1>4 DEF Owns
<1>9. QED
  BY <1>1, <1>3, <1>4, <1>5, <1>6, <1>7, <1>8 DEF ExecutorOK


LEMMA RecordEvolves ==
    ASSUME NEW rec \in RunRecord, NEW m \in Request, CanRecord(rec, m),
           m.att # 0, rec.attempt # 0, Answerable(m, rec), Consistent(rec)
    PROVE  /\ Evolves(rec, Record(rec, m))
           /\ Consistent(Record(rec, m))
           /\ Record(rec, m).status # "absent"
           /\ m.step \subseteq Record(rec, m).done
<1>1. CASE rec.status = "succeeded"
  <2>1. Record(rec, m) = rec
    BY <1>1 DEF Record
  <2>2. m.status = "succeeded"
    BY <1>1 DEF CanRecord, Executing, Transitions
  <2>3. m.step = {}
    BY <2>2 DEF Answerable
  <2>4. QED
    BY <1>1, <2>1, <2>3, EvolvesReflexive
<1>2. CASE rec.status # "succeeded"
  <2>1. PICK rec2 : rec2 = Record(rec, m)
    OBVIOUS
  <2>2. /\ rec2.attempt = rec.attempt
        /\ rec2.done = rec.done \cup m.step
        /\ rec2.status = IF m.status = "same" THEN rec.status ELSE m.status
        /\ \A l \in Layers :
              rec2.child[l] = IF l \in m.step /\ l \in StagedLayers THEN rec.attempt
                              ELSE rec.child[l]
    BY <1>2, <2>1 DEF Record, RunRecord
  <2>3. m.att = rec.attempt
    BY DEF CanRecord, Fence
  <2>4. rec2.status # "absent"
    BY <2>2 DEF CanRecord, Executing, Transitions
  <2>5. \A l \in StagedLayers : l \in Layers
    BY StepNumbers
  <2>6. rec.attempt \in Nat
    BY DEF RunRecord
  <2>7. Consistent(rec2)
    BY <2>2, <2>5 DEF Consistent
  <2>8. Evolves(rec, rec2)
    BY <2>2, <2>3, <2>5, <2>6 DEF Evolves, Answerable
  <2>9. QED
    BY <2>1, <2>2, <2>4, <2>7, <2>8
<1>3. QED
  BY <1>1, <1>2

(* One run changes, the others do not.                                      *)
LEMMA OneRunEvolves ==
    ASSUME RunInv, WorkInv, NEW r \in Runs, NEW rec \in RunRecord,
           run' = [run EXCEPT ![r] = rec],
           Evolves(run[r], rec), Consistent(rec), rec.status # "absent"
    PROVE  /\ RecordsOK'
           /\ \A q \in Runs : Evolves(run[q], run'[q])
<1>1. run \in [Runs -> RunRecord]
  BY DEF RunInv, TypeInv, TypeOK
<1>2. run'[r] = rec /\ \A q \in Runs : q # r => run'[q] = run[q]
  BY <1>1
<1>3. \A q \in Runs : Evolves(run[q], run'[q])
  BY <1>1, <1>2, EvolvesReflexive
<1>4. RecordsOK'
  BY <1>2 DEF WorkInv, RecordsOK
<1>5. QED
  BY <1>3, <1>4

LEMMA NoRunEvolves ==
    ASSUME RunInv, WorkInv, UNCHANGED run
    PROVE  /\ RecordsOK'
           /\ \A q \in Runs : Evolves(run[q], run'[q])
<1>1. \A q \in Runs : run[q] \in RunRecord
  BY DEF RunInv, TypeInv, TypeOK
<1>2. QED
  BY <1>1, EvolvesReflexive DEF WorkInv, RecordsOK

LEMMA AcceptEvolves ==
    ASSUME RunInv, WorkInv, NEW m \in Request, Sound(m), Answerable(m, run[m.run]),
           CanRecord(run[m.run], m), Accept(m)
    PROVE  /\ RecordsOK'
           /\ \A q \in Runs : Evolves(run[q], run'[q])
           /\ m.step \subseteq run'[m.run].done
<1>1. m.run \in Runs /\ run[m.run] \in RunRecord /\ run \in [Runs -> RunRecord]
  BY DEF RunInv, TypeInv, TypeOK, Request
<1>2. m.att # 0 /\ Consistent(run[m.run])
  BY <1>1 DEF Sound, WorkInv, RecordsOK
<1>3. run[m.run].status # "absent"
  BY DEF CanRecord, Transitions, Executing
<1>4. run[m.run].attempt # 0
  BY <1>1, <1>3 DEF RunInv, AttemptsRecorded
<1>5. PICK rec : rec = Record(run[m.run], m)
  OBVIOUS
<1>6. /\ rec \in RunRecord /\ Evolves(run[m.run], rec) /\ Consistent(rec)
      /\ rec.status # "absent" /\ m.step \subseteq rec.done
  BY <1>1, <1>2, <1>4, <1>5, RecordEvolves, RecordType
<1>7. run' = [run EXCEPT ![m.run] = rec]
  BY <1>5 DEF Accept
<1>8. run'[m.run] = rec
  BY <1>1, <1>7
<1>9. QED
  BY <1>1, <1>6, <1>7, <1>8, OneRunEvolves

(* What a step must show: that runs evolve, and that the executor that took *)
(* it knows what it did.                                                    *)
LEMMA WorkStep ==
    ASSUME RunInv, WorkInv, TypeInv', RecordsOK',
           \A r \in Runs : Evolves(run[r], run'[r]),
           \A m \in late' : m \in late \/ Answerable(m, run'[m.run]),
           \A f \in Executors :
              \/ ex'[f] = ex[f]
              \/ ExecutorOK(ex'[f], run'[ex'[f].run], releases'),
           \A i \in DOMAIN releases : i \in DOMAIN releases' /\ releases'[i] = releases[i],
           ManifestCoversPlan', head' = Len(releases')
    PROVE  WorkInv'
<1>1. /\ \A r \in Runs : run[r] \in RunRecord /\ run'[r] \in RunRecord
      /\ \A f \in Executors : ex[f] \in ExecutorRecord /\ ex[f].run \in Runs
      /\ \A m \in late : m \in Request /\ m.run \in Runs
  BY DEF RunInv, TypeInv, TypeOK, ExecutorRecord, Request
<1>2. \A m \in late' : Answerable(m, run'[m.run])
  BY <1>1, AnswerableStays DEF WorkInv
<1>3. ASSUME NEW f \in Executors PROVE ExecutorOK(ex'[f], run'[ex'[f].run], releases')
  <2>1. ExecutorOK(ex[f], run'[ex[f].run], releases')
    BY <1>1, ExecutorStays DEF WorkInv
  <2>2. QED
    BY <2>1
<1>4. QED
  BY <1>2, <1>3 DEF WorkInv

(* A step of one executor that leaves the runs and App Releases alone.      *)
LEMMA LocalWork ==
    ASSUME RunInv, WorkInv, TypeInv', NEW e \in Executors, NEW y,
           ex' = [ex EXCEPT ![e] = y], ExecutorOK(y, run[y.run], releases),
           UNCHANGED <<run, releases, head>>,
           \A m \in late' : m \in late \/ Answerable(m, run[m.run])
    PROVE  WorkInv'
<1>1. ex \in [Executors -> ExecutorRecord]
  BY DEF RunInv, TypeInv, TypeOK
<1>2. ex'[e] = y /\ \A f \in Executors : f # e => ex'[f] = ex[f]
  BY <1>1
<1>3. RecordsOK' /\ \A r \in Runs : Evolves(run[r], run'[r])
  BY NoRunEvolves
<1>4. ManifestCoversPlan' /\ head' = Len(releases')
  BY DEF WorkInv, ManifestCoversPlan
<1>5. QED
  BY <1>2, <1>3, <1>4, WorkStep

(* An executor outside the loop, or about to leave it.                      *)
LEMMA QuietOK ==
    ASSUME NEW y, NEW rec, NEW rels,
           y.pc \in {"retry", "previous", "begin", "failing"},
           Knows(y, rec),
           y.pc = "retry" => y.next \in {"previous", "begin"},
           y.own # 0 => y.own \in DOMAIN rels /\ rels[y.own].run = y.run
    PROVE  ExecutorOK(y, rec, rels)
BY DEF ExecutorOK, Owns, Working

(* Whoever reads the run knows all of it.                                   *)
LEMMA ReaderKnows ==
    ASSUME NEW y, NEW rec \in RunRecord, y.act = rec, Consistent(rec)
    PROVE  Knows(y, rec)
BY DEF Knows, RunRecord

LEMMA IdleExecutor ==
    /\ Idle.pc = "idle" /\ Idle.own = 0
    /\ \A rec, rels : ExecutorOK(Idle, rec, rels)
<1>1. Idle.pc = "idle" /\ Idle.own = 0
  BY DEF Idle
<1>2. QED
  BY <1>1, IdleOK

LEMMA CommandWork ==
    ASSUME RunInv, WorkInv, TypeInv', NEW e \in Executors, Command(e)
    PROVE  WorkInv'
<1>1. UNCHANGED <<run, releases, head, late>>
  BY DEF Command, Deploy, Rollback, Retry, platform
<1>2. ASSUME NEW r \in Runs, Retry(e, r) PROVE WorkInv'
  <2>1. PICK y : y = [Idle EXCEPT !.run = r, !.act = run[r],
                               !.pc = IF run[r].status = "succeeded" THEN "returned"
                                      ELSE "retry",
                               !.next = "previous"]
    OBVIOUS
  <2>2. /\ y.run = r /\ y.act = run[r] /\ y.pc \in {"retry", "returned"} /\ y.next = "previous"
        /\ y.own = 0
    BY <2>1 DEF Idle
  <2>3. run[r] \in RunRecord /\ Consistent(run[r])
    BY DEF RunInv, TypeInv, TypeOK, WorkInv, RecordsOK
  <2>4. ExecutorOK(y, run[r], releases)
    BY <2>2, <2>3, ReaderKnows DEF ExecutorOK, Owns, Working
  <2>5. ex' = [ex EXCEPT ![e] = y]
    BY <1>2, <2>1 DEF Retry
  <2>6. QED
    BY <1>1, <2>2, <2>4, <2>5, LocalWork
<1>3. ASSUME NEW y, y.pc = "create", y.own = 0, ex' = [ex EXCEPT ![e] = y] PROVE WorkInv'
  <2>1. ExecutorOK(y, run[y.run], releases)
    BY <1>3, IdleOK
  <2>2. QED
    BY <1>1, <1>3, <2>1, LocalWork
<1>4. ASSUME NEW p \in Packages, Deploy(e, p) PROVE WorkInv'
  <2>1. PICK y : y = [Idle EXCEPT !.pc = "create", !.run = p, !.act = AbsentRun(p),
                                  !.prev = LatestSuccessfulRun({})]
    OBVIOUS
  <2>2. y.pc = "create" /\ y.own = 0
    BY <2>1 DEF Idle
  <2>3. ex' = [ex EXCEPT ![e] = y]
    BY <1>4, <2>1 DEF Deploy
  <2>4. QED
    BY <1>3, <2>2, <2>3
<1>5. ASSUME NEW r \in Rollbacks, NEW rel, Rollback(e, r, rel) PROVE WorkInv'
  <2> DEFINE S == FindSuccessfulRunByRelease(rel)
             q == CHOOSE i \in S : \A j \in S : j <= i
  <2>1. PICK y : y = [Idle EXCEPT !.pc = "create", !.run = r,
                                  !.act = AbsentRun(run[created[q]].pkg), !.force = TRUE]
    OBVIOUS
  <2>2. y.pc = "create" /\ y.own = 0
    BY <2>1 DEF Idle
  <2>3. ex' = [ex EXCEPT ![e] = y]
    BY <1>5, <2>1 DEF Rollback
  <2>4. QED
    BY <1>3, <2>2, <2>3
<1>6. QED
  BY <1>2, <1>4, <1>5 DEF Command

LEMMA StopWork ==
    ASSUME RunInv, WorkInv, TypeInv', NEW e \in Executors, Crash(e) \/ Return(e)
    PROVE  WorkInv'
<1>1. ex' = [ex EXCEPT ![e] = Idle] /\ UNCHANGED <<run, releases, head, late>>
  BY DEF Crash, Return, platform
<1>2. QED
  BY <1>1, IdleExecutor, LocalWork

(* What is known of the executor that acts.                                 *)
LEMMA Actor ==
    ASSUME RunInv, WorkInv, NEW e \in Executors
    PROVE  /\ ex[e] \in ExecutorRecord /\ ex[e].run \in Runs
           /\ ex \in [Executors -> ExecutorRecord]
           /\ run[ex[e].run] \in RunRecord
           /\ Consistent(run[ex[e].run])
           /\ ExecutorOK(ex[e], run[ex[e].run], releases)
           /\ ex[e].own # 0 => ex[e].own \in DOMAIN releases /\ releases[ex[e].own].run = ex[e].run
           /\ ex[e].pc = "create" => ex[e].own = 0
BY DEF RunInv, TypeInv, TypeOK, ExecutorRecord, WorkInv, RecordsOK, ExecutorOK, Owns

LEMMA CreateRunWork ==
    ASSUME RunInv, WorkInv, TypeInv', NEW e \in Executors, CreateRun(e)
    PROVE  WorkInv'
<1>1. PICK r : r = ex[e].run
  OBVIOUS
<1>2. /\ ex[e] \in ExecutorRecord /\ r \in Runs /\ run[r] \in RunRecord /\ Consistent(run[r])
      /\ ex \in [Executors -> ExecutorRecord] /\ run \in [Runs -> RunRecord]
      /\ ex[e].own = 0 /\ UNCHANGED <<releases, head, late>>
  BY <1>1, Actor DEF CreateRun, RunInv, TypeInv, TypeOK
<1>3. CASE run[r].status = "absent" /\ lease = NoLease
  <2>1. PICK rec : rec = [AbsentRun(ex[e].act.pkg) EXCEPT
                            !.status = "packaged", !.attempt = 1, !.writer = 1]
    OBVIOUS
  <2>2. /\ rec.attempt = 1 /\ rec.done = {} /\ rec.status = "packaged"
        /\ \A l \in Layers : rec.child[l] = 0
    BY <2>1 DEF AbsentRun
  <2>3. run' = [run EXCEPT ![r] = rec] /\ ex' = [ex EXCEPT ![e] = [@ EXCEPT !.act = run'[r], !.pc = "begin"]]
    BY <1>1, <1>3, <2>1 DEF CreateRun
  <2>4. run'[r] = rec /\ rec \in RunRecord
    BY <1>2, <2>3 DEF TypeInv, TypeOK
  <2>5. run[r].attempt = 0 /\ run[r].done = {}
    BY <1>2, <1>3 DEF WorkInv, RecordsOK
  <2>6. Evolves(run[r], rec) /\ Consistent(rec)
    BY <2>2, <2>5, StepNumbers DEF Evolves, Consistent
  <2>7. RecordsOK' /\ \A q \in Runs : Evolves(run[q], run'[q])
    BY <1>2, <2>2, <2>3, <2>4, <2>6, OneRunEvolves
  <2>8. PICK y : y = [ex[e] EXCEPT !.act = run'[r], !.pc = "begin"]
    OBVIOUS
  <2>9. y.pc = "begin" /\ y.act = rec /\ y.own = 0 /\ y.run = r
    BY <1>1, <1>2, <2>4, <2>8 DEF ExecutorRecord
  <2>10. ExecutorOK(y, rec, releases)
    BY <2>4, <2>6, <2>9, ReaderKnows, QuietOK
  <2>11. ex'[e] = y /\ \A f \in Executors : f # e => ex'[f] = ex[f]
    BY <1>2, <2>3, <2>8
  <2>12. ManifestCoversPlan' /\ head' = Len(releases')
    BY <1>2 DEF WorkInv, ManifestCoversPlan
  <2>13. QED
    BY <1>2, <2>4, <2>7, <2>9, <2>10, <2>11, <2>12, WorkStep
<1>4. CASE /\ run[r].status # "absent" /\ UNCHANGED run
           /\ \/ ex' = [ex EXCEPT ![e] = [@ EXCEPT !.act = run[r], !.pc = "returned"]]
              \/ ex' = [ex EXCEPT ![e] = [@ EXCEPT !.act = run[r], !.pc = "begin"]]
              \/ ex' = [ex EXCEPT ![e] = [@ EXCEPT !.act = run[r], !.pc = "retry", !.next = "begin"]]
  <2>1. PICK y \in { [ex[e] EXCEPT !.act = run[r], !.pc = "returned"],
                     [ex[e] EXCEPT !.act = run[r], !.pc = "begin"],
                     [ex[e] EXCEPT !.act = run[r], !.pc = "retry", !.next = "begin"] } :
             ex' = [ex EXCEPT ![e] = y]
    BY <1>4
  <2>2. /\ y.act = run[r] /\ y.own = 0 /\ y.run = r
        /\ y.pc \in {"returned", "begin", "retry"}
        /\ y.pc = "retry" => y.next = "begin"
    BY <1>1, <1>2, <2>1 DEF ExecutorRecord
  <2>3. Knows(y, run[r])
    BY <1>2, <2>2, ReaderKnows
  <2>4. ExecutorOK(y, run[r], releases)
    BY <2>2, <2>3 DEF ExecutorOK, Owns, Working
  <2>5. QED
    BY <1>2, <1>4, <2>1, <2>2, <2>4, LocalWork
<1>5. CASE UNCHANGED run /\ ex' = [ex EXCEPT ![e] = Idle]
  BY <1>2, <1>5, IdleExecutor, LocalWork
<1>6. QED
  BY <1>1, <1>3, <1>4, <1>5 DEF CreateRun

LEMMA RequestRunRetryWork ==
    ASSUME RunInv, WorkInv, TypeInv', NEW e \in Executors, RequestRunRetry(e)
    PROVE  WorkInv'
<1>1. PICK r : r = ex[e].run
  OBVIOUS
<1>2. /\ ex[e] \in ExecutorRecord /\ r \in Runs /\ run[r] \in RunRecord /\ Consistent(run[r])
      /\ ex \in [Executors -> ExecutorRecord] /\ run \in [Runs -> RunRecord]
      /\ ex[e].own # 0 => ex[e].own \in DOMAIN releases /\ releases[ex[e].own].run = ex[e].run
      /\ ex[e].next \in {"previous", "begin"}
      /\ UNCHANGED <<releases, head, late>>
  BY <1>1, Actor DEF RequestRunRetry, RunInv, TypeInv, TypeOK, ExecutorOK
<1>3. CASE run' = [run EXCEPT ![r] = OpenAttempt(r)]
  <2>1. PICK rec : rec = OpenAttempt(r)
    OBVIOUS
  <2>2. /\ rec.attempt = run[r].attempt + 1 /\ rec.done = run[r].done
        /\ rec.child = run[r].child /\ rec.status = "packaged"
    BY <1>2, <2>1 DEF OpenAttempt, RunRecord
  <2>3. run'[r] = rec /\ rec \in RunRecord
    BY <1>2, <1>3, <2>1 DEF TypeInv, TypeOK
  <2>4. run[r].attempt \in Nat
    BY <1>2 DEF RunRecord
  <2>5. Evolves(run[r], rec) /\ Consistent(rec)
    BY <1>2, <2>2, <2>4 DEF Evolves, Consistent
  <2>6. RecordsOK' /\ \A q \in Runs : Evolves(run[q], run'[q])
    BY <1>2, <1>3, <2>1, <2>2, <2>3, <2>5, OneRunEvolves
  <2>7. PICK y : y = [ex[e] EXCEPT !.act = run'[r], !.pc = ex[e].next]
    OBVIOUS
  <2>8. /\ y.pc \in {"previous", "begin"} /\ y.act = rec /\ y.own = ex[e].own
        /\ y.run = r
    BY <1>1, <1>2, <2>3, <2>7 DEF ExecutorRecord
  <2>9. ExecutorOK(y, rec, releases)
    BY <1>1, <1>2, <2>3, <2>5, <2>8, ReaderKnows, QuietOK
  <2>10. \A f \in Executors : ex'[f] = ex[f] \/ ex'[f] = Idle \/ ex'[f] = y
    BY <1>1, <1>2, <2>7 DEF RequestRunRetry
  <2>11. ASSUME NEW f \in Executors, ex'[f] # ex[f]
         PROVE  ExecutorOK(ex'[f], run'[ex'[f].run], releases')
    BY <1>2, <2>3, <2>8, <2>9, <2>10, <2>11, IdleExecutor
  <2>12. ManifestCoversPlan' /\ head' = Len(releases')
    BY <1>2 DEF WorkInv, ManifestCoversPlan
  <2>13. QED
    BY <1>2, <2>6, <2>11, <2>12, WorkStep
<1>4. CASE UNCHANGED run /\ ex' = [ex EXCEPT ![e] = Idle]
  BY <1>2, <1>4, IdleExecutor, LocalWork
<1>5. QED
  BY <1>1, <1>3, <1>4 DEF RequestRunRetry

LEMMA ReadPreviousWork ==
    ASSUME RunInv, WorkInv, TypeInv', NEW e \in Executors, ReadPrevious(e)
    PROVE  WorkInv'
<1>1. PICK y : y = [ex[e] EXCEPT !.prev = LatestSuccessfulRun({ex[e].run}), !.pc = "begin"]
  OBVIOUS
<1>2. ex' = [ex EXCEPT ![e] = y] /\ UNCHANGED <<run, releases, head, late>>
  BY <1>1 DEF ReadPrevious, platform
<1>3. /\ y.pc = "begin" /\ y.act = ex[e].act /\ y.own = ex[e].own /\ y.run = ex[e].run
  BY <1>1, Actor DEF ExecutorRecord
<1>4. Knows(ex[e], run[ex[e].run])
  BY Actor DEF ReadPrevious, ExecutorOK
<1>5. Knows(y, run[y.run])
  BY <1>3, <1>4 DEF Knows
<1>6. ExecutorOK(y, run[y.run], releases)
  BY <1>3, <1>5, Actor, QuietOK
<1>7. QED
  BY <1>2, <1>6, LocalWork

LEMMA AcceptedWork ==
    ASSUME RunInv, WorkInv, TypeInv', NEW m \in Request, Sound(m), Answerable(m, run[m.run]),
           CanRecord(run[m.run], m), Accept(m),
           UNCHANGED <<releases, head>>,
           \A n \in late' : n \in late \/ Answerable(n, run'[n.run]),
           \A f \in Executors :
              \/ ex'[f] = ex[f]
              \/ ExecutorOK(ex'[f], run'[ex'[f].run], releases')
    PROVE  WorkInv'
<1>1. RecordsOK' /\ \A q \in Runs : Evolves(run[q], run'[q])
  BY AcceptEvolves
<1>2. ManifestCoversPlan' /\ head' = Len(releases')
  BY DEF WorkInv, ManifestCoversPlan
<1>3. QED
  BY <1>1, <1>2, WorkStep

LEMMA IgnoredWork ==
    ASSUME RunInv, WorkInv, TypeInv', UNCHANGED <<run, releases, head>>,
           \A n \in late' : n \in late \/ Answerable(n, run[n.run]),
           \A f \in Executors :
              \/ ex'[f] = ex[f]
              \/ ExecutorOK(ex'[f], run[ex'[f].run], releases)
    PROVE  WorkInv'
<1>1. RecordsOK' /\ \A q \in Runs : Evolves(run[q], run'[q])
  BY NoRunEvolves
<1>2. ManifestCoversPlan' /\ head' = Len(releases')
  BY DEF WorkInv, ManifestCoversPlan
<1>3. QED
  BY <1>1, <1>2, WorkStep

(* The request in flight is one about the run of its sender.                *)
LEMMA InFlight ==
    ASSUME RunInv, WorkInv, NEW e \in Executors, ex[e].pc = "await"
    PROVE  /\ ex[e].req \in Request /\ Sound(ex[e].req)
           /\ ex[e].req.run = ex[e].run
           /\ Answerable(ex[e].req, run[ex[e].run])
           /\ Orderly(ex[e]) /\ Knows(ex[e], run[ex[e].run])
<1>1. Orderly(ex[e]) /\ Knows(ex[e], run[ex[e].run]) /\ Answerable(ex[e].req, run[ex[e].run])
  BY Actor DEF ExecutorOK, Working
<1>2. ex[e].req \in Request /\ Sound(ex[e].req)
  BY DEF RunInv, TypeInv, TypeOK, ExecutorRecord, RequestsSound
<1>3. QED
  BY <1>1, <1>2 DEF Orderly

LEMMA AnsweredOK ==
    ASSUME RunInv, WorkInv, NEW e \in Executors, ex[e].pc = "await",
           CanRecord(run[ex[e].req.run], ex[e].req), Accept(ex[e].req),
           run'[ex[e].run] \in RunRecord
    PROVE  ExecutorOK([ex[e] EXCEPT !.act = run'[ex[e].req.run], !.pc = ex[e].next],
                      run'[ex[e].run], releases)
<1>1. PICK x, rec, m, y :
         /\ x = ex[e] /\ rec = run'[ex[e].run] /\ m = ex[e].req
         /\ y = [ex[e] EXCEPT !.act = run'[ex[e].req.run], !.pc = ex[e].next]
  OBVIOUS
<1>2. /\ m \in Request /\ Sound(m) /\ m.run = x.run /\ Answerable(m, run[x.run])
      /\ Orderly(x) /\ Knows(x, run[x.run])
  BY <1>1, InFlight
<1>3. RecordsOK' /\ Evolves(run[x.run], rec) /\ m.step \subseteq rec.done /\ x.run \in Runs
  BY <1>1, <1>2, Actor, AcceptEvolves
<1>4. Consistent(rec)
  BY <1>1, <1>3 DEF RecordsOK
<1>5. /\ y.pc = x.next /\ y.act = rec /\ y.next = x.next /\ y.req = m /\ y.run = x.run
      /\ y.plan = x.plan /\ y.todo = x.todo /\ y.bound = x.bound /\ y.own = x.own
      /\ x.pc = "await"
  BY <1>1, <1>2, Actor DEF ExecutorRecord
<1>6. x.next \in {"loop", "capture", "verify", "returned"}
  BY <1>2, <1>5 DEF Orderly
<1>7. Knows(y, rec)
  BY <1>1, <1>4, <1>5, ReaderKnows
<1>8. Orderly(y)
  <2>1. StepsOf(y.plan) \ y.todo \subseteq y.act.done
    BY <1>1, <1>2, <1>3, <1>5 DEF Orderly, Asked, Knows, Evolves
  <2>2. y.todo # {} /\ Ensure \notin y.todo => y.bound
    BY <1>2, <1>5 DEF Orderly
  <2>3. Finalizing(y) => y.todo = {Finalize}
    BY <1>2, <1>5, <1>6 DEF Orderly, Finalizing
  <2>4. Finished(y) => y.todo = {}
    BY <1>2, <1>5, <1>6 DEF Orderly, Finished
  <2>5. y.pc \notin {"step", "activate", "await"}
    BY <1>5, <1>6
  <2>6. QED
    BY <2>1, <2>2, <2>3, <2>4, <2>5 DEF Orderly
<1>9. Owns(y, releases)
  BY <1>1, <1>5, <1>6, Actor DEF Owns, ExecutorOK
<1>10. ExecutorOK(y, rec, releases)
  BY <1>5, <1>6, <1>7, <1>8, <1>9 DEF ExecutorOK
<1>11. QED
  BY <1>1, <1>10

LEMMA RespondWork ==
    ASSUME RunInv, WorkInv, TypeInv', NEW e \in Executors, Respond(e)
    PROVE  WorkInv'
<1>1. /\ ex[e].pc = "await" /\ UNCHANGED <<releases, head, late>>
      /\ ex \in [Executors -> ExecutorRecord]
  BY Actor DEF Respond
<1>2. CASE /\ CanRecord(run[ex[e].req.run], ex[e].req) /\ Accept(ex[e].req)
           /\ ex' = [ex EXCEPT ![e] = [@ EXCEPT !.act = run'[ex[e].req.run], !.pc = ex[e].next]]
  <2>1. PICK y : y = [ex[e] EXCEPT !.act = run'[ex[e].req.run], !.pc = ex[e].next]
    OBVIOUS
  <2>2. run'[ex[e].run] \in RunRecord
    BY Actor DEF TypeInv, TypeOK
  <2>3. ExecutorOK(y, run'[ex[e].run], releases)
    BY <1>1, <1>2, <2>1, <2>2, AnsweredOK
  <2>4. y.run = ex[e].run
    BY <2>1, Actor DEF ExecutorRecord
  <2>5. ex'[e] = y /\ \A f \in Executors : f # e => ex'[f] = ex[f]
    BY <1>1, <1>2, <2>1
  <2>6. \A f \in Executors : ex'[f] = ex[f] \/ ExecutorOK(ex'[f], run'[ex'[f].run], releases')
    BY <1>1, <2>3, <2>4, <2>5
  <2>7. PICK m : m = ex[e].req
    OBVIOUS
  <2>8. m \in Request /\ Sound(m) /\ Answerable(m, run[m.run])
    BY <1>1, <2>7, InFlight
  <2>9. CanRecord(run[m.run], m) /\ Accept(m)
    BY <1>2, <2>7
  <2>10. QED
    BY <1>1, <2>6, <2>8, <2>9, AcceptedWork
<1>3. CASE ex' = [ex EXCEPT ![e] = AfterRefusal(@)] /\ UNCHANGED run
  <2>1. PICK y : y = AfterRefusal(ex[e])
    OBVIOUS
  <2>2. /\ y.pc = "failing" /\ y.act = ex[e].act /\ y.own = ex[e].own /\ y.run = ex[e].run
    BY <2>1, Actor DEF AfterRefusal, ExecutorRecord
  <2>3. Knows(y, run[y.run])
    BY <1>1, <2>2, InFlight DEF Knows
  <2>4. ExecutorOK(y, run[y.run], releases)
    BY <2>2, <2>3, Actor, QuietOK
  <2>5. QED
    BY <1>1, <1>3, <2>1, <2>4, LocalWork
<1>4. QED
  BY <1>1, <1>2, <1>3 DEF Respond

LEMMA AnswerLostWork ==
    ASSUME RunInv, WorkInv, TypeInv', NEW e \in Executors, AnswerLost(e)
    PROVE  WorkInv'
<1>1. PICK m : m = ex[e].req
  OBVIOUS
<1>2. m \in Request /\ Sound(m) /\ Answerable(m, run[m.run])
  BY <1>1, InFlight DEF AnswerLost
<1>3. QED
  BY <1>1, <1>2, AcceptedWork DEF AnswerLost

LEMMA ResendWork ==
    ASSUME RunInv, WorkInv, TypeInv', NEW e \in Executors, Resend(e)
    PROVE  WorkInv'
<1>1. Answerable(ex[e].req, run[ex[e].req.run])
  BY InFlight DEF Resend
<1>2. QED
  BY <1>1, IgnoredWork DEF Resend, platform

LEMMA DeliverLateWork ==
    ASSUME RunInv, WorkInv, TypeInv', NEW m \in late, DeliverLate(m)
    PROVE  WorkInv'
<1>1. m \in Request /\ Sound(m) /\ Answerable(m, run[m.run])
  BY DEF RunInv, TypeInv, TypeOK, RequestsSound, WorkInv
<1>2. CASE CanRecord(run[m.run], m)
  BY <1>1, <1>2, AcceptedWork DEF DeliverLate
<1>3. CASE ~CanRecord(run[m.run], m)
  BY <1>3, IgnoredWork DEF DeliverLate
<1>4. QED
  BY <1>2, <1>3

LEMMA ReportFailureWork ==
    ASSUME RunInv, WorkInv, TypeInv', NEW e \in Executors, ReportFailure(e)
    PROVE  WorkInv'
<1>1. PICK m : m = FailRequest(ex[e])
  OBVIOUS
<1>2. /\ m.run = ex[e].run /\ m.att = ex[e].act.attempt /\ m.by = m.att
      /\ m.status = "failed" /\ m.step = {}
  BY <1>1 DEF FailRequest
<1>3. Knows(ex[e], run[ex[e].run]) /\ ex[e].act.attempt # 0
  BY Actor DEF ReportFailure, ExecutorOK, RunInv, AttemptsKnown
<1>4. Sound(m) /\ Answerable(m, run[m.run])
  BY <1>2, <1>3 DEF Sound, Answerable, Knows
<1>5. m \in Request
  BY <1>1, Actor DEF FailRequest, Request, Statuses, ExecutorRecord, RunRecord
<1>6. ex' = [ex EXCEPT ![e] = Idle] /\ ex \in [Executors -> ExecutorRecord]
  BY Actor DEF ReportFailure
<1>7. \A f \in Executors : ex'[f] = ex[f] \/ ex'[f] = Idle
  BY <1>6
<1>8. UNCHANGED <<releases, head>>
  BY DEF ReportFailure
<1>9. CASE CanRecord(run[m.run], m) /\ Accept(m) /\ UNCHANGED late
  BY <1>4, <1>5, <1>7, <1>8, <1>9, IdleExecutor, AcceptedWork
<1>10. CASE UNCHANGED run /\ late' \in {late, late \cup {m}}
  BY <1>4, <1>7, <1>8, <1>10, IdleExecutor, IgnoredWork
<1>11. QED
  BY <1>1, <1>9, <1>10 DEF ReportFailure

LEMMA ThrowWork ==
    ASSUME RunInv, WorkInv, TypeInv', NEW e \in Executors, Throw(e)
    PROVE  WorkInv'
<1>1. PICK y : y = [ex[e] EXCEPT !.pc = "failing"]
  OBVIOUS
<1>2. /\ y.pc = "failing" /\ y.act = ex[e].act /\ y.own = ex[e].own /\ y.run = ex[e].run
  BY <1>1, Actor DEF ExecutorRecord
<1>3. Knows(ex[e], run[ex[e].run])
  BY Actor DEF Throw, ExecutorOK
<1>4. Knows(y, run[y.run])
  BY <1>2, <1>3 DEF Knows
<1>5. ExecutorOK(y, run[y.run], releases)
  BY <1>2, <1>4, Actor, QuietOK
<1>6. QED
  BY <1>1, <1>5, LocalWork DEF Throw, platform

LEMMA BeginWork ==
    ASSUME RunInv, WorkInv, TypeInv', NEW e \in Executors, Begin(e)
    PROVE  WorkInv'
<1>1. PICK targets, x :
         /\ targets = ReleaseTargets(ex[e].act.pkg, ex[e].prev, ex[e].force)
         /\ x = [ex[e] EXCEPT !.plan = targets, !.todo = StepsOf(targets)]
  OBVIOUS
<1>2. targets \in SUBSET Layers /\ StepsOf(targets) \in SUBSET Steps
  BY <1>1, PlanType
<1>3. /\ x \in ExecutorRecord /\ x.act = ex[e].act /\ x.run = ex[e].run /\ x.own = ex[e].own
      /\ x.plan = targets /\ x.todo = StepsOf(targets)
  BY <1>1, <1>2, Actor DEF ExecutorRecord
<1>4. Knows(ex[e], run[ex[e].run])
  BY Actor DEF Begin, ExecutorOK
<1>5. Knows(x, run[x.run])
  BY <1>3, <1>4 DEF Knows
<1>6. x.todo # {} => Ensure \in x.todo
  BY <1>3 DEF StepsOf
<1>7. PICK y : y = Send(x, Checkpoint(x, "preparing", {}, 0), "loop")
  OBVIOUS
<1>8. ExecutorOK(y, run[x.run], releases)
  BY <1>3, <1>5, <1>6, <1>7, Actor, SendOK DEF Statuses
<1>9. y.run = x.run
  BY <1>3, <1>7 DEF Send, ExecutorRecord
<1>10. ex' = [ex EXCEPT ![e] = y]
  BY <1>1, <1>7 DEF Begin
<1>11. QED
  BY <1>8, <1>9, <1>10, LocalWork DEF Begin, platform

(* Ensure comes first, Finalize last.                                       *)
LEMMA OrderOfSteps ==
    ASSUME NEW x, x.todo \in SUBSET Steps, x.todo # {}
    PROVE  /\ NextStep(x) \in x.todo
           /\ NextStep(x) # Ensure => Ensure \notin x.todo
           /\ NextStep(x) = Finalize => x.todo = {Finalize}
<1>1. NextStep(x) \in x.todo /\ \A t \in x.todo : NextStep(x) <= t
  BY FirstStepOfTodo
<1>2. \A t \in x.todo : t \in Nat /\ 0 <= t /\ t <= Finalize
  BY StepNumbers, StepsInNat
<1>3. Finalize \in Nat
  BY StepsInNat
<1>4. NextStep(x) # Ensure => Ensure \notin x.todo
  BY <1>1, <1>2 DEF Ensure
<1>5. ASSUME NextStep(x) = Finalize, NEW t \in x.todo PROVE t = Finalize
  BY <1>1, <1>2, <1>3, <1>5
<1>6. QED
  BY <1>1, <1>4, <1>5

(* An executor in the loop.                                                 *)
LEMMA InLoop ==
    ASSUME RunInv, WorkInv, NEW e \in Executors,
           ex[e].pc \in {"loop", "step", "capture", "activate", "verify"}
    PROVE  /\ Orderly(ex[e]) /\ Knows(ex[e], run[ex[e].run])
           /\ StepsOf(ex[e].plan) \ ex[e].todo \subseteq ex[e].act.done
           /\ ex[e].todo \in SUBSET Steps
<1>1. Orderly(ex[e]) /\ Knows(ex[e], run[ex[e].run])
  BY Actor DEF ExecutorOK, Working
<1>2. QED
  BY <1>1, Actor DEF Orderly, Asked, ExecutorRecord

LEMMA SkipStepWork ==
    ASSUME RunInv, WorkInv, TypeInv', NEW e \in Executors, SkipStep(e)
    PROVE  WorkInv'
<1>1. PICK x, s, rest :
         x = ex[e] /\ s = NextStep(x) /\ rest = [x EXCEPT !.todo = @ \ {s}]
  OBVIOUS
<1>2. /\ x \in ExecutorRecord /\ x.pc = "loop" /\ x.todo # {} /\ s \in x.act.done
      /\ Orderly(x) /\ Knows(x, run[x.run])
      /\ StepsOf(x.plan) \ x.todo \subseteq x.act.done
      /\ x.todo \in SUBSET Steps
  BY <1>1, Actor, InLoop DEF SkipStep, Skipped
<1>3. /\ rest \in ExecutorRecord
      /\ rest.pc = "loop" /\ rest.act = x.act /\ rest.run = x.run /\ rest.own = x.own
      /\ rest.plan = x.plan /\ rest.todo = x.todo \ {s} /\ rest.bound = x.bound
  BY <1>1, <1>2 DEF ExecutorRecord
<1>4. StepsOf(x.plan) \ rest.todo \subseteq x.act.done
  BY <1>2, <1>3
<1>5. ex' = [ex EXCEPT ![e] = IF s = Ensure THEN Replay(rest) ELSE rest]
  BY <1>1 DEF SkipStep
<1>6. UNCHANGED <<run, releases, head, late>>
  BY DEF SkipStep, platform
<1>7. CASE s = Ensure
  <2>1. PICK w : w = [rest EXCEPT !.bound = TRUE]
    OBVIOUS
  <2>2. /\ w \in ExecutorRecord
        /\ w.act = x.act /\ w.run = x.run /\ w.own = x.own
        /\ w.plan = x.plan /\ w.todo = rest.todo /\ w.bound = TRUE
    BY <1>3, <2>1 DEF ExecutorRecord
  <2>3. Replay(rest) = Send(w, Checkpoint(w, "preparing", {}, 0), "loop")
    BY <1>3, <2>1, <2>2 DEF Replay, Checkpoint
  <2>4. Knows(w, run[w.run])
    BY <1>2, <2>2 DEF Knows
  <2>5. ExecutorOK(Replay(rest), run[w.run], releases)
    <3>1. /\ run[w.run] \in RunRecord
          /\ w.own # 0 => w.own \in DOMAIN releases /\ releases[w.own].run = w.run
      BY <1>1, <2>2, Actor
    <3>2. StepsOf(w.plan) \ w.todo \subseteq w.act.done \cup {}
      BY <1>4, <2>2
    <3>3. "preparing" \in Statuses \cup {"same"} /\ {} \in SUBSET Steps /\ 0 \in Nat
      BY DEF Statuses
    <3>4. QED
      BY <2>2, <2>3, <2>4, <3>1, <3>2, <3>3, SendOK
  <2>6. Replay(rest).run = w.run
    BY <2>2, <2>3 DEF Send, ExecutorRecord
  <2>7. QED
    BY <1>5, <1>6, <1>7, <2>5, <2>6, LocalWork
<1>8. CASE s # Ensure
  <2>1. Ensure \notin x.todo /\ x.bound
    BY <1>1, <1>2, <1>8, OrderOfSteps DEF Orderly
  <2>2. Knows(rest, run[rest.run])
    BY <1>2, <1>3 DEF Knows
  <2>3. Orderly(rest)
    BY <1>3, <1>4, <2>1 DEF Orderly, Asked, Finalizing, Finished
  <2>4. Owns(rest, releases)
    BY <1>1, <1>3, Actor DEF Owns
  <2>5. ExecutorOK(rest, run[rest.run], releases)
    BY <1>3, <2>2, <2>3, <2>4 DEF ExecutorOK
  <2>6. QED
    BY <1>5, <1>6, <1>8, <2>5, LocalWork
<1>9. QED
  BY <1>7, <1>8

LEMMA StartStepWork ==
    ASSUME RunInv, WorkInv, TypeInv', NEW e \in Executors, StartStep(e)
    PROVE  WorkInv'
<1>1. PICK x : x = ex[e]
  OBVIOUS
<1>2. /\ x \in ExecutorRecord /\ x.pc = "loop" /\ x.todo # {} /\ NextStep(x) \notin x.act.done
      /\ Orderly(x) /\ Knows(x, run[x.run])
      /\ StepsOf(x.plan) \ x.todo \subseteq x.act.done
      /\ x.todo \in SUBSET Steps
  BY <1>1, Actor, InLoop DEF StartStep, Skipped
<1>3. UNCHANGED <<run, releases, head, late>>
  BY DEF StartStep, platform
<1>4. CASE NextStep(x) = Finalize
  <2>1. x.todo = {Finalize} /\ Ensure \notin x.todo
    BY <1>2, <1>4, OrderOfSteps, StepNumbers
  <2>2. PICK y : y = Send(x, Checkpoint(x, "activating", {}, 0), "capture")
    OBVIOUS
  <2>3. ExecutorOK(y, run[x.run], releases)
    BY <1>1, <1>2, <2>1, <2>2, Actor, SendOK DEF Statuses, Orderly
  <2>4. y.run = x.run
    BY <1>2, <2>2 DEF Send, ExecutorRecord
  <2>5. ex' = [ex EXCEPT ![e] = y]
    BY <1>1, <1>4, <2>2 DEF StartStep
  <2>6. QED
    BY <1>3, <2>3, <2>4, <2>5, LocalWork
<1>5. CASE NextStep(x) # Finalize
  <2>1. PICK y : y = [x EXCEPT !.pc = "step"]
    OBVIOUS
  <2>2. /\ y.pc = "step" /\ y.act = x.act /\ y.run = x.run /\ y.own = x.own
        /\ y.plan = x.plan /\ y.todo = x.todo /\ y.bound = x.bound
    BY <1>2, <2>1 DEF ExecutorRecord
  <2>3. NextStep(y) = NextStep(x)
    BY <2>2 DEF NextStep
  <2>4. Orderly(y)
    BY <1>2, <1>5, <2>2, <2>3 DEF Orderly, Asked, Finalizing, Finished
  <2>5. Knows(y, run[y.run])
    BY <1>2, <2>2 DEF Knows
  <2>6. Owns(y, releases)
    BY <1>1, <2>2, Actor DEF Owns
  <2>7. ExecutorOK(y, run[y.run], releases)
    BY <2>2, <2>4, <2>5, <2>6 DEF ExecutorOK
  <2>8. ex' = [ex EXCEPT ![e] = y]
    BY <1>1, <1>5, <2>1 DEF StartStep
  <2>9. QED
    BY <1>3, <2>7, <2>8, LocalWork
<1>6. QED
  BY <1>4, <1>5

LEMMA FailedWork ==
    ASSUME RunInv, WorkInv, NEW e \in Executors, NEW y,
           ex[e].pc \notin {"idle", "create"}, y = [ex[e] EXCEPT !.pc = "failing"]
    PROVE  /\ ExecutorOK(y, run[y.run], releases)
           /\ y.run = ex[e].run
<1>1. /\ y.pc = "failing" /\ y.act = ex[e].act /\ y.own = ex[e].own /\ y.run = ex[e].run
  BY Actor DEF ExecutorRecord
<1>2. Knows(ex[e], run[ex[e].run])
  BY Actor DEF ExecutorOK
<1>3. Knows(y, run[y.run])
  BY <1>1, <1>2 DEF Knows
<1>4. y.own # 0 => y.own \in DOMAIN releases /\ releases[y.own].run = y.run
  BY <1>1, Actor
<1>5. ExecutorOK(y, run[y.run], releases)
  BY <1>1, <1>3, <1>4 DEF ExecutorOK, Owns, Working
<1>6. QED
  BY <1>1, <1>5

LEMMA RunStepWork ==
    ASSUME RunInv, WorkInv, TypeInv', NEW e \in Executors, RunStep(e)
    PROVE  WorkInv'
<1>1. PICK x, s, w : /\ x = ex[e] /\ s = NextStep(x)
                     /\ w = [x EXCEPT !.todo = @ \ {s}, !.bound = (s = Ensure) \/ @]
  OBVIOUS
<1>2. /\ x \in ExecutorRecord /\ x.pc = "step" /\ x.todo # {} /\ s \notin x.act.done
      /\ Orderly(x) /\ Knows(x, run[x.run])
      /\ StepsOf(x.plan) \ x.todo \subseteq x.act.done
      /\ x.todo \in SUBSET Steps
  BY <1>1, Actor, InLoop DEF RunStep, Orderly, RunInv, TypeInv, StepPending
<1>3. UNCHANGED <<run, releases, head, late>>
  BY DEF RunStep
<1>4. s \in x.todo /\ s \in Steps /\ (s # Ensure => x.bound = TRUE)
  <2>1. s \in x.todo /\ (s # Ensure => Ensure \notin x.todo)
    BY <1>1, <1>2, OrderOfSteps
  <2>2. x.bound \in BOOLEAN
    BY <1>2 DEF ExecutorRecord
  <2>3. QED
    BY <1>2, <2>1, <2>2 DEF Orderly
<1>5. CASE HoldsLease(x)
  <2>1. /\ w \in ExecutorRecord
        /\ w.act = x.act /\ w.run = x.run /\ w.own = x.own
        /\ w.plan = x.plan /\ w.todo = x.todo \ {s}
        /\ w.bound = ((s = Ensure) \/ x.bound)
    BY <1>1, <1>2 DEF ExecutorRecord
  <2>2. StepDone(x, s) = Send(w, Checkpoint(w, "same", {s}, 0), "loop")
    BY <1>1, <2>1 DEF StepDone, Checkpoint
  <2>3. Knows(w, run[w.run])
    BY <1>2, <2>1 DEF Knows
  <2>4. w.bound
    BY <1>4, <2>1
  <2>5. \A l \in {s} \cap run[w.run].done \cap StagedLayers :
            w.act.attempt = run[w.run].attempt => run[w.run].child[l] = run[w.run].attempt
    BY <1>2, <2>1 DEF Knows
  <2>6. StepsOf(w.plan) \ w.todo \subseteq w.act.done \cup {s}
    BY <1>2, <2>1
  <2>7. run[w.run] \in RunRecord /\ (w.own # 0 => w.own \in DOMAIN releases /\ releases[w.own].run = w.run)
    BY <1>1, <2>1, Actor
  <2>8. ExecutorOK(StepDone(x, s), run[w.run], releases)
    <3>1. {s} \in SUBSET Steps
      BY <1>4
    <3>2. QED
      BY <2>1, <2>2, <2>3, <2>4, <2>5, <2>6, <2>7, <3>1, SendOK
  <2>9. StepDone(x, s).run = w.run
    BY <2>1, <2>2 DEF Send, ExecutorRecord
  <2>10. ex' = [ex EXCEPT ![e] = StepDone(x, s)]
    BY <1>1, <1>5 DEF RunStep
  <2>11. QED
    BY <1>3, <2>8, <2>9, <2>10, LocalWork
<1>6. CASE ~HoldsLease(x)
  <2>1. PICK y : y = [x EXCEPT !.pc = "failing"]
    OBVIOUS
  <2>2. ex' = [ex EXCEPT ![e] = y]
    BY <1>1, <1>6, <2>1 DEF RunStep, StepFailed
  <2>3. ExecutorOK(y, run[y.run], releases)
    BY <1>1, <1>2, <2>1, FailedWork
  <2>4. QED
    BY <1>3, <2>2, <2>3, LocalWork
<1>7. QED
  BY <1>5, <1>6

LEMMA CaptureAppWork ==
    ASSUME RunInv, WorkInv, TypeInv', NEW e \in Executors, CaptureApp(e)
    PROVE  WorkInv'
<1>1. PICK x : x = ex[e]
  OBVIOUS
<1>2. /\ x \in ExecutorRecord /\ x.pc = "capture" /\ Orderly(x) /\ Knows(x, run[x.run])
      /\ UNCHANGED <<run, releases, head, late>>
  BY <1>1, Actor, InLoop DEF CaptureApp, platform
<1>3. CASE ~ScopeMatches(x) \/ AlreadyActive(x)
  <2>1. PICK y : y = [x EXCEPT !.pc = "failing"]
    OBVIOUS
  <2>2. ExecutorOK(y, run[y.run], releases)
    BY <1>1, <1>2, <2>1, FailedWork
  <2>3. ex' = [ex EXCEPT ![e] = y]
    BY <1>1, <1>3, <2>1 DEF CaptureApp
  <2>4. QED
    BY <1>2, <2>2, <2>3, LocalWork
<1>4. CASE ScopeMatches(x) /\ ~AlreadyActive(x)
  <2>1. PICK y : y = [x EXCEPT !.pc = "activate", !.parent = head]
    OBVIOUS
  <2>2. /\ y.pc = "activate" /\ y.act = x.act /\ y.run = x.run /\ y.own = x.own
        /\ y.plan = x.plan /\ y.todo = x.todo /\ y.bound = x.bound
    BY <1>2, <2>1 DEF ExecutorRecord
  <2>3. ScopeMatches(y)
    BY <1>4, <2>2 DEF ScopeMatches, StagedChildren
  <2>4. Orderly(y)
    BY <1>2, <2>2, <2>3 DEF Orderly, Asked, Finalizing, Finished
  <2>5. Knows(y, run[y.run])
    BY <1>2, <2>2 DEF Knows
  <2>6. Owns(y, releases)
    BY <1>1, <2>2, Actor DEF Owns
  <2>7. ExecutorOK(y, run[y.run], releases)
    BY <2>2, <2>4, <2>5, <2>6 DEF ExecutorOK
  <2>8. ex' = [ex EXCEPT ![e] = y]
    BY <1>1, <1>4, <2>1 DEF CaptureApp
  <2>9. QED
    BY <1>2, <2>7, <2>8, LocalWork
<1>5. QED
  BY <1>3, <1>4

(* Every staged layer of the plan has its child when app-finalize runs.     *)
LEMMA ChildrenOfPlan ==
    ASSUME NEW x \in ExecutorRecord, x.todo = {Finalize}, ScopeMatches(x),
           StepsOf(x.plan) \ x.todo \subseteq x.act.done, Consistent(x.act)
    PROVE  StagedChildren(x) = x.plan \cap StagedLayers
<1>1. x.plan \subseteq Layers /\ StagedChildren(x) \subseteq StagedLayers
  BY DEF ExecutorRecord, StagedChildren
<1>2. ASSUME StagedChildren(x) = {}, NEW l \in x.plan \cap StagedLayers PROVE FALSE
  <2>1. l \in StepsOf(x.plan)
    BY <1>2 DEF StepsOf
  <2>2. l # Finalize
    BY <1>1, StepNumbers
  <2>3. l \in x.act.done
    BY <2>1, <2>2
  <2>4. x.act.child[l] # 0
    BY <1>2, <2>3 DEF Consistent
  <2>5. QED
    BY <1>2, <2>4 DEF StagedChildren
<1>3. QED
  BY <1>2 DEF ScopeMatches

LEMMA ActivateAppWork ==
    ASSUME RunInv, WorkInv, TypeInv', NEW e \in Executors, ActivateApp(e)
    PROVE  WorkInv'
<1>1. PICK x, n : x = ex[e] /\ n = Len(releases) + 1
  OBVIOUS
<1>2. /\ x \in ExecutorRecord /\ x.pc = "activate" /\ Orderly(x) /\ Knows(x, run[x.run])
      /\ StepsOf(x.plan) \ x.todo \subseteq x.act.done
      /\ x.run \in Runs /\ run[x.run] \in RunRecord
      /\ UNCHANGED <<run, late>>
  BY <1>1, Actor, InLoop DEF ActivateApp
<1>3. x.todo = {Finalize} /\ ScopeMatches(x)
  BY <1>2 DEF Orderly, Finalizing
<1>4. CASE HoldsLease(x) /\ head = x.parent
  <2>1. PICK root, w :
           /\ root = [run |-> x.run, children |-> StagedChildren(x), plan |-> x.plan]
           /\ w = [x EXCEPT !.todo = @ \ {Finalize}, !.own = n]
    OBVIOUS
  <2>2. /\ releases \in Seq([run : Runs, children : SUBSET Layers, plan : SUBSET Layers])
        /\ n \in Nat /\ n # 0
    BY <1>1 DEF RunInv, TypeInv, TypeOK
  <2>3. PICK rels : rels = Append(releases, root)
    OBVIOUS
  <2>4. releases' = rels /\ head' = n
    BY <1>1, <1>4, <2>1, <2>3 DEF ActivateApp
  <2>5. root \in [run : Runs, children : SUBSET Layers, plan : SUBSET Layers]
    BY <1>2, <2>1 DEF StagedChildren, StagedLayers, ExecutorRecord
  <2>6. /\ Len(rels) = n /\ DOMAIN rels = 1..n
        /\ \A i \in DOMAIN releases : i \in DOMAIN rels /\ rels[i] = releases[i]
        /\ \A i \in DOMAIN rels : i # n => i \in DOMAIN releases
        /\ rels[n] = root /\ n \in DOMAIN rels
    BY <1>1, <2>2, <2>3, <2>5
  <2>7. /\ w \in ExecutorRecord /\ w.act = x.act /\ w.run = x.run /\ w.plan = x.plan
        /\ w.todo = {} /\ w.own = n
    BY <1>2, <1>3, <2>1, <2>2 DEF ExecutorRecord
  <2>8. PICK y : y = Send(w, Checkpoint(w, "same", {Finalize}, n), "loop")
    OBVIOUS
  <2>9. ex' = [ex EXCEPT ![e] = y]
    <3>1. Checkpoint(w, "same", {Finalize}, n) = Checkpoint(x, "same", {Finalize}, n)
      BY <2>7 DEF Checkpoint
    <3>2. QED
      BY <1>1, <1>4, <2>1, <2>8, <3>1 DEF ActivateApp
  <2>10. ExecutorOK(y, run[w.run], rels)
    <3>1. Knows(w, run[w.run]) /\ run[w.run] \in RunRecord
      BY <1>2, <2>7 DEF Knows
    <3>2. StepsOf(w.plan) \ w.todo \subseteq w.act.done \cup {Finalize}
      BY <1>2, <1>3, <2>7
    <3>3. {Finalize} \cap run[w.run].done \cap StagedLayers = {}
      BY StepNumbers
    <3>4. w.own # 0 => w.own \in DOMAIN rels /\ rels[w.own].run = w.run
      BY <2>1, <2>6, <2>7
    <3>5. {Finalize} \in SUBSET Steps
      BY StepsInNat
    <3>6. QED
      BY <2>2, <2>7, <2>8, <3>1, <3>2, <3>3, <3>4, <3>5, SendOK
  <2>11. y.run = w.run
    BY <2>7, <2>8 DEF Send, ExecutorRecord
  <2>12. StagedChildren(x) = x.plan \cap StagedLayers
    BY <1>2, <1>3, ChildrenOfPlan DEF Knows
  <2>13. ManifestCoversPlan'
    BY <2>1, <2>4, <2>6, <2>12 DEF ManifestCoversPlan, WorkInv
  <2>14. ex'[e] = y /\ \A f \in Executors : f # e => ex'[f] = ex[f]
    BY <2>9, Actor
  <2>15. RecordsOK' /\ \A r \in Runs : Evolves(run[r], run'[r])
    BY <1>2, NoRunEvolves
  <2>16. ExecutorOK(ex'[e], run'[ex'[e].run], releases')
    BY <1>2, <2>4, <2>10, <2>11, <2>14
  <2>17. QED
    BY <1>2, <2>4, <2>6, <2>13, <2>14, <2>15, <2>16, WorkStep
<1>5. CASE ~(HoldsLease(x) /\ head = x.parent)
  <2>1. PICK y : y = [x EXCEPT !.pc = "failing"]
    OBVIOUS
  <2>2. ExecutorOK(y, run[y.run], releases)
    BY <1>1, <1>2, <2>1, FailedWork
  <2>3. ex' = [ex EXCEPT ![e] = y] /\ UNCHANGED <<releases, head>>
    BY <1>1, <1>5, <2>1 DEF ActivateApp
  <2>4. QED
    BY <1>2, <2>2, <2>3, LocalWork
<1>6. QED
  BY <1>4, <1>5

LEMMA FinishStepsWork ==
    ASSUME RunInv, WorkInv, TypeInv', NEW e \in Executors, FinishSteps(e)
    PROVE  WorkInv'
<1>1. PICK x : x = ex[e]
  OBVIOUS
<1>2. /\ x \in ExecutorRecord /\ x.pc = "loop" /\ x.todo = {}
      /\ Orderly(x) /\ Knows(x, run[x.run])
      /\ StepsOf(x.plan) \ x.todo \subseteq x.act.done \cup {}
      /\ run[x.run] \in RunRecord
      /\ x.own # 0 => x.own \in DOMAIN releases /\ releases[x.own].run = x.run
  BY <1>1, Actor, InLoop DEF FinishSteps
<1>3. UNCHANGED <<run, releases, head, late>>
  BY DEF FinishSteps, platform
<1>4. CASE x.act.status = "verifying"
  <2>1. PICK y : y = [x EXCEPT !.pc = "verify"]
    OBVIOUS
  <2>2. /\ y.pc = "verify" /\ y.act = x.act /\ y.run = x.run /\ y.own = x.own
        /\ y.plan = x.plan /\ y.todo = x.todo /\ y.bound = x.bound
    BY <1>2, <2>1 DEF ExecutorRecord
  <2>3. Orderly(y)
    BY <1>2, <2>2 DEF Orderly, Asked, Finalizing, Finished
  <2>4. Knows(y, run[y.run])
    BY <1>2, <2>2 DEF Knows
  <2>5. Owns(y, releases)
    BY <1>2, <2>2 DEF Owns
  <2>6. ExecutorOK(y, run[y.run], releases)
    BY <2>2, <2>3, <2>4, <2>5 DEF ExecutorOK
  <2>7. ex' = [ex EXCEPT ![e] = y]
    BY <1>1, <1>4, <2>1 DEF FinishSteps
  <2>8. QED
    BY <1>3, <2>6, <2>7, LocalWork
<1>5. ASSUME NEW status \in {"verifying", "activating"}, NEW n \in {"verify", "loop"},
             ex' = [ex EXCEPT ![e] = Send(x, Checkpoint(x, status, {}, 0), n)]
      PROVE  WorkInv'
  <2>1. PICK y : y = Send(x, Checkpoint(x, status, {}, 0), n)
    OBVIOUS
  <2>2. ExecutorOK(y, run[x.run], releases)
    <3>1. status \in Statuses \cup {"same"} /\ {} \in SUBSET Steps /\ 0 \in Nat
          /\ status # "succeeded"
      BY DEF Statuses
    <3>2. QED
      BY <1>2, <2>1, <3>1, SendOK
  <2>3. y.run = x.run
    BY <1>2, <2>1 DEF Send, ExecutorRecord
  <2>4. QED
    BY <1>3, <1>5, <2>1, <2>2, <2>3, LocalWork
<1>6. QED
  BY <1>1, <1>4, <1>5 DEF FinishSteps

LEMMA VerifyActivationWork ==
    ASSUME RunInv, WorkInv, TypeInv', NEW e \in Executors, VerifyActivation(e)
    PROVE  WorkInv'
<1>1. PICK x : x = ex[e]
  OBVIOUS
<1>2. /\ x \in ExecutorRecord /\ x.pc = "verify" /\ x.todo = {}
      /\ Orderly(x) /\ Knows(x, run[x.run])
      /\ StepsOf(x.plan) \ x.todo \subseteq x.act.done \cup {}
      /\ run[x.run] \in RunRecord
      /\ x.own # 0 => x.own \in DOMAIN releases /\ releases[x.own].run = x.run
  BY <1>1, Actor, InLoop DEF VerifyActivation, Orderly, Finished
<1>3. UNCHANGED <<run, releases, head, late>>
  BY DEF VerifyActivation, platform
<1>4. CASE ExpectedRelease(x) # 0 /\ head # 0 /\ ExpectedRelease(x) # head
  <2>1. PICK y : y = [x EXCEPT !.pc = "failing"]
    OBVIOUS
  <2>2. ExecutorOK(y, run[y.run], releases)
    BY <1>1, <1>2, <2>1, FailedWork
  <2>3. ex' = [ex EXCEPT ![e] = y]
    BY <1>1, <1>4, <2>1 DEF VerifyActivation
  <2>4. QED
    BY <1>3, <2>2, <2>3, LocalWork
<1>5. CASE ~(ExpectedRelease(x) # 0 /\ head # 0 /\ ExpectedRelease(x) # head)
  <2>1. PICK rel, y : /\ rel = (IF head # 0 THEN head ELSE ExpectedRelease(x))
                      /\ y = Send(x, Checkpoint(x, "succeeded", {}, rel), "returned")
    OBVIOUS
  <2>2. rel \in Nat
    BY <1>2, <2>1 DEF RunInv, TypeInv, TypeOK, ExpectedRelease, ExecutorRecord
  <2>3. x.own # 0 => rel = x.own
    BY <1>5, <2>1 DEF ExpectedRelease
  <2>4. ExecutorOK(y, run[x.run], releases)
    <3>1. "succeeded" \in Statuses \cup {"same"} /\ {} \in SUBSET Steps
      BY DEF Statuses
    <3>2. QED
      BY <1>2, <2>1, <2>2, <2>3, <3>1, SendOK
  <2>5. y.run = x.run
    BY <1>2, <2>1 DEF Send, ExecutorRecord
  <2>6. ex' = [ex EXCEPT ![e] = y]
    BY <1>1, <1>5, <2>1 DEF VerifyActivation
  <2>7. QED
    BY <1>3, <2>4, <2>5, <2>6, LocalWork
<1>6. QED
  BY <1>4, <1>5

LEMMA InitWorkInv == Init => WorkInv
<1> SUFFICES ASSUME Init PROVE WorkInv
  OBVIOUS
<1>1. \A r \in Runs : run[r].status = "absent" /\ run[r].attempt = 0 /\ run[r].done = {}
                      /\ \A l \in Layers : run[r].child[l] = 0
  BY DEF Init, AbsentRun
<1>2. RecordsOK
  BY <1>1, StepNumbers DEF RecordsOK, Consistent
<1>3. \A e \in Executors : ExecutorOK(ex[e], run[ex[e].run], releases)
  BY IdleExecutor DEF Init
<1>4. late = {} /\ releases = <<>> /\ head = 0
  BY DEF Init
<1>5. QED
  BY <1>2, <1>3, <1>4 DEF WorkInv, ManifestCoversPlan

LEMMA NextWorkInv == RunInv /\ WorkInv /\ [Next]_vars => WorkInv'
<1> SUFFICES ASSUME RunInv, WorkInv, [Next]_vars PROVE WorkInv'
  OBVIOUS
<1>1. TypeInv'
  BY NextType DEF RunInv
<1>2. ASSUME NEW e \in Executors, Command(e) PROVE WorkInv'
  BY <1>1, <1>2, CommandWork
<1>3. ASSUME NEW e \in Executors, Progress(e) PROVE WorkInv'
  BY <1>1, <1>3, CreateRunWork, RequestRunRetryWork, ReadPreviousWork, BeginWork, RespondWork,
     SkipStepWork, StartStepWork, RunStepWork, CaptureAppWork, ActivateAppWork,
     FinishStepsWork, VerifyActivationWork, ReportFailureWork, StopWork DEF Progress
<1>4. ASSUME NEW e \in Executors, Fault(e) PROVE WorkInv'
  BY <1>1, <1>4, AnswerLostWork, ResendWork, ThrowWork, StopWork DEF Fault
<1>5. ASSUME NEW m \in late, DeliverLate(m) PROVE WorkInv'
  BY <1>1, <1>5, DeliverLateWork
<1>6. CASE LeaseExpires
  BY <1>1, <1>6, IgnoredWork DEF LeaseExpires
<1>7. CASE UNCHANGED vars
  BY <1>1, <1>7, IgnoredWork DEF vars
<1>8. QED
  BY <1>2, <1>3, <1>4, <1>5, <1>6, <1>7 DEF Next

LEMMA WorkInvariant == Spec => [](RunInv /\ WorkInv)
<1>1. Init => RunInv /\ WorkInv
  BY InitRunInv, InitWorkInv
<1>2. RunInv /\ WorkInv /\ [Next]_vars => (RunInv /\ WorkInv)'
  BY NextRunInv, NextWorkInv
<1>3. QED
  BY <1>1, <1>2, PTL DEF Spec

(* However a run was cut into attempts and spread over machines, the root   *)
(* that app-finalize activates names every child that its plan has.         *)
THEOREM RootsComplete == Spec => []ManifestCoversPlan
<1>1. WorkInv => ManifestCoversPlan
  BY DEF WorkInv
<1>2. QED
  BY <1>1, WorkInvariant, PTL

(* A machine that runs a step or finalizes has the local form bindings: the *)
(* replay of a form-ensure that another machine completed cannot be missed. *)
THEOREM BindingsReplayed == Spec => []BindingsBeforeUse
<1>1. ASSUME RunInv, WorkInv PROVE BindingsBeforeUse
  <2> SUFFICES ASSUME NEW e \in Executors,
                      \/ ex[e].pc \in {"capture", "activate"}
                      \/ ex[e].pc = "step" /\ NextStep(ex[e]) # Ensure
               PROVE  ex[e].bound
    BY DEF BindingsBeforeUse
  <2>1. Orderly(ex[e]) /\ ex[e].todo \in SUBSET Steps
    BY <1>1, InLoop
  <2>2. CASE ex[e].pc \in {"capture", "activate"}
    BY <2>1, <2>2, StepNumbers DEF Orderly, Finalizing
  <2>3. CASE ex[e].pc = "step" /\ NextStep(ex[e]) # Ensure
    <3>1. ex[e].todo # {}
      BY <1>1, <2>3 DEF RunInv, TypeInv, StepPending
    <3>2. Ensure \notin ex[e].todo
      BY <2>1, <2>3, <3>1, OrderOfSteps
    <3>3. QED
      BY <2>1, <3>1, <3>2 DEF Orderly
  <2>4. QED
    BY <2>2, <2>3
<1>2. QED
  BY <1>1, WorkInvariant, PTL

(* An executor that activated an App Release and reports success reports    *)
(* the one it activated, whatever other runs activate meanwhile.            *)
THEOREM ReportsOwnRelease == Spec => []VerifiedReleaseIsOwn
<1>1. ASSUME RunInv, WorkInv PROVE VerifiedReleaseIsOwn
  <2>1. ASSUME NEW e \in Executors, ex[e].own # 0, ex[e].pc \in {"await", "returned"},
               ex[e].req.status = "succeeded"
        PROVE  releases[ex[e].req.rel].run = ex[e].run
    BY <1>1, <2>1, Actor DEF ExecutorOK, Owns
  <2>2. QED
    BY <2>1 DEF VerifiedReleaseIsOwn
<1>2. QED
  BY <1>1, WorkInvariant, PTL

-----------------------------------------------------------------------------
(* One package on its own.  As long as no other package is deployed and     *)
(* nothing is rolled back, all executors work on one run, against the base  *)
(* package, and the layers that differ are the plan of each of them.        *)

SoleRun(p) == Packages = {p} /\ Rollbacks = {}

Changed(p) == { l \in Layers : Content[p][l] # Content[Base][l] }

(* What a request claims is so before it is accepted: success only after    *)
(* all steps of the plan, app-finalize only after a root was activated.     *)
Backed(p, m, rec, rels) ==
    /\ m.status = "succeeded" => StepsOf(Changed(p)) \subseteq rec.done
    /\ Finalize \in m.step => rels # <<>>

SoleRecord(p, rec, rels) ==
    /\ rec.pkg = p
    /\ rec.status = "succeeded" => StepsOf(Changed(p)) \subseteq rec.done
    /\ Finalize \in rec.done => rels # <<>>

SoleExecutor(p, x, rec, rels) ==
    /\ x.pc # "idle" => x.act.pkg = p
    /\ x.force = FALSE
    /\ x.prev = Base \/ (rec.status = "succeeded" /\ x.pc \in {"create", "returned"})
    /\ x.pc \in Working => x.plan = Changed(p)
    /\ x.pc = "await" => Backed(p, x.req, rec, rels)
    /\ x.pc = "activate" => x.parent = 0 \/ Changed(p) \cap StagedLayers = {}

(* Once a root is active, so are the children that the run has recorded:    *)
(* whoever captures again finds a child that is active already.             *)
Rooted(p, rec, rels, lv) ==
    rels # <<>> => \A l \in Changed(p) \cap StagedLayers :
                      l \in rec.done /\ lv[l] = <<p, rec.child[l]>>

InPlace(p, eff, lv) == \A l \in DirectLayers \cap eff[p] : lv[l][1] = p

SoleInv(p) ==
    /\ SoleRecord(p, run[p], releases)
    /\ \A m \in late : Backed(p, m, run[p], releases)
    /\ \A e \in Executors : SoleExecutor(p, ex[e], run[p], releases)
    /\ Rooted(p, run[p], releases, live)
    /\ InPlace(p, effects, live)
    /\ Changed(p) \cap StagedLayers # {} => Len(releases) <= 1

LEMMA SoleRunFacts ==
    ASSUME NEW p, SoleRun(p)
    PROVE  p \in Packages /\ p \in Runs /\ Runs = {p} /\ p # Base
BY ConstantsAssumption DEF SoleRun, Runs

LEMMA BackedStays ==
    ASSUME NEW p, NEW m, NEW rec, NEW rec2, NEW rels, NEW rels2,
           Backed(p, m, rec, rels), Evolves(rec, rec2), rels # <<>> => rels2 # <<>>
    PROVE  Backed(p, m, rec2, rels2)
BY DEF Backed, Evolves

LEMMA SoleExecutorStays ==
    ASSUME NEW p, NEW x, NEW rec, NEW rec2, NEW rels, NEW rels2,
           SoleExecutor(p, x, rec, rels), Evolves(rec, rec2),
           rec.status = "succeeded" => rec2.status = "succeeded",
           rels # <<>> => rels2 # <<>>
    PROVE  SoleExecutor(p, x, rec2, rels2)
<1>1. x.pc = "await" => Backed(p, x.req, rec2, rels2)
  BY BackedStays DEF SoleExecutor
<1>2. QED
  BY <1>1 DEF SoleExecutor

LEMMA RootedStays ==
    ASSUME NEW p, NEW rec \in RunRecord, NEW rec2 \in RunRecord, NEW rels, NEW lv,
           Rooted(p, rec, rels, lv), Evolves(rec, rec2)
    PROVE  Rooted(p, rec2, rels, lv)
BY DEF Rooted, Evolves

(* What a step must show.                                                   *)
LEMMA SoleStep ==
    ASSUME NEW p, SoleRun(p), SoleInv(p),
           Evolves(run[p], run'[p]),
           run[p].status = "succeeded" => run'[p].status = "succeeded",
           SoleRecord(p, run'[p], releases'),
           releases # <<>> => releases' # <<>>,
           \A m \in late' : m \in late \/ Backed(p, m, run'[p], releases'),
           \A f \in Executors :
              ex'[f] = ex[f] \/ SoleExecutor(p, ex'[f], run'[p], releases'),
           Rooted(p, run'[p], releases', live'), InPlace(p, effects', live'),
           Changed(p) \cap StagedLayers # {} => Len(releases') <= 1
    PROVE  SoleInv(p)'
<1>1. \A m \in late' : Backed(p, m, run'[p], releases')
  BY BackedStays DEF SoleInv
<1>2. ASSUME NEW f \in Executors PROVE SoleExecutor(p, ex'[f], run'[p], releases')
  <2>1. SoleExecutor(p, ex[f], run'[p], releases')
    BY SoleExecutorStays DEF SoleInv
  <2>2. QED
    BY <2>1
<1>3. QED
  BY <1>1, <1>2 DEF SoleInv

LEMMA SoleLocal ==
    ASSUME NEW p, SoleRun(p), RunInv, WorkInv, SoleInv(p), NEW e \in Executors, NEW y,
           ex' = [ex EXCEPT ![e] = y], SoleExecutor(p, y, run[p], releases),
           UNCHANGED <<run, releases, live, effects>>,
           \A m \in late' : m \in late \/ Backed(p, m, run[p], releases)
    PROVE  SoleInv(p)'
<1>1. ex'[e] = y /\ \A f \in Executors : f # e => ex'[f] = ex[f]
  BY Actor
<1>2. Evolves(run[p], run'[p])
  BY SoleRunFacts, NoRunEvolves
<1>3. /\ SoleRecord(p, run'[p], releases') /\ Rooted(p, run'[p], releases', live')
      /\ InPlace(p, effects', live')
      /\ (Changed(p) \cap StagedLayers # {} => Len(releases') <= 1)
  BY DEF SoleInv
<1>4. QED
  BY <1>1, <1>2, <1>3, SoleStep

(* An accepted request: the run takes over what the request claims.         *)
LEMMA SoleAccept ==
    ASSUME NEW p, SoleRun(p), RunInv, WorkInv, SoleInv(p), NEW m \in Request,
           Sound(m), Answerable(m, run[m.run]), CanRecord(run[m.run], m), Accept(m),
           Backed(p, m, run[p], releases), UNCHANGED <<releases, live, effects>>,
           TypeInv'
    PROVE  /\ Evolves(run[p], run'[p])
           /\ run[p].status = "succeeded" => run'[p].status = "succeeded"
           /\ SoleRecord(p, run'[p], releases')
           /\ Rooted(p, run'[p], releases', live') /\ InPlace(p, effects', live')
           /\ Changed(p) \cap StagedLayers # {} => Len(releases') <= 1
<1>1. m.run = p /\ p \in Runs
  BY SoleRunFacts DEF Request
<1>2. /\ run[p] \in RunRecord /\ run'[p] \in RunRecord /\ run'[p] = Record(run[p], m)
  BY <1>1 DEF RunInv, TypeInv, TypeOK, Accept
<1>3. Evolves(run[p], run'[p]) /\ (run[p].status = "succeeded" => run'[p].status = "succeeded")
  BY <1>1, AcceptEvolves, AcceptSound
<1>4. SoleRecord(p, run'[p], releases')
  <2>1. SoleRecord(p, run[p], releases)
    BY DEF SoleInv
  <2>2. CASE run[p].status = "succeeded"
    BY <1>2, <2>1, <2>2 DEF Record
  <2>3. CASE run[p].status # "succeeded"
    <3>1. PICK rec : rec = Record(run[p], m)
      OBVIOUS
    <3>2. /\ rec.pkg = run[p].pkg /\ rec.done = run[p].done \cup m.step
          /\ (rec.status = "succeeded" => m.status = "succeeded")
      BY <1>2, <2>3, <3>1 DEF Record, RunRecord
    <3>3. QED
      BY <1>2, <2>1, <3>1, <3>2 DEF SoleRecord, Backed
  <2>4. QED
    BY <2>2, <2>3
<1>5. Rooted(p, run'[p], releases', live')
  BY <1>2, <1>3, RootedStays DEF SoleInv
<1>6. InPlace(p, effects', live') /\ (Changed(p) \cap StagedLayers # {} => Len(releases') <= 1)
  BY DEF SoleInv
<1>7. QED
  BY <1>3, <1>4, <1>5, <1>6

(* What is known of the executor that acts.                                 *)
LEMMA SoleActor ==
    ASSUME NEW p, SoleRun(p), RunInv, WorkInv, SoleInv(p), NEW e \in Executors
    PROVE  /\ ex[e] \in ExecutorRecord /\ ex[e].run = p
           /\ ex \in [Executors -> ExecutorRecord]
           /\ run[p] \in RunRecord /\ run[p].pkg = p
           /\ SoleExecutor(p, ex[e], run[p], releases)
           /\ ex[e].pc \notin {"idle", "create"} => ex[e].act.done \subseteq run[p].done
BY SoleRunFacts, Actor DEF SoleInv, SoleRecord, ExecutorOK, Knows

LEMMA SoleSend ==
    ASSUME NEW p, NEW x \in ExecutorRecord, NEW rec, NEW rels, NEW m, NEW n,
           x.act.pkg = p, x.force = FALSE, x.prev = Base, x.plan = Changed(p),
           Backed(p, m, rec, rels)
    PROVE  SoleExecutor(p, Send(x, m, n), rec, rels)
<1>1. PICK y : y = Send(x, m, n)
  OBVIOUS
<1>2. /\ y.pc = "await" /\ y.req = m /\ y.act = x.act /\ y.force = x.force
      /\ y.prev = x.prev /\ y.plan = x.plan
  BY <1>1 DEF Send, ExecutorRecord
<1>3. QED
  BY <1>1, <1>2 DEF SoleExecutor

(* A request of the loop that neither reports success nor app-finalize.     *)
LEMMA PlainBacked ==
    ASSUME NEW p, NEW x, NEW rec, NEW rels, NEW status, NEW step, NEW rel,
           status # "succeeded", Finalize \notin step
    PROVE  Backed(p, Checkpoint(x, status, step, rel), rec, rels)
BY DEF Backed, Checkpoint

LEMMA SoleSuccessful ==
    ASSUME NEW p, SoleRun(p), RunInv, WorkInv, SoleInv(p)
    PROVE  /\ LatestSuccessfulRun({}) = Base \/ run[p].status = "succeeded"
           /\ LatestSuccessfulRun({p}) = Base
<1>1. \A i \in DOMAIN created : created[i] = p
  BY SoleRunFacts DEF RunInv, TypeInv, TypeOK
<1>2. QED
  BY <1>1 DEF LatestSuccessfulRun

LEMMA SoleCommand ==
    ASSUME NEW p, SoleRun(p), RunInv, WorkInv, SoleInv(p), NEW e \in Executors, Command(e)
    PROVE  SoleInv(p)'
<1>1. UNCHANGED <<run, releases, live, effects, late>>
  BY DEF Command, Deploy, Rollback, Retry, platform
<1>2. CASE Deploy(e, p)
  <2>1. PICK y : y = [Idle EXCEPT !.pc = "create", !.run = p, !.act = AbsentRun(p),
                                  !.prev = LatestSuccessfulRun({})]
    OBVIOUS
  <2>2. /\ y.pc = "create" /\ y.act = AbsentRun(p) /\ y.prev = LatestSuccessfulRun({})
        /\ y.force = FALSE
    BY <2>1 DEF Idle
  <2>3. y.act.pkg = p
    BY <2>2 DEF AbsentRun
  <2>4. SoleExecutor(p, y, run[p], releases)
    BY <2>2, <2>3, SoleSuccessful DEF SoleExecutor, Working
  <2>5. ex' = [ex EXCEPT ![e] = y]
    BY <1>2, <2>1 DEF Deploy
  <2>6. QED
    BY <1>1, <2>4, <2>5, SoleLocal
<1>3. CASE Retry(e, p)
  <2>1. PICK y : y = [Idle EXCEPT !.run = p, !.act = run[p],
                               !.pc = IF run[p].status = "succeeded" THEN "returned"
                                      ELSE "retry",
                               !.next = "previous"]
    OBVIOUS
  <2>2. /\ y.act = run[p] /\ y.pc \in {"retry", "returned"} /\ y.force = FALSE /\ y.prev = Base
    BY <2>1 DEF Idle
  <2>3. SoleExecutor(p, y, run[p], releases)
    BY <2>2, SoleActor DEF SoleExecutor, Working
  <2>4. ex' = [ex EXCEPT ![e] = y]
    BY <1>3, <2>1 DEF Retry
  <2>5. QED
    BY <1>1, <2>3, <2>4, SoleLocal
<1>4. QED
  BY <1>2, <1>3, SoleRunFacts DEF Command, SoleRun

LEMMA SoleIdle ==
    ASSUME NEW p, NEW rec, NEW rels
    PROVE  SoleExecutor(p, Idle, rec, rels)
BY DEF SoleExecutor, Idle, Working

LEMMA SoleStop ==
    ASSUME NEW p, SoleRun(p), RunInv, WorkInv, SoleInv(p), NEW e \in Executors,
           Crash(e) \/ Return(e)
    PROVE  SoleInv(p)'
<1>1. ex' = [ex EXCEPT ![e] = Idle] /\ UNCHANGED <<run, releases, live, effects, late>>
  BY DEF Crash, Return, platform
<1>2. QED
  BY <1>1, SoleIdle, SoleLocal

LEMMA SoleCreateRun ==
    ASSUME NEW p, SoleRun(p), RunInv, WorkInv, SoleInv(p), TypeInv', NEW e \in Executors,
           CreateRun(e)
    PROVE  SoleInv(p)'
<1>1. /\ ex[e] \in ExecutorRecord /\ ex[e].run = p /\ ex[e].pc = "create"
      /\ run[p] \in RunRecord /\ run[p].pkg = p
      /\ SoleExecutor(p, ex[e], run[p], releases)
      /\ UNCHANGED <<releases, live, effects, late>> /\ p \in Runs
      /\ ex \in [Executors -> ExecutorRecord] /\ run \in [Runs -> RunRecord]
  BY SoleActor, SoleRunFacts DEF CreateRun, RunInv, TypeInv, TypeOK
<1>2. CASE run[p].status = "absent" /\ lease = NoLease
  <2>1. PICK rec : rec = [AbsentRun(ex[e].act.pkg) EXCEPT
                             !.status = "packaged", !.attempt = 1, !.writer = 1]
    OBVIOUS
  <2>2. /\ run' = [run EXCEPT ![p] = rec]
        /\ ex' = [ex EXCEPT ![e] = [@ EXCEPT !.act = run'[p], !.pc = "begin"]]
    BY <1>1, <1>2, <2>1 DEF CreateRun
  <2>3. run'[p] = rec /\ rec \in RunRecord
    BY <1>1, <2>2 DEF TypeInv, TypeOK
  <2>4. /\ rec.pkg = p /\ rec.status = "packaged" /\ rec.done = {} /\ rec.attempt = 1
    BY <1>1, <2>1 DEF AbsentRun, SoleExecutor
  <2>5. run[p].attempt = 0 /\ run[p].done = {}
    BY <1>1, <1>2 DEF WorkInv, RecordsOK
  <2>6. Evolves(run[p], rec)
    BY <2>4, <2>5 DEF Evolves
  <2>7. SoleRecord(p, rec, releases)
    BY <2>4 DEF SoleRecord
  <2>8. Rooted(p, rec, releases, live)
    BY <1>1, <2>3, <2>6, RootedStays DEF SoleInv
  <2>9. PICK y : y = [ex[e] EXCEPT !.act = rec, !.pc = "begin"]
    OBVIOUS
  <2>10. y.act = rec /\ y.pc = "begin" /\ y.prev = ex[e].prev /\ y.force = ex[e].force
    BY <1>1, <2>9 DEF ExecutorRecord
  <2>11. SoleExecutor(p, y, rec, releases)
    BY <1>1, <1>2, <2>4, <2>10 DEF SoleExecutor, Working
  <2>12. ex'[e] = y /\ \A f \in Executors : f # e => ex'[f] = ex[f]
    BY <1>1, <2>2, <2>3, <2>9
  <2>13. /\ run[p].status # "succeeded" /\ InPlace(p, effects', live')
         /\ (Changed(p) \cap StagedLayers # {} => Len(releases') <= 1)
    BY <1>1, <1>2 DEF SoleInv
  <2>14. /\ SoleRecord(p, run'[p], releases') /\ Rooted(p, run'[p], releases', live')
         /\ Evolves(run[p], run'[p])
         /\ \A f \in Executors : ex'[f] = ex[f] \/ SoleExecutor(p, ex'[f], run'[p], releases')
    BY <1>1, <2>3, <2>6, <2>7, <2>8, <2>11, <2>12
  <2>15. QED
    BY <1>1, <2>13, <2>14, SoleStep
<1>3. CASE run[p].status # "absent"
  <2>1. PICK y : /\ ex' = [ex EXCEPT ![e] = y]
                 /\ \/ /\ run[p].status = "succeeded"
                       /\ y = [ex[e] EXCEPT !.act = run[p], !.pc = "returned"]
                    \/ /\ run[p].status # "succeeded"
                       /\ y = [ex[e] EXCEPT !.act = run[p], !.pc = "begin"]
                    \/ /\ run[p].status # "succeeded"
                       /\ y = [ex[e] EXCEPT !.act = run[p], !.pc = "retry", !.next = "begin"]
                    \/ y = Idle
    BY <1>1, <1>3 DEF CreateRun
  <2>4. SoleExecutor(p, y, run[p], releases)
    <3>1. y = Idle => SoleExecutor(p, y, run[p], releases)
      BY SoleIdle
    <3>2. y # Idle => SoleExecutor(p, y, run[p], releases)
      <4>1. SUFFICES ASSUME y # Idle PROVE SoleExecutor(p, y, run[p], releases)
        OBVIOUS
      <4>2. /\ y.act = run[p] /\ y.prev = ex[e].prev /\ y.force = ex[e].force
            /\ \/ y.pc = "returned" /\ run[p].status = "succeeded"
               \/ y.pc \in {"begin", "retry"} /\ run[p].status # "succeeded"
        BY <1>1, <2>1, <4>1 DEF ExecutorRecord
      <4>3. QED
        BY <1>1, <4>2 DEF SoleExecutor, Working
    <3>3. QED
      BY <3>1, <3>2
  <2>5. UNCHANGED run
    BY <1>1, <1>3 DEF CreateRun
  <2>6. QED
    BY <1>1, <2>1, <2>4, <2>5, SoleLocal
<1>4. CASE run[p].status = "absent" /\ lease # NoLease
  BY <1>1, <1>4, SoleIdle, SoleLocal DEF CreateRun
<1>5. QED
  BY <1>2, <1>3, <1>4

LEMMA SoleRequestRunRetry ==
    ASSUME NEW p, SoleRun(p), RunInv, WorkInv, SoleInv(p), TypeInv', NEW e \in Executors,
           RequestRunRetry(e)
    PROVE  SoleInv(p)'
<1>1. /\ ex[e] \in ExecutorRecord /\ ex[e].run = p /\ ex[e].pc = "retry"
      /\ ex[e].next \in {"previous", "begin"}
      /\ run[p] \in RunRecord /\ run[p].pkg = p
      /\ SoleExecutor(p, ex[e], run[p], releases)
      /\ UNCHANGED <<releases, live, effects, late>> /\ p \in Runs
      /\ ex \in [Executors -> ExecutorRecord] /\ run \in [Runs -> RunRecord]
  BY SoleActor, SoleRunFacts, Actor DEF RequestRunRetry, RunInv, TypeInv, TypeOK, ExecutorOK
<1>2. CASE CanRetry(e)
  <2>1. PICK rec : rec = OpenAttempt(p)
    OBVIOUS
  <2>2. /\ run' = [run EXCEPT ![p] = rec]
        /\ \/ ex' = [ex EXCEPT ![e] = [@ EXCEPT !.act = run'[p], !.pc = ex[e].next]]
           \/ ex' = ex
    BY <1>1, <1>2, <2>1 DEF RequestRunRetry
  <2>3. run'[p] = rec /\ rec \in RunRecord
    BY <1>1, <2>2 DEF TypeInv, TypeOK
  <2>4. /\ rec.pkg = p /\ rec.status = "packaged" /\ rec.done = run[p].done
        /\ rec.child = run[p].child /\ rec.attempt = run[p].attempt + 1
    BY <1>1, <2>1 DEF OpenAttempt, RunRecord
  <2>5. run[p].attempt \in Nat /\ run[p].status # "succeeded"
    BY <1>1, <1>2 DEF RunRecord, CanRetry
  <2>6. Evolves(run[p], rec)
    BY <2>4, <2>5 DEF Evolves
  <2>7. SoleRecord(p, rec, releases)
    BY <2>4 DEF SoleRecord, SoleInv
  <2>8. Rooted(p, rec, releases, live)
    BY <1>1, <2>3, <2>6, RootedStays DEF SoleInv
  <2>9. PICK y : y = [ex[e] EXCEPT !.act = rec, !.pc = ex[e].next]
    OBVIOUS
  <2>10. y.act = rec /\ y.pc = ex[e].next /\ y.prev = ex[e].prev /\ y.force = ex[e].force
    BY <1>1, <2>9 DEF ExecutorRecord
  <2>11. SoleExecutor(p, y, rec, releases)
    BY <1>1, <2>4, <2>10 DEF SoleExecutor, Working
  <2>12. \A f \in Executors : ex'[f] = ex[f] \/ ex'[f] = y
    BY <1>1, <2>2, <2>3, <2>9
  <2>13. /\ InPlace(p, effects', live')
         /\ (Changed(p) \cap StagedLayers # {} => Len(releases') <= 1)
    BY <1>1 DEF SoleInv
  <2>14. /\ SoleRecord(p, run'[p], releases') /\ Rooted(p, run'[p], releases', live')
         /\ Evolves(run[p], run'[p])
         /\ \A f \in Executors : ex'[f] = ex[f] \/ SoleExecutor(p, ex'[f], run'[p], releases')
    BY <1>1, <2>3, <2>6, <2>7, <2>8, <2>11, <2>12
  <2>15. QED
    BY <1>1, <2>5, <2>13, <2>14, SoleStep
<1>3. CASE ~CanRetry(e)
  BY <1>1, <1>3, SoleIdle, SoleLocal DEF RequestRunRetry
<1>4. QED
  BY <1>2, <1>3

(* Steps after which the executor has the same run, plan and previous       *)
(* package, and is neither waiting nor about to activate.                   *)
LEMMA SoleQuiet ==
    ASSUME NEW p, NEW x, NEW y, NEW rec, NEW rels, SoleExecutor(p, x, rec, rels),
           x.pc \notin {"idle", "create", "returned"}, y.pc \notin {"await", "activate"},
           y.act = x.act, y.force = x.force, y.prev = x.prev,
           y.pc \in Working => y.plan = Changed(p)
    PROVE  SoleExecutor(p, y, rec, rels)
BY DEF SoleExecutor

LEMMA SoleReadPrevious ==
    ASSUME NEW p, SoleRun(p), RunInv, WorkInv, SoleInv(p), NEW e \in Executors, ReadPrevious(e)
    PROVE  SoleInv(p)'
<1>1. /\ ex[e] \in ExecutorRecord /\ ex[e].run = p
      /\ SoleExecutor(p, ex[e], run[p], releases)
  BY SoleActor
<1>2. PICK y : y = [ex[e] EXCEPT !.prev = LatestSuccessfulRun({ex[e].run}), !.pc = "begin"]
  OBVIOUS
<1>3. y.pc = "begin" /\ y.act = ex[e].act /\ y.force = ex[e].force /\ y.prev = Base
  BY <1>1, <1>2, SoleSuccessful DEF ExecutorRecord
<1>4. SoleExecutor(p, y, run[p], releases)
  BY <1>1, <1>3 DEF SoleExecutor, Working, ReadPrevious
<1>5. QED
  BY <1>2, <1>4, SoleLocal DEF ReadPrevious, platform

LEMMA SoleBegin ==
    ASSUME NEW p, SoleRun(p), RunInv, WorkInv, SoleInv(p), NEW e \in Executors, Begin(e)
    PROVE  SoleInv(p)'
<1>1. /\ ex[e] \in ExecutorRecord /\ SoleExecutor(p, ex[e], run[p], releases)
      /\ ex[e].pc = "begin"
  BY SoleActor DEF Begin
<1>2. ex[e].act.pkg = p /\ ex[e].force = FALSE /\ ex[e].prev = Base
  BY <1>1 DEF SoleExecutor
<1>3. PICK targets, x :
         /\ targets = ReleaseTargets(ex[e].act.pkg, ex[e].prev, ex[e].force)
         /\ x = [ex[e] EXCEPT !.plan = targets, !.todo = StepsOf(targets)]
  OBVIOUS
<1>4. targets = Changed(p)
  BY <1>2, <1>3 DEF ReleaseTargets, Changed
<1>5. targets \in SUBSET Layers /\ StepsOf(targets) \in SUBSET Steps
  BY <1>3, <1>1, PlanType
<1>6. /\ x \in ExecutorRecord /\ x.act = ex[e].act /\ x.prev = ex[e].prev
      /\ x.force = ex[e].force /\ x.plan = targets
  BY <1>1, <1>3, <1>5 DEF ExecutorRecord
<1>7. Backed(p, Checkpoint(x, "preparing", {}, 0), run[p], releases)
  BY PlainBacked
<1>8. SoleExecutor(p, Send(x, Checkpoint(x, "preparing", {}, 0), "loop"), run[p], releases)
  BY <1>2, <1>4, <1>6, <1>7, SoleSend
<1>9. ex' = [ex EXCEPT ![e] = Send(x, Checkpoint(x, "preparing", {}, 0), "loop")]
  BY <1>3 DEF Begin
<1>10. QED
  BY <1>8, <1>9, SoleLocal DEF Begin, platform

(* An executor in the loop works against the base package.                  *)
LEMMA SoleLoop ==
    ASSUME NEW p, SoleRun(p), RunInv, WorkInv, SoleInv(p), NEW e \in Executors,
           ex[e].pc \in Working
    PROVE  /\ ex[e] \in ExecutorRecord /\ ex[e].run = p
           /\ ex \in [Executors -> ExecutorRecord]
           /\ ex[e].act.pkg = p /\ ex[e].force = FALSE /\ ex[e].prev = Base
           /\ ex[e].plan = Changed(p)
           /\ ex[e].act.done \subseteq run[p].done
           /\ SoleExecutor(p, ex[e], run[p], releases)
BY SoleActor DEF SoleExecutor, Working

LEMMA SoleRespond ==
    ASSUME NEW p, SoleRun(p), RunInv, WorkInv, SoleInv(p), TypeInv', NEW e \in Executors,
           Respond(e)
    PROVE  SoleInv(p)'
<1>1. PICK x, m : x = ex[e] /\ m = ex[e].req
  OBVIOUS
<1>2. /\ x.pc = "await" /\ UNCHANGED <<releases, live, effects, late>>
      /\ x \in ExecutorRecord /\ x.run = p /\ SoleExecutor(p, x, run[p], releases)
      /\ x.force = FALSE /\ x.prev = Base /\ x.plan = Changed(p)
      /\ ex \in [Executors -> ExecutorRecord]
  BY <1>1, SoleLoop DEF Respond, Working
<1>3. /\ m \in Request /\ Sound(m) /\ m.run = p /\ Answerable(m, run[m.run]) /\ Orderly(x)
      /\ Backed(p, m, run[p], releases)
  BY <1>1, <1>2, InFlight DEF SoleExecutor
<1>4. CASE /\ CanRecord(run[m.run], m) /\ Accept(m)
           /\ ex' = [ex EXCEPT ![e] = [@ EXCEPT !.act = run'[m.run], !.pc = ex[e].next]]
  <2>1. /\ Evolves(run[p], run'[p])
        /\ run[p].status = "succeeded" => run'[p].status = "succeeded"
        /\ SoleRecord(p, run'[p], releases')
        /\ Rooted(p, run'[p], releases', live') /\ InPlace(p, effects', live')
        /\ (Changed(p) \cap StagedLayers # {} => Len(releases') <= 1)
    BY <1>2, <1>3, <1>4, SoleAccept
  <2>2. PICK y : y = [x EXCEPT !.act = run'[p], !.pc = x.next]
    OBVIOUS
  <2>3. /\ y.pc = x.next /\ y.act = run'[p] /\ y.force = FALSE /\ y.prev = Base
        /\ y.plan = Changed(p)
    BY <1>2, <2>2 DEF ExecutorRecord
  <2>4. x.next \in {"loop", "capture", "verify", "returned"}
    BY <1>2, <1>3 DEF Orderly
  <2>5. SoleExecutor(p, y, run'[p], releases')
    BY <2>1, <2>3, <2>4 DEF SoleExecutor, SoleRecord
  <2>6. ex'[e] = y /\ \A f \in Executors : f # e => ex'[f] = ex[f]
    BY <1>1, <1>2, <1>3, <1>4, <2>2
  <2>7. QED
    BY <1>2, <2>1, <2>5, <2>6, SoleStep
<1>5. CASE ex' = [ex EXCEPT ![e] = AfterRefusal(@)] /\ UNCHANGED run
  <2>1. PICK y : y = AfterRefusal(x)
    OBVIOUS
  <2>2. y.pc = "failing" /\ y.act = x.act /\ y.force = x.force /\ y.prev = x.prev
    BY <1>2, <2>1 DEF AfterRefusal, ExecutorRecord
  <2>3. SoleExecutor(p, y, run[p], releases)
    BY <1>2, <2>2, SoleQuiet DEF Working
  <2>4. ex' = [ex EXCEPT ![e] = y]
    BY <1>1, <1>5, <2>1
  <2>5. QED
    BY <1>2, <1>5, <2>3, <2>4, SoleLocal
<1>6. QED
  BY <1>1, <1>4, <1>5 DEF Respond

(* A request that is accepted although no executor learns of it.            *)
LEMMA SoleAccepted ==
    ASSUME NEW p, SoleRun(p), RunInv, WorkInv, SoleInv(p), TypeInv', NEW m \in Request,
           Sound(m), Answerable(m, run[m.run]), CanRecord(run[m.run], m), Accept(m),
           Backed(p, m, run[p], releases), UNCHANGED <<releases, live, effects>>,
           \A n \in late' : n \in late,
           \A f \in Executors : ex'[f] = ex[f] \/ ex'[f] = Idle
    PROVE  SoleInv(p)'
<1>1. /\ Evolves(run[p], run'[p])
      /\ run[p].status = "succeeded" => run'[p].status = "succeeded"
      /\ SoleRecord(p, run'[p], releases')
      /\ Rooted(p, run'[p], releases', live') /\ InPlace(p, effects', live')
      /\ (Changed(p) \cap StagedLayers # {} => Len(releases') <= 1)
  BY SoleAccept
<1>2. \A f \in Executors : ex'[f] = ex[f] \/ SoleExecutor(p, ex'[f], run'[p], releases')
  BY SoleIdle
<1>3. QED
  BY <1>1, <1>2, SoleStep

LEMMA SoleIgnored ==
    ASSUME NEW p, SoleRun(p), RunInv, WorkInv, SoleInv(p),
           UNCHANGED <<run, releases, live, effects>>,
           \A n \in late' : n \in late \/ Backed(p, n, run[p], releases),
           \A f \in Executors : ex'[f] = ex[f] \/ ex'[f] = Idle
    PROVE  SoleInv(p)'
<1>1. \A f \in Executors : ex'[f] = ex[f] \/ SoleExecutor(p, ex'[f], run'[p], releases')
  BY SoleIdle
<1>2. Evolves(run[p], run'[p])
  BY SoleRunFacts, NoRunEvolves
<1>3. /\ SoleRecord(p, run'[p], releases') /\ Rooted(p, run'[p], releases', live')
      /\ InPlace(p, effects', live')
      /\ (Changed(p) \cap StagedLayers # {} => Len(releases') <= 1)
  BY DEF SoleInv
<1>4. QED
  BY <1>1, <1>2, <1>3, SoleStep

LEMMA SoleNetwork ==
    ASSUME NEW p, SoleRun(p), RunInv, WorkInv, SoleInv(p), TypeInv', NEW e \in Executors,
           AnswerLost(e) \/ Resend(e)
    PROVE  SoleInv(p)'
<1>1. PICK m : m = ex[e].req
  OBVIOUS
<1>2. ex[e].pc = "await"
  BY DEF AnswerLost, Resend
<1>3. /\ m \in Request /\ Sound(m) /\ Answerable(m, run[m.run])
      /\ Backed(p, m, run[p], releases)
  BY <1>1, <1>2, InFlight, SoleActor DEF SoleExecutor
<1>4. CASE AnswerLost(e)
  BY <1>1, <1>3, <1>4, SoleAccepted DEF AnswerLost
<1>5. CASE Resend(e)
  BY <1>1, <1>3, <1>5, SoleIgnored DEF Resend, platform
<1>6. QED
  BY <1>4, <1>5

LEMMA SoleDeliverLate ==
    ASSUME NEW p, SoleRun(p), RunInv, WorkInv, SoleInv(p), TypeInv', NEW m \in late,
           DeliverLate(m)
    PROVE  SoleInv(p)'
<1>1. /\ m \in Request /\ Sound(m) /\ Answerable(m, run[m.run])
      /\ Backed(p, m, run[p], releases)
  BY DEF RunInv, TypeInv, TypeOK, RequestsSound, WorkInv, SoleInv
<1>2. CASE CanRecord(run[m.run], m)
  BY <1>1, <1>2, SoleAccepted DEF DeliverLate
<1>3. CASE ~CanRecord(run[m.run], m)
  BY <1>3, SoleIgnored DEF DeliverLate
<1>4. QED
  BY <1>2, <1>3

LEMMA SoleReportFailure ==
    ASSUME NEW p, SoleRun(p), RunInv, WorkInv, SoleInv(p), TypeInv', NEW e \in Executors,
           ReportFailure(e)
    PROVE  SoleInv(p)'
<1>1. PICK m : m = FailRequest(ex[e])
  OBVIOUS
<1>2. /\ m.run = ex[e].run /\ m.att = ex[e].act.attempt /\ m.by = m.att
      /\ m.status = "failed" /\ m.step = {}
  BY <1>1 DEF FailRequest
<1>3. Knows(ex[e], run[ex[e].run]) /\ ex[e].act.attempt # 0
  BY Actor DEF ReportFailure, ExecutorOK, RunInv, AttemptsKnown
<1>4. Sound(m) /\ Answerable(m, run[m.run]) /\ Backed(p, m, run[p], releases)
  BY <1>2, <1>3 DEF Sound, Answerable, Knows, Backed
<1>5. m \in Request
  BY <1>1, Actor DEF FailRequest, Request, Statuses, ExecutorRecord, RunRecord
<1>6. ex' = [ex EXCEPT ![e] = Idle] /\ ex \in [Executors -> ExecutorRecord]
  BY Actor DEF ReportFailure
<1>7. \A f \in Executors : ex'[f] = ex[f] \/ ex'[f] = Idle
  BY <1>6
<1>8. UNCHANGED <<releases, live, effects>>
  BY DEF ReportFailure
<1>9. CASE CanRecord(run[m.run], m) /\ Accept(m) /\ UNCHANGED late
  BY <1>4, <1>5, <1>7, <1>8, <1>9, SoleAccepted
<1>10. CASE UNCHANGED run /\ late' \in {late, late \cup {m}}
  BY <1>4, <1>7, <1>8, <1>10, SoleIgnored
<1>11. QED
  BY <1>1, <1>9, <1>10 DEF ReportFailure

LEMMA SoleSkipStep ==
    ASSUME NEW p, SoleRun(p), RunInv, WorkInv, SoleInv(p), NEW e \in Executors, SkipStep(e)
    PROVE  SoleInv(p)'
<1>1. PICK x, s, rest :
         x = ex[e] /\ s = NextStep(x) /\ rest = [x EXCEPT !.todo = @ \ {s}]
  OBVIOUS
<1>2. /\ x \in ExecutorRecord /\ x.pc = "loop" /\ x.todo \in SUBSET Steps
      /\ x.act.pkg = p /\ x.force = FALSE /\ x.prev = Base /\ x.plan = Changed(p)
      /\ SoleExecutor(p, x, run[p], releases)
  BY <1>1, InLoop, SoleLoop DEF SkipStep, Working
<1>3. /\ rest \in ExecutorRecord /\ rest.pc = "loop" /\ rest.act = x.act
      /\ rest.force = x.force /\ rest.prev = x.prev /\ rest.plan = x.plan
  BY <1>1, <1>2 DEF ExecutorRecord
<1>4. PICK w : w = [rest EXCEPT !.bound = TRUE]
  OBVIOUS
<1>5. /\ w \in ExecutorRecord /\ w.act = x.act
      /\ w.force = x.force /\ w.prev = x.prev /\ w.plan = x.plan
  BY <1>3, <1>4 DEF ExecutorRecord
<1>6. PICK m : m = Checkpoint(rest, "preparing", {}, 0)
  OBVIOUS
<1>7. Backed(p, m, run[p], releases)
  BY <1>6, PlainBacked
<1>8. PICK y : y = IF s = Ensure THEN Replay(rest) ELSE rest
  OBVIOUS
<1>9. SoleExecutor(p, Send(w, m, "loop"), run[p], releases)
  BY <1>2, <1>5, <1>7, SoleSend
<1>10. Checkpoint([rest EXCEPT !.bound = TRUE], "preparing", {}, 0) = m
  BY <1>3, <1>4, <1>5, <1>6 DEF Checkpoint, ExecutorRecord
<1>11. SoleExecutor(p, Replay(rest), run[p], releases)
  BY <1>4, <1>6, <1>9 DEF Replay
<1>12. SoleExecutor(p, rest, run[p], releases)
  BY <1>2, <1>3, SoleQuiet
<1>13. SoleExecutor(p, y, run[p], releases)
  BY <1>8, <1>11, <1>12
<1>14. ex' = [ex EXCEPT ![e] = y]
  BY <1>1, <1>8 DEF SkipStep
<1>15. QED
  BY <1>13, <1>14, SoleLocal DEF SkipStep, platform

LEMMA SoleStartStep ==
    ASSUME NEW p, SoleRun(p), RunInv, WorkInv, SoleInv(p), NEW e \in Executors, StartStep(e)
    PROVE  SoleInv(p)'
<1>1. PICK x : x = ex[e]
  OBVIOUS
<1>2. /\ x \in ExecutorRecord /\ x.pc = "loop"
      /\ x.act.pkg = p /\ x.force = FALSE /\ x.prev = Base /\ x.plan = Changed(p)
      /\ SoleExecutor(p, x, run[p], releases)
  BY <1>1, SoleLoop DEF StartStep, Working
<1>3. CASE NextStep(x) = Finalize
  <2>1. PICK y : y = Send(x, Checkpoint(x, "activating", {}, 0), "capture")
    OBVIOUS
  <2>2. SoleExecutor(p, y, run[p], releases)
    BY <1>2, <2>1, PlainBacked, SoleSend
  <2>3. ex' = [ex EXCEPT ![e] = y]
    BY <1>1, <1>3, <2>1 DEF StartStep
  <2>4. QED
    BY <2>2, <2>3, SoleLocal DEF StartStep, platform
<1>4. CASE NextStep(x) # Finalize
  <2>1. PICK y : y = [x EXCEPT !.pc = "step"]
    OBVIOUS
  <2>2. /\ y.pc = "step" /\ y.act = x.act
        /\ y.force = x.force /\ y.prev = x.prev /\ y.plan = x.plan
    BY <1>2, <2>1 DEF ExecutorRecord
  <2>3. SoleExecutor(p, y, run[p], releases)
    BY <1>2, <2>2, SoleQuiet
  <2>4. ex' = [ex EXCEPT ![e] = y]
    BY <1>1, <1>4, <2>1 DEF StartStep
  <2>5. QED
    BY <2>3, <2>4, SoleLocal DEF StartStep, platform
<1>5. QED
  BY <1>3, <1>4

LEMMA SoleFailed ==
    ASSUME NEW p, SoleRun(p), RunInv, WorkInv, SoleInv(p), NEW e \in Executors,
           ex[e].pc \in Working, ex' = [ex EXCEPT ![e] = [@ EXCEPT !.pc = "failing"]],
           UNCHANGED <<run, releases, live, effects, late>>
    PROVE  SoleInv(p)'
<1>1. PICK x, y : x = ex[e] /\ y = [x EXCEPT !.pc = "failing"]
  OBVIOUS
<1>2. x \in ExecutorRecord /\ SoleExecutor(p, x, run[p], releases) /\ x.pc \in Working
      /\ ex \in [Executors -> ExecutorRecord]
  BY <1>1, SoleLoop
<1>3. y.pc = "failing" /\ y.act = x.act /\ y.force = x.force /\ y.prev = x.prev
  BY <1>1, <1>2 DEF ExecutorRecord
<1>4. SoleExecutor(p, y, run[p], releases)
  BY <1>2, <1>3, SoleQuiet DEF Working
<1>5. ex' = [ex EXCEPT ![e] = y]
  BY <1>1
<1>6. QED
  BY <1>4, <1>5, SoleLocal

LEMMA SoleRunStep ==
    ASSUME NEW p, SoleRun(p), RunInv, WorkInv, SoleInv(p), NEW e \in Executors, RunStep(e)
    PROVE  SoleInv(p)'
<1>1. PICK x, s : x = ex[e] /\ s = NextStep(x)
  OBVIOUS
<1>2. /\ x \in ExecutorRecord /\ x.pc = "step" /\ x.run = p /\ s # Finalize
      /\ x.act.pkg = p /\ x.force = FALSE /\ x.prev = Base /\ x.plan = Changed(p)
      /\ ex \in [Executors -> ExecutorRecord] /\ x.todo \in SUBSET Steps
  BY <1>1, SoleLoop, InLoop DEF RunStep, Working, Orderly
<1>3. UNCHANGED <<run, releases, late>>
  BY DEF RunStep
<1>4. CASE HoldsLease(x)
  <2>1. PICK w : w = [x EXCEPT !.todo = @ \ {s}, !.bound = (s = Ensure) \/ @]
    OBVIOUS
  <2>2. /\ w \in ExecutorRecord /\ w.act = x.act
        /\ w.force = x.force /\ w.prev = x.prev /\ w.plan = x.plan
    BY <1>2, <2>1 DEF ExecutorRecord
  <2>3. SoleExecutor(p, StepDone(x, s), run[p], releases)
    <3>1. StepDone(x, s) = Send(w, Checkpoint(x, "same", {s}, 0), "loop")
      BY <2>1 DEF StepDone
    <3>2. Backed(p, Checkpoint(x, "same", {s}, 0), run[p], releases)
      BY <1>2, PlainBacked
    <3>3. QED
      BY <1>2, <2>2, <3>1, <3>2, SoleSend
  <2>4. /\ effects' = [effects EXCEPT ![p] = @ \cup ({s} \cap Layers)]
        /\ live' = [l \in Layers |-> IF l = s /\ l \in DirectLayers
                                     THEN <<p, x.act.attempt>> ELSE live[l]]
        /\ ex' = [ex EXCEPT ![e] = StepDone(x, s)]
    BY <1>1, <1>2, <1>4 DEF RunStep
  <2>5. effects'[p] \subseteq effects[p] \cup {s}
    BY <2>4, SoleRunFacts DEF RunInv, TypeInv, TypeOK
  <2>6. DirectLayers \subseteq Layers /\ StagedLayers \subseteq Layers
        /\ DirectLayers \cap StagedLayers = {}
    BY ConstantsAssumption DEF StagedLayers
  <2>7. InPlace(p, effects', live')
    BY <2>4, <2>5, <2>6 DEF InPlace, SoleInv
  <2>8. Rooted(p, run'[p], releases', live')
    BY <1>3, <2>4, <2>6 DEF Rooted, SoleInv
  <2>9. ex'[e] = StepDone(x, s) /\ \A f \in Executors : f # e => ex'[f] = ex[f]
    BY <1>2, <2>4
  <2>10. Evolves(run[p], run'[p])
    BY <1>3, SoleRunFacts, NoRunEvolves
  <2>11. /\ SoleRecord(p, run'[p], releases')
         /\ (Changed(p) \cap StagedLayers # {} => Len(releases') <= 1)
    BY <1>3 DEF SoleInv
  <2>12. QED
    BY <1>3, <2>3, <2>7, <2>8, <2>9, <2>10, <2>11, SoleStep
<1>5. CASE ~HoldsLease(x)
  BY <1>1, <1>2, <1>3, <1>5, SoleFailed DEF RunStep, StepFailed, Working
<1>6. QED
  BY <1>4, <1>5

(* Once a root is active, every later capture meets an active child.        *)
LEMMA SoleCaptureApp ==
    ASSUME NEW p, SoleRun(p), RunInv, WorkInv, SoleInv(p), NEW e \in Executors, CaptureApp(e)
    PROVE  SoleInv(p)'
<1>1. PICK x : x = ex[e]
  OBVIOUS
<1>2. /\ x \in ExecutorRecord /\ x.pc = "capture" /\ x.run = p
      /\ x.plan = Changed(p) /\ SoleExecutor(p, x, run[p], releases)
      /\ Orderly(x) /\ Knows(x, run[p]) /\ StepsOf(x.plan) \ x.todo \subseteq x.act.done
      /\ UNCHANGED <<run, releases, live, effects, late>>
  BY <1>1, SoleLoop, InLoop DEF CaptureApp, Working, platform
<1>3. CASE ~ScopeMatches(x) \/ AlreadyActive(x)
  BY <1>1, <1>2, <1>3, SoleFailed DEF CaptureApp, Working
<1>4. CASE ScopeMatches(x) /\ ~AlreadyActive(x)
  <2>1. PICK y : y = [x EXCEPT !.pc = "activate", !.parent = head]
    OBVIOUS
  <2>2. /\ y.pc = "activate" /\ y.act = x.act /\ y.force = x.force /\ y.prev = x.prev
        /\ y.plan = x.plan /\ y.parent = head
    BY <1>2, <2>1 DEF ExecutorRecord
  <2>3. StagedChildren(x) = x.plan \cap StagedLayers
    BY <1>2, <1>4, ChildrenOfPlan DEF Orderly, Finalizing, Knows
  <2>4. ASSUME NEW l \in Changed(p) \cap StagedLayers PROVE releases = <<>>
    <3>1. l \in StagedChildren(x)
      BY <1>2, <2>3, <2>4
    <3>2. l \in x.act.done
      BY <1>2, <3>1 DEF StagedChildren, Knows, Consistent
    <3>3. x.act.child[l] = run[p].child[l]
      BY <1>2, <2>4, <3>2 DEF Knows
    <3>4. live[l] # <<p, run[p].child[l]>>
      BY <1>2, <1>4, <3>1, <3>3 DEF AlreadyActive
    <3>5. QED
      BY <2>4, <3>4 DEF SoleInv, Rooted
  <2>5. releases = <<>> => head = 0
    BY DEF WorkInv
  <2>6. SoleExecutor(p, y, run[p], releases)
    BY <1>2, <2>2, <2>4, <2>5 DEF SoleExecutor, Working
  <2>7. ex' = [ex EXCEPT ![e] = y]
    BY <1>1, <1>4, <2>1 DEF CaptureApp
  <2>8. QED
    BY <1>2, <2>6, <2>7, SoleLocal
<1>5. QED
  BY <1>3, <1>4

LEMMA SoleActivateApp ==
    ASSUME NEW p, SoleRun(p), RunInv, WorkInv, SoleInv(p), NEW e \in Executors, ActivateApp(e)
    PROVE  SoleInv(p)'
<1>1. PICK x, n : x = ex[e] /\ n = Len(releases) + 1
  OBVIOUS
<1>2. /\ x \in ExecutorRecord /\ x.pc = "activate" /\ x.run = p
      /\ x.act.pkg = p /\ x.force = FALSE /\ x.prev = Base /\ x.plan = Changed(p)
      /\ SoleExecutor(p, x, run[p], releases)
      /\ Orderly(x) /\ Knows(x, run[p]) /\ StepsOf(x.plan) \ x.todo \subseteq x.act.done
      /\ ex \in [Executors -> ExecutorRecord]
      /\ UNCHANGED <<run, effects, late>>
  BY <1>1, SoleLoop, InLoop DEF ActivateApp, Working
<1>3. CASE HoldsLease(x) /\ head = x.parent
  <2>1. PICK root, w :
           /\ root = [run |-> x.run, children |-> StagedChildren(x), plan |-> x.plan]
           /\ w = [x EXCEPT !.todo = @ \ {Finalize}, !.own = n]
    OBVIOUS
  <2>2. /\ releases \in Seq([run : Runs, children : SUBSET Layers, plan : SUBSET Layers])
        /\ n \in Nat /\ Len(releases) \in Nat
    BY <1>1 DEF RunInv, TypeInv, TypeOK
  <2>3. /\ releases' = Append(releases, root)
        /\ live' = [l \in Layers |-> IF l \in StagedChildren(x)
                                     THEN <<p, x.act.child[l]>> ELSE live[l]]
        /\ ex' = [ex EXCEPT ![e] = Send(w, Checkpoint(x, "same", {Finalize}, n), "loop")]
    BY <1>1, <1>2, <1>3, <2>1 DEF ActivateApp
  <2>4. root \in [run : Runs, children : SUBSET Layers, plan : SUBSET Layers]
    BY <1>2, <2>1, SoleRunFacts DEF StagedChildren, StagedLayers, ExecutorRecord
  <2>5. Len(releases') = n /\ releases' # <<>>
    BY <1>1, <2>2, <2>3, <2>4
  <2>6. /\ w \in ExecutorRecord /\ w.act = x.act
        /\ w.force = x.force /\ w.prev = x.prev /\ w.plan = x.plan
    BY <1>2, <2>1, <2>2 DEF ExecutorRecord
  <2>7. PICK y : y = Send(w, Checkpoint(x, "same", {Finalize}, n), "loop")
    OBVIOUS
  <2>8. Backed(p, Checkpoint(x, "same", {Finalize}, n), run[p], releases')
    BY <2>5 DEF Backed, Checkpoint
  <2>9. SoleExecutor(p, y, run[p], releases')
    BY <1>2, <2>6, <2>7, <2>8, SoleSend
  <2>10. StagedChildren(x) = Changed(p) \cap StagedLayers
    BY <1>2, ChildrenOfPlan DEF Orderly, Finalizing, Knows
  <2>11. Rooted(p, run[p], releases', live')
    <3>1. ASSUME NEW l \in Changed(p) \cap StagedLayers
          PROVE  l \in run[p].done /\ live'[l] = <<p, run[p].child[l]>>
      <4>1. l \in x.act.done
        BY <1>2, <2>10, <3>1 DEF StagedChildren, Knows, Consistent
      <4>2. x.act.child[l] = run[p].child[l] /\ l \in run[p].done
        BY <1>2, <3>1, <4>1 DEF Knows
      <4>3. l \in Layers
        BY <3>1, StepNumbers
      <4>4. QED
        BY <2>3, <2>10, <3>1, <4>2, <4>3
    <3>2. QED
      BY <3>1 DEF Rooted
  <2>12. InPlace(p, effects', live')
    BY <1>2, <2>3, ConstantsAssumption DEF InPlace, SoleInv, StagedChildren
  <2>13. Changed(p) \cap StagedLayers # {} => Len(releases') <= 1
    <3>1. x.parent = 0 \/ Changed(p) \cap StagedLayers = {}
      BY <1>2 DEF SoleExecutor
    <3>2. head = Len(releases)
      BY DEF WorkInv
    <3>3. QED
      BY <1>1, <1>3, <2>2, <2>5, <3>1, <3>2
  <2>14. ex'[e] = y /\ \A f \in Executors : f # e => ex'[f] = ex[f]
    BY <1>2, <2>3, <2>7
  <2>15. Evolves(run[p], run'[p])
    BY <1>2, SoleRunFacts, NoRunEvolves
  <2>16. SoleRecord(p, run[p], releases')
    BY <2>5 DEF SoleInv, SoleRecord
  <2>17. QED
    BY <1>2, <2>5, <2>9, <2>11, <2>12, <2>13, <2>14, <2>15, <2>16, SoleStep
<1>4. CASE ~(HoldsLease(x) /\ head = x.parent)
  BY <1>1, <1>2, <1>4, SoleFailed DEF ActivateApp, Working
<1>5. QED
  BY <1>3, <1>4

LEMMA SoleFinishSteps ==
    ASSUME NEW p, SoleRun(p), RunInv, WorkInv, SoleInv(p), NEW e \in Executors, FinishSteps(e)
    PROVE  SoleInv(p)'
<1>1. PICK x : x = ex[e]
  OBVIOUS
<1>2. /\ x \in ExecutorRecord /\ x.pc = "loop"
      /\ x.act.pkg = p /\ x.force = FALSE /\ x.prev = Base /\ x.plan = Changed(p)
      /\ SoleExecutor(p, x, run[p], releases)
      /\ UNCHANGED <<run, releases, live, effects, late>>
  BY <1>1, SoleLoop DEF FinishSteps, Working, platform
<1>3. CASE x.act.status = "verifying"
  <2>1. PICK y : y = [x EXCEPT !.pc = "verify"]
    OBVIOUS
  <2>2. /\ y.pc = "verify" /\ y.act = x.act
        /\ y.force = x.force /\ y.prev = x.prev /\ y.plan = x.plan
    BY <1>2, <2>1 DEF ExecutorRecord
  <2>3. SoleExecutor(p, y, run[p], releases)
    BY <1>2, <2>2, SoleQuiet
  <2>4. ex' = [ex EXCEPT ![e] = y]
    BY <1>1, <1>3, <2>1 DEF FinishSteps
  <2>5. QED
    BY <1>2, <2>3, <2>4, SoleLocal
<1>4. ASSUME NEW status \in {"verifying", "activating"}, NEW n \in {"verify", "loop"},
             ex' = [ex EXCEPT ![e] = Send(x, Checkpoint(x, status, {}, 0), n)]
      PROVE  SoleInv(p)'
  <2>1. Backed(p, Checkpoint(x, status, {}, 0), run[p], releases)
    BY PlainBacked
  <2>2. SoleExecutor(p, Send(x, Checkpoint(x, status, {}, 0), n), run[p], releases)
    BY <1>2, <2>1, SoleSend
  <2>3. QED
    BY <1>2, <1>4, <2>2, SoleLocal
<1>5. QED
  BY <1>1, <1>3, <1>4 DEF FinishSteps

(* Success is reported only after every step of the plan.                   *)
LEMMA SoleVerifyActivation ==
    ASSUME NEW p, SoleRun(p), RunInv, WorkInv, SoleInv(p), NEW e \in Executors,
           VerifyActivation(e)
    PROVE  SoleInv(p)'
<1>1. PICK x : x = ex[e]
  OBVIOUS
<1>2. /\ x \in ExecutorRecord /\ x.pc = "verify" /\ x.act.done \subseteq run[p].done
      /\ x.act.pkg = p /\ x.force = FALSE /\ x.prev = Base /\ x.plan = Changed(p)
      /\ StepsOf(x.plan) \ x.todo \subseteq x.act.done /\ Orderly(x)
      /\ UNCHANGED <<run, releases, live, effects, late>>
  BY <1>1, SoleLoop, InLoop DEF VerifyActivation, Working, platform
<1>3. CASE ExpectedRelease(x) # 0 /\ head # 0 /\ ExpectedRelease(x) # head
  BY <1>1, <1>2, <1>3, SoleFailed DEF VerifyActivation, Working
<1>4. CASE ~(ExpectedRelease(x) # 0 /\ head # 0 /\ ExpectedRelease(x) # head)
  <2>1. PICK m : m = Checkpoint(x, "succeeded", {},
                                IF head # 0 THEN head ELSE ExpectedRelease(x))
    OBVIOUS
  <2>2. x.todo = {}
    BY <1>2 DEF Orderly, Finished
  <2>3. StepsOf(Changed(p)) \subseteq run[p].done
    BY <1>2, <2>2
  <2>4. Backed(p, m, run[p], releases)
    BY <2>1, <2>3 DEF Backed, Checkpoint
  <2>5. SoleExecutor(p, Send(x, m, "returned"), run[p], releases)
    BY <1>2, <2>4, SoleSend
  <2>6. ex' = [ex EXCEPT ![e] = Send(x, m, "returned")]
    BY <1>1, <1>4, <2>1 DEF VerifyActivation
  <2>7. QED
    BY <1>2, <2>5, <2>6, SoleLocal
<1>5. QED
  BY <1>3, <1>4

LEMMA InitSole == ASSUME NEW p, SoleRun(p) PROVE Init => SoleInv(p)
<1> SUFFICES ASSUME Init PROVE SoleInv(p)
  OBVIOUS
<1>1. run[p] = AbsentRun(p) /\ releases = <<>> /\ late = {} /\ effects[p] = {}
  BY SoleRunFacts DEF Init
<1>2. SoleRecord(p, run[p], releases)
  BY <1>1 DEF SoleRecord, AbsentRun
<1>3. \A e \in Executors : SoleExecutor(p, ex[e], run[p], releases)
  BY SoleIdle DEF Init
<1>4. Rooted(p, run[p], releases, live) /\ InPlace(p, effects, live) /\ Len(releases) <= 1
  BY <1>1 DEF Rooted, InPlace
<1>5. QED
  BY <1>1, <1>2, <1>3, <1>4 DEF SoleInv

LEMMA NextSole ==
    ASSUME NEW p, SoleRun(p)
    PROVE  RunInv /\ WorkInv /\ SoleInv(p) /\ [Next]_vars => SoleInv(p)'
<1> SUFFICES ASSUME RunInv, WorkInv, SoleInv(p), [Next]_vars PROVE SoleInv(p)'
  OBVIOUS
<1>1. TypeInv'
  BY NextType DEF RunInv
<1>2. ASSUME NEW e \in Executors, Command(e) PROVE SoleInv(p)'
  BY <1>2, SoleCommand
<1>3. ASSUME NEW e \in Executors, Progress(e) PROVE SoleInv(p)'
  BY <1>1, <1>3, SoleCreateRun, SoleRequestRunRetry, SoleReadPrevious, SoleBegin, SoleRespond,
     SoleSkipStep, SoleStartStep, SoleRunStep, SoleCaptureApp, SoleActivateApp,
     SoleFinishSteps, SoleVerifyActivation, SoleReportFailure, SoleStop DEF Progress
<1>4. ASSUME NEW e \in Executors, Fault(e) PROVE SoleInv(p)'
  <2>1. CASE Throw(e)
    BY <2>1, SoleFailed DEF Throw, Working, platform
  <2>2. QED
    BY <1>1, <1>4, <2>1, SoleNetwork, SoleStop DEF Fault
<1>5. ASSUME NEW m \in late, DeliverLate(m) PROVE SoleInv(p)'
  BY <1>1, <1>5, SoleDeliverLate
<1>6. CASE LeaseExpires
  BY <1>6, SoleIgnored DEF LeaseExpires
<1>7. CASE UNCHANGED vars
  BY <1>7, SoleIgnored DEF vars
<1>8. QED
  BY <1>2, <1>3, <1>4, <1>5, <1>6, <1>7 DEF Next

LEMMA SoleInvariant ==
    ASSUME NEW p, SoleRun(p)
    PROVE  Spec => [](RunInv /\ WorkInv /\ SoleInv(p))
<1>1. Init => SoleInv(p)
  BY InitSole
<1>2. RunInv /\ WorkInv /\ SoleInv(p) /\ [Next]_vars => SoleInv(p)'
  BY NextSole
<1>3. QED
  BY <1>1, <1>2, WorkInvariant, PTL DEF Spec

(* What is live, layer by layer.                                            *)
LEMMA SoleContent ==
    ASSUME NEW p, SoleRun(p), RunInv, SoleInv(p), NEW l \in Layers
    PROVE  /\ live[l][1] = p \/ l \notin Changed(p) => LiveContent[l] = Content[p][l]
           /\ live[l] = <<Base, 0>> => LiveContent[l] = Content[Base][l]
<1>1. live[l] \in Children /\ Runs = {p} /\ p # Base
  BY SoleRunFacts DEF RunInv, TypeInv, TypeOK
<1>2. live[l][1] = p \/ live[l][1] = Base
  BY <1>1 DEF Children
<1>3. PackageOf(p) = p /\ PackageOf(Base) = Base
  BY <1>1 DEF PackageOf, SoleInv, SoleRecord
<1>4. LiveContent[l] = Content[PackageOf(live[l][1])][l]
  BY DEF LiveContent
<1>5. l \notin Changed(p) => Content[p][l] = Content[Base][l]
  BY DEF Changed
<1>6. QED
  BY <1>1, <1>2, <1>3, <1>4, <1>5

(* With a root active, every staged layer has the content of the package.   *)
LEMMA SoleStagedContent ==
    ASSUME NEW p, SoleRun(p), RunInv, SoleInv(p), releases # <<>>, NEW l \in StagedLayers
    PROVE  LiveContent[l] = Content[p][l]
<1>1. l \in Layers
  BY StepNumbers
<1>2. l \in Changed(p) => live[l][1] = p
  BY DEF SoleInv, Rooted
<1>3. QED
  BY <1>1, <1>2, SoleContent

(* The steps of the plan are done: a root is active, or nothing staged      *)
(* changes at all.                                                          *)
LEMMA SoleReadyContent ==
    ASSUME NEW p, SoleRun(p), RunInv, SoleInv(p),
           StepsOf(Changed(p)) \subseteq run[p].done, NEW l \in Layers
    PROVE  LiveContent[l] = Content[p][l]
<1>1. CASE l \notin Changed(p)
  BY <1>1, SoleContent
<1>2. CASE l \in Changed(p)
  <2>1. Finalize \in run[p].done /\ l \in run[p].done
    BY <1>2 DEF StepsOf
  <2>2. CASE l \in StagedLayers
    BY <2>1, <2>2, SoleStagedContent DEF SoleInv, SoleRecord
  <2>3. CASE l \notin StagedLayers
    <3>1. l \in DirectLayers
      BY <2>3 DEF StagedLayers
    <3>2. l \in effects[p]
      BY <2>1, SoleRunFacts DEF RunInv, DoneBacked
    <3>3. live[l][1] = p
      BY <3>1, <3>2 DEF SoleInv, InPlace
    <3>4. QED
      BY <3>3, SoleContent
  <2>4. QED
    BY <2>2, <2>3
<1>3. QED
  BY <1>1, <1>2

(* As long as one package is deployed, a run that is reported as succeeded  *)
(* has put all of its package live, in whatever attempts, on whatever       *)
(* machines and with whatever answers lost, late or repeated.               *)
THEOREM SoleRunSucceedsLive ==
    ASSUME NEW p, SoleRun(p)
    PROVE  Spec => []SucceededRunIsLive
<1>1. ASSUME RunInv, WorkInv, SoleInv(p) PROVE SucceededRunIsLive
  <2>1. ASSUME run[p].status = "succeeded" PROVE LiveContent = Content[p]
    <3>1. StepsOf(Changed(p)) \subseteq run[p].done
      BY <1>1, <2>1 DEF SoleInv, SoleRecord
    <3>2. \A l \in Layers : LiveContent[l] = Content[p][l]
      BY <1>1, <3>1, SoleReadyContent
    <3>3. Content[p] = [l \in Layers |-> Content[p][l]]
      BY SoleRunFacts, ConstantsAssumption
    <3>4. LiveContent = [l \in Layers |-> LiveContent[l]]
      BY DEF LiveContent
    <3>5. QED
      BY <3>2, <3>3, <3>4
  <2>2. run[p].pkg = p /\ Runs = {p}
    BY <1>1, SoleRunFacts DEF SoleInv, SoleRecord
  <2>3. QED
    BY <2>1, <2>2 DEF SucceededRunIsLive
<1>2. QED
  BY <1>1, SoleInvariant, PTL

(* However many executors work on the run, in one attempt or in several, it *)
(* activates one App Release, if it stages anything.                        *)
THEOREM SoleRunActivatesOnce ==
    ASSUME NEW p, SoleRun(p), Changed(p) \cap StagedLayers # {}
    PROVE  Spec => []OneRootPerRun
<1>1. ASSUME RunInv, WorkInv, SoleInv(p) PROVE OneRootPerRun
  <2>1. Len(releases) <= 1 /\ Len(releases) \in Nat /\ DOMAIN releases = 1..Len(releases)
    BY <1>1 DEF SoleInv, RunInv, TypeInv, TypeOK
  <2>2. QED
    BY <2>1 DEF OneRootPerRun
<1>2. QED
  BY <1>1, SoleInvariant, PTL

(* The refinement.  What a step needs to know about what is live, before    *)
(* and after it.                                                            *)
SoleMeaning(p) ==
    /\ run[p].pkg = p
    /\ \A l \in Layers : LiveContent[l] = Content[live[l][1]][l]
    /\ releases # <<>> =>
         [l \in StagedLayers |-> LiveContent[l]] = [l \in StagedLayers |-> Content[p][l]]
    /\ run[p].status = "succeeded" =>
         [l \in StagedLayers |-> LiveContent[l]] = [l \in StagedLayers |-> Content[p][l]]

LEMMA SoleMeans ==
    ASSUME NEW p, SoleRun(p), RunInv, SoleInv(p)
    PROVE  SoleMeaning(p)
<1>1. run[p].pkg = p
  BY DEF SoleInv, SoleRecord
<1>2. ASSUME NEW l \in Layers PROVE LiveContent[l] = Content[live[l][1]][l]
  <2>1. live[l] \in Children /\ Runs = {p} /\ p # Base
    BY <1>2, SoleRunFacts DEF RunInv, TypeInv, TypeOK
  <2>2. live[l][1] = p \/ live[l][1] = Base
    BY <2>1 DEF Children
  <2>3. PackageOf(p) = p /\ PackageOf(Base) = Base
    BY <1>1, <2>1 DEF PackageOf
  <2>4. LiveContent[l] = Content[PackageOf(live[l][1])][l]
    BY <1>2 DEF LiveContent
  <2>5. QED
    BY <2>2, <2>3, <2>4
<1>3. ASSUME releases # <<>>, NEW l \in StagedLayers PROVE LiveContent[l] = Content[p][l]
  BY <1>3, SoleStagedContent
<1>4. ASSUME run[p].status = "succeeded", NEW l \in StagedLayers
      PROVE  LiveContent[l] = Content[p][l]
  <2>1. StepsOf(Changed(p)) \subseteq run[p].done
    BY <1>4 DEF SoleInv, SoleRecord
  <2>2. QED
    BY <1>4, <2>1, SoleReadyContent, StepNumbers
<1>5. QED
  BY <1>1, <1>2, <1>3, <1>4 DEF SoleMeaning

(* A succeeded run stays as it is.                                          *)
LEMMA SuccessIsFinal ==
    ASSUME RunInv, [Next]_vars, NEW r \in Runs, run[r].status = "succeeded"
    PROVE  run'[r].status = "succeeded"
<1>1. run \in [Runs -> RunRecord] /\ ex \in [Executors -> ExecutorRecord]
      /\ \A e \in Executors : ex[e].run \in Runs /\ ex[e].req.run \in Runs
  BY DEF RunInv, TypeInv, TypeOK, ExecutorRecord, Request
<1>2. ASSUME NEW m, m.run \in Runs, Accept(m) PROVE run'[r] = run[r]
  BY <1>1, <1>2 DEF Accept, Record
<1>3. ASSUME NEW m \in late, DeliverLate(m) PROVE run'[r] = run[r]
  <2>1. m.run \in Runs
    BY DEF RunInv, TypeInv, TypeOK, Request
  <2>2. QED
    BY <1>2, <1>3, <2>1 DEF DeliverLate
<1>4. ASSUME NEW e \in Executors, Respond(e) \/ AnswerLost(e) \/ ReportFailure(e)
      PROVE  run'[r] = run[r]
  <2>1. FailRequest(ex[e]).run \in Runs
    BY <1>1 DEF FailRequest
  <2>2. CASE Respond(e)
    BY <1>1, <1>2, <2>2 DEF Respond
  <2>3. CASE AnswerLost(e)
    BY <1>1, <1>2, <2>3 DEF AnswerLost
  <2>4. CASE ReportFailure(e)
    BY <1>2, <2>1, <2>4 DEF ReportFailure
  <2>5. QED
    BY <1>4, <2>2, <2>3, <2>4
<1>5. ASSUME NEW e \in Executors, CreateRun(e) \/ RequestRunRetry(e)
      PROVE  run'[r] = run[r]
  BY <1>1, <1>5 DEF CreateRun, RequestRunRetry, CanRetry
<1>6. ASSUME NEW e \in Executors, Progress(e) PROVE run'[r] = run[r]
  BY <1>4, <1>5, <1>6 DEF Progress, ReadPrevious, Begin, SkipStep, StartStep, RunStep,
     CaptureApp, ActivateApp, FinishSteps, VerifyActivation, Return, platform
<1>7. ASSUME NEW e \in Executors, Command(e) \/ Fault(e) PROVE run'[r] = run[r]
  BY <1>4, <1>7 DEF Command, Deploy, Rollback, Retry, Fault, Resend, Throw, Crash, platform
<1>8. CASE LeaseExpires \/ UNCHANGED vars
  BY <1>8 DEF LeaseExpires, vars
<1>9. QED
  BY <1>3, <1>6, <1>7, <1>8 DEF Next

(* Staged layers change only when a root is activated.                      *)
LEMMA StagedChanges ==
    ASSUME RunInv, [Next]_vars
    PROVE  \/ \A l \in StagedLayers : live'[l] = live[l]
           \/ UNCHANGED run /\ releases' # <<>>
<1>1. ASSUME NEW e \in Executors, RunStep(e)
      PROVE  \A l \in StagedLayers : live'[l] = live[l]
  BY <1>1 DEF RunStep, StagedLayers
<1>2. ASSUME NEW e \in Executors, ActivateApp(e)
      PROVE  UNCHANGED live \/ (UNCHANGED run /\ releases' # <<>>)
  <2>1. CASE HoldsLease(ex[e]) /\ head = ex[e].parent
    <3>1. PICK root : releases' = Append(releases, root)
      BY <1>2, <2>1 DEF ActivateApp
    <3>2. releases' # <<>>
      <4>1. releases \in Seq([run : Runs, children : SUBSET Layers, plan : SUBSET Layers])
        BY DEF RunInv, TypeInv, TypeOK
      <4>2. head' = Len(releases) + 1 /\ Len(releases) \in Nat
        BY <1>2, <2>1, <4>1 DEF ActivateApp
      <4>3. DOMAIN (Append(releases, root)) = 1..(Len(releases) + 1)
        BY <4>1
      <4>4. DOMAIN releases' # {}
        BY <3>1, <4>2, <4>3
      <4>5. QED
        BY <4>4
    <3>3. QED
      BY <1>2, <3>2 DEF ActivateApp
  <2>2. CASE ~(HoldsLease(ex[e]) /\ head = ex[e].parent)
    BY <1>2, <2>2 DEF ActivateApp
  <2>3. QED
    BY <2>1, <2>2
<1>3. ASSUME NEW e \in Executors, Progress(e)
      PROVE  \/ \A l \in StagedLayers : live'[l] = live[l]
             \/ UNCHANGED run /\ releases' # <<>>
  BY <1>1, <1>2, <1>3 DEF Progress, CreateRun, RequestRunRetry, ReadPrevious, Begin, Respond,
     SkipStep, StartStep, CaptureApp, FinishSteps, VerifyActivation, ReportFailure, Return,
     platform
<1>4. ASSUME NEW e \in Executors, Command(e) \/ Fault(e) PROVE UNCHANGED live
  BY <1>4 DEF Command, Deploy, Rollback, Retry, Fault, AnswerLost, Resend, Throw, Crash,
     platform
<1>5. ASSUME NEW m \in late, DeliverLate(m) PROVE UNCHANGED live
  BY <1>5 DEF DeliverLate
<1>6. CASE LeaseExpires \/ UNCHANGED vars
  BY <1>6 DEF LeaseExpires, vars
<1>7. QED
  BY <1>3, <1>4, <1>5, <1>6 DEF Next

LEMMA PromotionInit ==
    ASSUME NEW p, SoleRun(p), Init, SoleMeaning(p)
    PROVE  Promotion!Init
<1>1. \A l \in StagedLayers : l \in Layers /\ live[l] = <<Base, 0>>
  BY StepNumbers DEF Init
<1>2. \A l \in StagedLayers : LiveContent[l] = Content[Base][l]
  BY <1>1 DEF SoleMeaning
<1>3. \A r \in Runs : run[r].status # "succeeded"
  BY DEF Init, AbsentRun
<1>4. QED
  BY <1>2, <1>3 DEF Promotion!Init

LEMMA PromotionStep ==
    ASSUME NEW p, SoleRun(p), RunInv, SoleMeaning(p), SoleMeaning(p)', [Next]_vars
    PROVE  [Promotion!Next]_Promotion!vars
<1>1. PICK content, content2, ofPackage, confirmed, confirmed2 :
         /\ content = [l \in StagedLayers |-> LiveContent[l]]
         /\ content2 = [l \in StagedLayers |-> LiveContent[l]]'
         /\ ofPackage = [l \in StagedLayers |-> Content[p][l]]
         /\ confirmed = { run[r].pkg : r \in { q \in Runs : run[q].status = "succeeded" } }
         /\ confirmed2 = { run[r].pkg : r \in { q \in Runs : run[q].status = "succeeded" } }'
  OBVIOUS
<1>2. Runs = {p} /\ p \in Packages
  BY SoleRunFacts
<1>3. /\ confirmed = (IF run[p].status = "succeeded" THEN {p} ELSE {})
      /\ confirmed2 = (IF run'[p].status = "succeeded" THEN {p} ELSE {})
  BY <1>1, <1>2 DEF SoleMeaning
<1>4. run[p].status = "succeeded" => run'[p].status = "succeeded"
  BY <1>2, SuccessIsFinal
<1>5. CASE UNCHANGED run /\ releases' # <<>>
  <2>1. confirmed2 = confirmed
    BY <1>3, <1>5
  <2>2. content2 = ofPackage
    BY <1>1, <1>5 DEF SoleMeaning
  <2>3. Promotion!Promote(p)
    BY <1>1, <2>1, <2>2 DEF Promotion!Promote
  <2>4. QED
    BY <1>2, <2>3 DEF Promotion!Next
<1>6. CASE \A l \in StagedLayers : live'[l] = live[l]
  <2>1. content2 = content
    <3>1. \A l \in StagedLayers : LiveContent[l] = Content[live[l][1]][l]
                                  /\ LiveContent'[l] = Content[live'[l][1]][l]
      BY StepNumbers DEF SoleMeaning
    <3>2. QED
      BY <1>1, <1>6, <3>1
  <2>2. CASE run[p].status # "succeeded" /\ run'[p].status = "succeeded"
    <3>1. content2 = ofPackage
      BY <1>1, <2>2 DEF SoleMeaning
    <3>2. confirmed2 = confirmed \cup {p}
      BY <1>3, <2>2
    <3>3. Promotion!Confirm(p)
      BY <1>1, <2>1, <3>1, <3>2 DEF Promotion!Confirm
    <3>4. QED
      BY <1>2, <3>3 DEF Promotion!Next
  <2>3. CASE ~(run[p].status # "succeeded" /\ run'[p].status = "succeeded")
    <3>1. confirmed2 = confirmed
      BY <1>3, <1>4, <2>3
    <3>2. QED
      BY <1>1, <2>1, <3>1 DEF Promotion!vars
  <2>4. QED
    BY <2>2, <2>3
<1>7. QED
  BY <1>5, <1>6, StagedChanges

(* The steps, attempts and executors of a run implement AtomicPromotion: to *)
(* an observer the staged layers of a package change in one step, and a run *)
(* is reported as succeeded only while its package is what is live.         *)
THEOREM PromotionImplemented ==
    ASSUME NEW p, SoleRun(p)
    PROVE  Spec => ImplementsPromotion
<1>1. RunInv /\ SoleInv(p) => SoleMeaning(p)
  BY SoleMeans
<1>2. Init /\ SoleMeaning(p) => Promotion!Init
  BY PromotionInit
<1>3. RunInv /\ SoleMeaning(p) /\ SoleMeaning(p)' /\ [Next]_vars
      => [Promotion!Next]_Promotion!vars
  BY PromotionStep
<1>4. Spec => [](RunInv /\ WorkInv /\ SoleInv(p))
  BY SoleInvariant
<1>5. QED
  BY <1>1, <1>2, <1>3, <1>4, PTL DEF Spec, ImplementsPromotion, Promotion!Spec

-----------------------------------------------------------------------------
(* Rollbacks.  The publish lease of a first attempt is never obtained a     *)
(* second time: while an executor still has it, nobody else has written in  *)
(* place since the run was created.                                         *)

EffectsStarted == \A r \in Runs : run[r].attempt = 0 => effects[r] = {}

InPlaceHeld ==
    \A r \in Runs : lease = <<r, 1>> =>
        \A l \in effects[r] \cap DirectLayers : live[l] = <<r, 1>>

(* The first attempt of a rollback is its own executor, which releases      *)
(* every layer; whoever takes it over opens another attempt.                *)
Forced(x) ==
    x.run \in Rollbacks =>
      /\ x.pc = "create" => x.force = TRUE
      /\ x.pc \in {"begin", "previous"} \cup Working /\ x.act.attempt = 1 => x.force = TRUE
      /\ x.pc \in Working /\ x.force = TRUE => x.plan = Layers

RollbackInv ==
    /\ EffectsStarted
    /\ InPlaceHeld
    /\ \A e \in Executors : Forced(ex[e])

LEMMA InitRollbackInv == Init => RollbackInv
<1> SUFFICES ASSUME Init PROVE RollbackInv
  OBVIOUS
<1>1. \A r \in Runs : effects[r] = {}
  BY DEF Init
<1>2. \A e \in Executors : Forced(ex[e])
  BY DEF Init, Idle, Forced, Working
<1>3. QED
  BY <1>1, <1>2 DEF RollbackInv, EffectsStarted, InPlaceHeld

(* No attempt is forgotten.                                                 *)
LEMMA AttemptGrows ==
    ASSUME RunInv, WorkInv, [Next]_vars, NEW r \in Runs, run'[r].attempt = 0
    PROVE  run[r].attempt = 0
<1>1. /\ run \in [Runs -> RunRecord] /\ ex \in [Executors -> ExecutorRecord]
      /\ \A e \in Executors : ex[e].run \in Runs /\ ex[e].req \in Request
      /\ \A m \in Request : m.run \in Runs
  BY DEF RunInv, TypeInv, TypeOK, ExecutorRecord, Request
<1>2. ASSUME NEW m \in Request, Accept(m) PROVE run'[r].attempt = run[r].attempt
  <2>1. Record(run[m.run], m).attempt = run[m.run].attempt
    BY <1>1, RecordType
  <2>2. QED
    BY <1>1, <1>2, <2>1 DEF Accept
<1>3. ASSUME NEW m \in late, DeliverLate(m) PROVE run[r].attempt = 0
  <2>1. m \in Request
    BY DEF RunInv, TypeInv, TypeOK
  <2>2. QED
    BY <1>2, <1>3, <2>1 DEF DeliverLate
<1>4. ASSUME NEW e \in Executors, Respond(e) \/ AnswerLost(e) \/ ReportFailure(e)
      PROVE  run[r].attempt = 0
  <2>1. FailRequest(ex[e]) \in Request
    BY <1>1 DEF FailRequest, Request, Statuses, ExecutorRecord, RunRecord
  <2>2. CASE Respond(e)
    BY <1>1, <1>2, <2>2 DEF Respond
  <2>3. CASE AnswerLost(e)
    BY <1>1, <1>2, <2>3 DEF AnswerLost
  <2>4. CASE ReportFailure(e)
    BY <1>2, <2>1, <2>4 DEF ReportFailure
  <2>5. QED
    BY <1>4, <2>2, <2>3, <2>4
<1>5. ASSUME NEW e \in Executors, CreateRun(e) PROVE run[r].attempt = 0
  BY <1>1, <1>5 DEF CreateRun, WorkInv, RecordsOK
<1>6. ASSUME NEW e \in Executors, RequestRunRetry(e) PROVE run[r].attempt = 0
  <2>1. \A q \in Runs : run[q].attempt \in Nat
    BY <1>1 DEF RunRecord
  <2>2. CASE CanRetry(e)
    <3>1. PICK rec : rec = OpenAttempt(ex[e].run)
      OBVIOUS
    <3>2. rec.attempt = run[ex[e].run].attempt + 1
      BY <1>1, <3>1 DEF OpenAttempt, RunRecord
    <3>3. run' = [run EXCEPT ![ex[e].run] = rec]
      BY <1>6, <2>2, <3>1 DEF RequestRunRetry
    <3>4. QED
      BY <1>1, <2>1, <3>2, <3>3
  <2>3. CASE ~CanRetry(e)
    BY <1>6, <2>3 DEF RequestRunRetry
  <2>4. QED
    BY <2>2, <2>3
<1>7. ASSUME NEW e \in Executors, Progress(e) PROVE run[r].attempt = 0
  BY <1>4, <1>5, <1>6, <1>7 DEF Progress, ReadPrevious, Begin, SkipStep, StartStep, RunStep,
     CaptureApp, ActivateApp, FinishSteps, VerifyActivation, Return, platform
<1>8. ASSUME NEW e \in Executors, Command(e) \/ Fault(e) PROVE run[r].attempt = 0
  BY <1>4, <1>8 DEF Command, Deploy, Rollback, Retry, Fault, Resend, Throw, Crash, platform
<1>9. CASE LeaseExpires \/ UNCHANGED vars
  BY <1>9 DEF LeaseExpires, vars
<1>10. QED
  BY <1>3, <1>7, <1>8, <1>9 DEF Next

(* An executor that writes has its run started.                             *)
LEMMA WriterStarted ==
    ASSUME RunInv, WorkInv, NEW e \in Executors, ex[e].pc \notin {"idle", "create"}
    PROVE  run[ex[e].run].attempt # 0
<1>1. /\ Knows(ex[e], run[ex[e].run]) /\ ex[e].act.attempt # 0
      /\ ex[e] \in ExecutorRecord /\ run[ex[e].run] \in RunRecord
  BY Actor DEF ExecutorOK, RunInv, AttemptsKnown
<1>2. ex[e].act.attempt \in Nat /\ run[ex[e].run].attempt \in Nat
  BY <1>1 DEF ExecutorRecord, RunRecord
<1>3. QED
  BY <1>1, <1>2 DEF Knows

(* Effects are those of RunStep, by the holder of the lease.                *)
LEMMA EffectsChange ==
    ASSUME RunInv, [Next]_vars
    PROVE  UNCHANGED effects \/ \E e \in Executors : RunStep(e) /\ HoldsLease(ex[e])
<1>1. ASSUME NEW e \in Executors, Progress(e)
      PROVE  UNCHANGED effects \/ (RunStep(e) /\ HoldsLease(ex[e]))
  BY <1>1 DEF Progress, CreateRun, RequestRunRetry, ReadPrevious, Begin, Respond,
     SkipStep, StartStep, RunStep, CaptureApp, ActivateApp, FinishSteps, VerifyActivation,
     ReportFailure, Return, platform
<1>2. ASSUME NEW e \in Executors, Command(e) \/ Fault(e) PROVE UNCHANGED effects
  BY <1>2 DEF Command, Deploy, Rollback, Retry, Fault, AnswerLost, Resend, Throw, Crash,
     platform
<1>3. ASSUME NEW m \in late, DeliverLate(m) PROVE UNCHANGED effects
  BY <1>3 DEF DeliverLate
<1>4. CASE LeaseExpires \/ UNCHANGED vars
  BY <1>4 DEF LeaseExpires, vars
<1>5. QED
  BY <1>1, <1>2, <1>3, <1>4 DEF Next

LEMMA EffectsStartedStep ==
    ASSUME RunInv, WorkInv, EffectsStarted, [Next]_vars
    PROVE  EffectsStarted'
<1>1. CASE UNCHANGED effects
  BY <1>1, AttemptGrows DEF EffectsStarted
<1>2. ASSUME NEW e \in Executors, RunStep(e), HoldsLease(ex[e]) PROVE EffectsStarted'
  <2>1. run[ex[e].run].attempt # 0
    BY <1>2, WriterStarted DEF RunStep
  <2>2. UNCHANGED run /\ effects' = [effects EXCEPT ![ex[e].run] =
                                       @ \cup ({NextStep(ex[e])} \cap Layers)]
    BY <1>2 DEF RunStep
  <2>3. effects \in [Runs -> SUBSET Layers]
    BY DEF RunInv, TypeInv, TypeOK
  <2>4. QED
    BY <2>1, <2>2, <2>3 DEF EffectsStarted
<1>3. QED
  BY <1>1, <1>2, EffectsChange

(* How the lease of a first attempt comes about.                            *)
LEMMA FirstLease ==
    ASSUME RunInv, WorkInv, [Next]_vars, NEW r \in Runs, lease' = <<r, 1>>
    PROVE  lease = <<r, 1>> \/ run[r].attempt = 0
<1>1. /\ run \in [Runs -> RunRecord]
      /\ \A e \in Executors : ex[e].run \in Runs
      /\ NoLease # <<r, 1>>
  BY DEF RunInv, TypeInv, TypeOK, ExecutorRecord, NoLease
<1>2. ASSUME NEW m, Accept(m) PROVE lease = <<r, 1>>
  BY <1>1, <1>2 DEF Accept, LeaseAfter
<1>3. ASSUME NEW e \in Executors, CreateRun(e)
      PROVE  lease = <<r, 1>> \/ run[r].attempt = 0
  <2>1. CASE lease' = <<ex[e].run, 1>> /\ run[ex[e].run].status = "absent"
    BY <1>1, <2>1 DEF WorkInv, RecordsOK
  <2>2. QED
    BY <1>3, <2>1 DEF CreateRun
<1>4. ASSUME NEW e \in Executors, RequestRunRetry(e) PROVE lease = <<r, 1>>
  <2>1. run[ex[e].run].attempt # 0 /\ run[ex[e].run].attempt \in Nat
    BY <1>1, <1>4, WriterStarted DEF RequestRunRetry, RunRecord
  <2>2. <<ex[e].run, run[ex[e].run].attempt + 1>> # <<r, 1>>
    BY <2>1
  <2>3. QED
    BY <1>4, <2>2 DEF RequestRunRetry
<1>5. ASSUME NEW e \in Executors, Respond(e) \/ AnswerLost(e) \/ ReportFailure(e)
      PROVE  lease = <<r, 1>>
  BY <1>2, <1>5 DEF Respond, AnswerLost, ReportFailure
<1>6. ASSUME NEW e \in Executors, Progress(e) PROVE lease = <<r, 1>> \/ run[r].attempt = 0
  BY <1>3, <1>4, <1>5, <1>6 DEF Progress, ReadPrevious, Begin, SkipStep, StartStep, RunStep,
     CaptureApp, ActivateApp, FinishSteps, VerifyActivation, Return, platform
<1>7. ASSUME NEW e \in Executors, Command(e) \/ Fault(e) PROVE lease = <<r, 1>>
  BY <1>5, <1>7 DEF Command, Deploy, Rollback, Retry, Fault, Resend, Throw, Crash, platform
<1>8. ASSUME NEW m \in late, DeliverLate(m) PROVE lease = <<r, 1>>
  BY <1>2, <1>8 DEF DeliverLate
<1>9. CASE LeaseExpires \/ UNCHANGED vars
  BY <1>1, <1>9 DEF LeaseExpires, vars
<1>10. QED
  BY <1>6, <1>7, <1>8, <1>9 DEF Next

(* Layers that are written in place change only in RunStep.                 *)
LEMMA DirectChanges ==
    ASSUME RunInv, [Next]_vars
    PROVE  \/ \A l \in DirectLayers : live'[l] = live[l]
           \/ \E e \in Executors : RunStep(e) /\ HoldsLease(ex[e])
<1>1. ASSUME NEW e \in Executors, ActivateApp(e)
      PROVE  \A l \in DirectLayers : live'[l] = live[l]
  BY <1>1, ConstantsAssumption DEF ActivateApp, StagedChildren, StagedLayers
<1>2. ASSUME NEW e \in Executors, Progress(e)
      PROVE  \/ \A l \in DirectLayers : live'[l] = live[l]
             \/ RunStep(e) /\ HoldsLease(ex[e])
  BY <1>1, <1>2 DEF Progress, CreateRun, RequestRunRetry, ReadPrevious, Begin, Respond,
     SkipStep, StartStep, RunStep, CaptureApp, FinishSteps, VerifyActivation, ReportFailure,
     Return, platform
<1>3. ASSUME NEW e \in Executors, Command(e) \/ Fault(e) PROVE UNCHANGED live
  BY <1>3 DEF Command, Deploy, Rollback, Retry, Fault, AnswerLost, Resend, Throw, Crash,
     platform
<1>4. ASSUME NEW m \in late, DeliverLate(m) PROVE UNCHANGED live
  BY <1>4 DEF DeliverLate
<1>5. CASE LeaseExpires \/ UNCHANGED vars
  BY <1>5 DEF LeaseExpires, vars
<1>6. QED
  BY <1>2, <1>3, <1>4, <1>5 DEF Next

LEMMA InPlaceHeldStep ==
    ASSUME RunInv, WorkInv, EffectsStarted, InPlaceHeld, [Next]_vars
    PROVE  InPlaceHeld'
<1>1. ASSUME NEW e \in Executors, RunStep(e), HoldsLease(ex[e]) PROVE InPlaceHeld'
  <2>1. PICK x, s : x = ex[e] /\ s = NextStep(x)
    OBVIOUS
  <2>2. /\ effects' = [effects EXCEPT ![x.run] = @ \cup ({s} \cap Layers)]
        /\ live' = [l \in Layers |-> IF l = s /\ l \in DirectLayers
                                     THEN <<x.run, x.act.attempt>> ELSE live[l]]
        /\ UNCHANGED lease /\ lease = <<x.run, x.act.attempt>>
    BY <1>1, <2>1 DEF RunStep, HoldsLease
  <2>3. effects \in [Runs -> SUBSET Layers] /\ x.run \in Runs /\ DirectLayers \subseteq Layers
    BY <2>1, ConstantsAssumption DEF RunInv, TypeInv, TypeOK, ExecutorRecord
  <2>4. ASSUME NEW r \in Runs, lease = <<r, 1>>, NEW l \in effects'[r] \cap DirectLayers
        PROVE  live'[l] = <<r, 1>>
    <3>1. r = x.run /\ x.act.attempt = 1
      BY <2>2, <2>4
    <3>2. CASE l = s
      BY <2>2, <2>3, <2>4, <3>1, <3>2
    <3>3. CASE l # s
      <4>1. l \in effects[r] \cap DirectLayers /\ live'[l] = live[l]
        BY <2>2, <2>3, <2>4, <3>1, <3>3
      <4>2. QED
        BY <2>4, <4>1 DEF InPlaceHeld
    <3>4. QED
      BY <3>2, <3>3
  <2>5. QED
    BY <2>2, <2>4 DEF InPlaceHeld
<1>2. ASSUME UNCHANGED effects, \A l \in DirectLayers : live'[l] = live[l] PROVE InPlaceHeld'
  <2>1. ASSUME NEW r \in Runs, lease' = <<r, 1>>, NEW l \in effects[r] \cap DirectLayers
        PROVE  live[l] = <<r, 1>>
    BY <2>1, FirstLease DEF EffectsStarted, InPlaceHeld
  <2>2. QED
    BY <1>2, <2>1 DEF InPlaceHeld
<1>3. QED
  BY <1>1, <1>2, EffectsChange, DirectChanges

(* Of the executors, the one that acts becomes y, or none changes.          *)
LEMMA ForcedLocal ==
    ASSUME RunInv, WorkInv, RollbackInv, NEW e \in Executors, NEW y,
           ex' = [ex EXCEPT ![e] = y], Forced(y)
    PROVE  \A f \in Executors : Forced(ex'[f])
<1>1. ex'[e] = y /\ \A f \in Executors : f # e => ex'[f] = ex[f]
  BY Actor
<1>2. QED
  BY <1>1 DEF RollbackInv

LEMMA ForcedIdle == Forced(Idle)
BY DEF Forced, Idle, Working

(* Further steps of an executor that is past the begin of executeRun.       *)
LEMMA ForcedOn ==
    ASSUME NEW x, NEW y, Forced(x), x.pc \in Working, y.run = x.run, y.force = x.force,
           y.plan = x.plan, y.act.attempt = x.act.attempt,
           y.pc \in Working \cup {"failing", "returned"}
    PROVE  Forced(y)
BY DEF Forced, Working

LEMMA CommandForced ==
    ASSUME RunInv, WorkInv, RollbackInv, NEW e \in Executors, Command(e)
    PROVE  \A f \in Executors : Forced(ex'[f])
<1>1. ASSUME NEW q \in Packages, Deploy(e, q) PROVE \A f \in Executors : Forced(ex'[f])
  <2>1. PICK y : y = [Idle EXCEPT !.pc = "create", !.run = q, !.act = AbsentRun(q),
                                  !.prev = LatestSuccessfulRun({})]
    OBVIOUS
  <2>2. y.run = q
    BY <2>1 DEF Idle
  <2>3. Forced(y)
    BY <2>2, ConstantsAssumption DEF Forced
  <2>4. ex' = [ex EXCEPT ![e] = y]
    BY <1>1, <2>1 DEF Deploy
  <2>5. QED
    BY <2>3, <2>4, ForcedLocal
<1>2. ASSUME NEW r \in Rollbacks, NEW rel, Rollback(e, r, rel)
      PROVE  \A f \in Executors : Forced(ex'[f])
  <2> DEFINE S == FindSuccessfulRunByRelease(rel)
             q == CHOOSE i \in S : \A j \in S : j <= i
  <2>1. PICK y : y = [Idle EXCEPT !.pc = "create", !.run = r,
                                  !.act = AbsentRun(run[created[q]].pkg), !.force = TRUE]
    OBVIOUS
  <2>2. y.pc = "create" /\ y.force = TRUE
    BY <2>1 DEF Idle
  <2>3. Forced(y)
    BY <2>2 DEF Forced, Working
  <2>4. ex' = [ex EXCEPT ![e] = y]
    BY <1>2, <2>1 DEF Rollback
  <2>5. QED
    BY <2>3, <2>4, ForcedLocal
<1>3. ASSUME NEW r \in Runs, Retry(e, r) PROVE \A f \in Executors : Forced(ex'[f])
  <2>1. PICK y : y = [Idle EXCEPT !.run = r, !.act = run[r],
                               !.pc = IF run[r].status = "succeeded" THEN "returned"
                                      ELSE "retry",
                               !.next = "previous"]
    OBVIOUS
  <2>2. y.pc \in {"retry", "returned"}
    BY <2>1 DEF Idle
  <2>3. Forced(y)
    BY <2>2 DEF Forced, Working
  <2>4. ex' = [ex EXCEPT ![e] = y]
    BY <1>3, <2>1 DEF Retry
  <2>5. QED
    BY <2>3, <2>4, ForcedLocal
<1>4. QED
  BY <1>1, <1>2, <1>3 DEF Command

LEMMA StartForced ==
    ASSUME RunInv, WorkInv, RollbackInv, NEW e \in Executors,
           CreateRun(e) \/ RequestRunRetry(e) \/ ReadPrevious(e) \/ Begin(e)
    PROVE  \A f \in Executors : Forced(ex'[f])
<1>1. PICK x : x = ex[e]
  OBVIOUS
<1>2. x \in ExecutorRecord /\ Forced(x) /\ run \in [Runs -> RunRecord]
      /\ ex \in [Executors -> ExecutorRecord] /\ x.run \in Runs
  BY <1>1, Actor DEF RollbackInv, RunInv, TypeInv, TypeOK
<1>3. CASE CreateRun(e)
  <2>1. x.pc = "create" /\ (x.run \in Rollbacks => x.force = TRUE)
    BY <1>1, <1>2, <1>3 DEF CreateRun, Forced
  <2>2. PICK y : /\ ex' = [ex EXCEPT ![e] = y]
                 /\ \/ \E rec : y = [x EXCEPT !.act = rec, !.pc = "begin"]
                    \/ \E rec : y = [x EXCEPT !.act = rec, !.pc = "returned"]
                    \/ \E rec : y = [x EXCEPT !.act = rec, !.pc = "retry", !.next = "begin"]
                    \/ y = Idle
    BY <1>1, <1>3 DEF CreateRun
  <2>3. y = Idle \/ (y.pc \in {"begin", "returned", "retry"} /\ y.run = x.run /\ y.force = x.force)
    BY <1>2, <2>2 DEF ExecutorRecord
  <2>4. Forced(y)
    BY <2>1, <2>3, ForcedIdle DEF Forced, Working
  <2>5. QED
    BY <2>2, <2>4, ForcedLocal
<1>4. CASE RequestRunRetry(e)
  <2>1. x.pc = "retry" /\ x.next \in {"previous", "begin"}
    BY <1>1, <1>4, Actor DEF RequestRunRetry, ExecutorOK
  <2>2. CASE ex' = ex
    BY <2>2 DEF RollbackInv
  <2>3. CASE ex' = [ex EXCEPT ![e] = Idle]
    BY <2>3, ForcedIdle, ForcedLocal
  <2>4. CASE CanRetry(e) /\ ex' = [ex EXCEPT ![e] = [@ EXCEPT !.act = run'[ex[e].run], !.pc = ex[e].next]]
    <3>1. PICK rec : rec = OpenAttempt(x.run)
      OBVIOUS
    <3>2. run[x.run].attempt # 0 /\ run[x.run].attempt \in Nat
      BY <1>1, <1>2, <2>1, WriterStarted DEF RunRecord
    <3>3. rec.attempt # 1
      <4>1. rec.attempt = run[x.run].attempt + 1
        BY <1>2, <3>1 DEF OpenAttempt, RunRecord
      <4>2. QED
        BY <3>2, <4>1
    <3>4. run'[x.run] = rec
      BY <1>1, <1>2, <1>4, <2>4, <3>1 DEF RequestRunRetry
    <3>5. PICK y : y = [x EXCEPT !.act = rec, !.pc = x.next]
      OBVIOUS
    <3>6. y.pc = x.next /\ y.act = rec
      BY <1>2, <3>5 DEF ExecutorRecord
    <3>7. Forced(y)
      BY <2>1, <3>3, <3>6 DEF Forced, Working
    <3>8. ex' = [ex EXCEPT ![e] = y]
      BY <1>1, <1>2, <2>4, <3>4, <3>5
    <3>9. QED
      BY <3>7, <3>8, ForcedLocal
  <2>5. QED
    BY <1>4, <2>2, <2>3, <2>4 DEF RequestRunRetry
<1>5. CASE ReadPrevious(e)
  <2>1. PICK y : y = [x EXCEPT !.prev = LatestSuccessfulRun({x.run}), !.pc = "begin"]
    OBVIOUS
  <2>2. y.pc = "begin" /\ y.run = x.run /\ y.force = x.force /\ y.act = x.act
        /\ x.pc = "previous"
    BY <1>1, <1>2, <1>5, <2>1 DEF ExecutorRecord, ReadPrevious
  <2>3. Forced(y)
    BY <1>2, <2>2 DEF Forced, Working
  <2>4. ex' = [ex EXCEPT ![e] = y]
    BY <1>1, <1>5, <2>1 DEF ReadPrevious
  <2>5. QED
    BY <2>3, <2>4, ForcedLocal
<1>6. CASE Begin(e)
  <2>1. PICK targets, w :
           /\ targets = ReleaseTargets(x.act.pkg, x.prev, x.force)
           /\ w = [x EXCEPT !.plan = targets, !.todo = StepsOf(targets)]
    OBVIOUS
  <2>2. PICK y : y = Send(w, Checkpoint(w, "preparing", {}, 0), "loop")
    OBVIOUS
  <2>3. targets \in SUBSET Layers /\ StepsOf(targets) \in SUBSET Steps
    BY <1>2, <2>1, PlanType
  <2>4. w \in ExecutorRecord /\ w.act = x.act /\ w.run = x.run /\ w.force = x.force
        /\ w.plan = targets
    BY <1>2, <2>1, <2>3 DEF ExecutorRecord
  <2>5. y.pc = "await" /\ y.act = x.act /\ y.run = x.run /\ y.force = x.force
        /\ y.plan = targets
    BY <2>2, <2>4 DEF Send, ExecutorRecord
  <2>6. x.force = TRUE => targets = Layers
    BY <2>1 DEF ReleaseTargets
  <2>7. Forced(y)
    BY <1>1, <1>2, <1>6, <2>5, <2>6 DEF Forced, Working, Begin
  <2>8. ex' = [ex EXCEPT ![e] = y]
    BY <1>1, <1>6, <2>1, <2>2 DEF Begin
  <2>9. QED
    BY <2>7, <2>8, ForcedLocal
<1>7. QED
  BY <1>3, <1>4, <1>5, <1>6

(* The answer to a request is the run in the attempt of the request.        *)
LEMMA RespondForced ==
    ASSUME RunInv, WorkInv, RollbackInv, NEW e \in Executors, Respond(e)
    PROVE  \A f \in Executors : Forced(ex'[f])
<1>1. PICK x, m : x = ex[e] /\ m = ex[e].req
  OBVIOUS
<1>2. /\ x \in ExecutorRecord /\ Forced(x) /\ x.pc = "await" /\ Orderly(x)
      /\ m \in Request /\ Sound(m) /\ m.run = x.run /\ m.att = x.act.attempt
      /\ run \in [Runs -> RunRecord] /\ ex \in [Executors -> ExecutorRecord]
      /\ x.run \in Runs
  BY <1>1, Actor, InFlight DEF Respond, RollbackInv, RunInv, TypeInv, TypeOK, Orderly
<1>3. CASE /\ CanRecord(run[m.run], m) /\ Accept(m)
           /\ ex' = [ex EXCEPT ![e] = [@ EXCEPT !.act = run'[m.run], !.pc = ex[e].next]]
  <2>1. PICK rec : rec = Record(run[m.run], m)
    OBVIOUS
  <2>2. rec.attempt = run[x.run].attempt /\ run'[m.run] = rec
    BY <1>2, <1>3, <2>1, RecordType DEF Accept
  <2>3. run[x.run].attempt = x.act.attempt
    BY <1>2, <1>3 DEF CanRecord, Fence, Sound
  <2>4. PICK y : y = [x EXCEPT !.act = rec, !.pc = x.next]
    OBVIOUS
  <2>5. y.act = rec /\ y.pc = x.next /\ y.run = x.run /\ y.force = x.force /\ y.plan = x.plan
    BY <1>2, <2>4 DEF ExecutorRecord
  <2>6. x.next \in {"loop", "capture", "verify", "returned"}
    BY <1>2 DEF Orderly
  <2>7. Forced(y)
    <3>1. y.act.attempt = x.act.attempt
      BY <2>2, <2>3, <2>5
    <3>2. y.pc \in Working \cup {"failing", "returned"} /\ x.pc \in Working
      BY <1>2, <2>5, <2>6 DEF Working
    <3>3. QED
      BY <1>2, <2>5, <3>1, <3>2, ForcedOn
  <2>8. ex' = [ex EXCEPT ![e] = y]
    BY <1>1, <1>2, <1>3, <2>2, <2>4
  <2>9. QED
    BY <2>7, <2>8, ForcedLocal
<1>4. CASE ex' = [ex EXCEPT ![e] = AfterRefusal(@)]
  <2>1. PICK y : y = AfterRefusal(x)
    OBVIOUS
  <2>2. y.pc = "failing"
    BY <1>2, <2>1 DEF AfterRefusal, ExecutorRecord
  <2>3. Forced(y)
    BY <2>2 DEF Forced, Working
  <2>4. QED
    BY <1>1, <1>4, <2>1, <2>3, ForcedLocal
<1>5. QED
  BY <1>1, <1>3, <1>4 DEF Respond

LEMMA WorkForced ==
    ASSUME RunInv, WorkInv, RollbackInv, NEW e \in Executors,
           \/ SkipStep(e) \/ StartStep(e) \/ RunStep(e) \/ CaptureApp(e) \/ ActivateApp(e)
           \/ FinishSteps(e) \/ VerifyActivation(e) \/ Throw(e)
    PROVE  \A f \in Executors : Forced(ex'[f])
<1>1. PICK x : x = ex[e]
  OBVIOUS
<1>2. x \in ExecutorRecord /\ Forced(x) /\ x.pc \in Working
      /\ ex \in [Executors -> ExecutorRecord]
  BY <1>1, Actor DEF RollbackInv, SkipStep, StartStep, RunStep, CaptureApp, ActivateApp,
     FinishSteps, VerifyActivation, Throw, Working
<1>3. ASSUME NEW y, ex' = [ex EXCEPT ![e] = y], y.run = x.run, y.force = x.force,
             y.plan = x.plan, y.act = x.act, y.pc \in Working \cup {"failing"}
      PROVE  \A f \in Executors : Forced(ex'[f])
  BY <1>2, <1>3, ForcedOn, ForcedLocal
<1>4. ASSUME NEW w \in ExecutorRecord, NEW m, NEW n, w.run = x.run, w.force = x.force,
             w.plan = x.plan, w.act = x.act, ex' = [ex EXCEPT ![e] = Send(w, m, n)]
      PROVE  \A f \in Executors : Forced(ex'[f])
  <2>1. PICK y : y = Send(w, m, n)
    OBVIOUS
  <2>2. y.pc = "await" /\ y.run = w.run /\ y.force = w.force /\ y.plan = w.plan /\ y.act = w.act
    BY <1>4, <2>1 DEF Send, ExecutorRecord
  <2>3. QED
    BY <1>3, <1>4, <2>1, <2>2 DEF Working
<1>5. ASSUME NEW pc \in Working \cup {"failing"}, ex' = [ex EXCEPT ![e] = [x EXCEPT !.pc = pc]]
      PROVE  \A f \in Executors : Forced(ex'[f])
  <2>1. PICK y : y = [x EXCEPT !.pc = pc]
    OBVIOUS
  <2>2. y.pc = pc /\ y.run = x.run /\ y.force = x.force /\ y.plan = x.plan /\ y.act = x.act
    BY <1>2, <2>1 DEF ExecutorRecord
  <2>3. QED
    BY <1>3, <1>5, <2>1, <2>2
<1>6. CASE SkipStep(e)
  <2>1. PICK s, rest : s = NextStep(x) /\ rest = [x EXCEPT !.todo = @ \ {s}]
    OBVIOUS
  <2>2. x.todo \in SUBSET Steps
    BY <1>2 DEF ExecutorRecord
  <2>3. /\ rest \in ExecutorRecord /\ rest.pc = x.pc /\ rest.act = x.act /\ rest.run = x.run
        /\ rest.force = x.force /\ rest.plan = x.plan
    BY <1>2, <2>1, <2>2 DEF ExecutorRecord
  <2>4. PICK w : w = [rest EXCEPT !.bound = TRUE]
    OBVIOUS
  <2>5. /\ w \in ExecutorRecord /\ w.act = x.act /\ w.run = x.run
        /\ w.force = x.force /\ w.plan = x.plan
    BY <2>3, <2>4 DEF ExecutorRecord
  <2>6. CASE s = Ensure
    <3>1. ex' = [ex EXCEPT ![e] = Send(w, Checkpoint(rest, "preparing", {}, 0), "loop")]
      BY <1>1, <1>6, <2>1, <2>4, <2>6 DEF SkipStep, Replay
    <3>2. QED
      BY <1>4, <2>5, <3>1
  <2>7. CASE s # Ensure
    <3>1. ex' = [ex EXCEPT ![e] = rest]
      BY <1>1, <1>6, <2>1, <2>7 DEF SkipStep
    <3>2. QED
      BY <1>2, <1>3, <2>3, <3>1
  <2>8. QED
    BY <2>6, <2>7
<1>7. CASE StartStep(e)
  BY <1>1, <1>2, <1>4, <1>5, <1>7 DEF StartStep, Working
<1>8. CASE RunStep(e)
  <2>1. PICK s, w : /\ s = NextStep(x)
                    /\ w = [x EXCEPT !.todo = @ \ {s}, !.bound = (s = Ensure) \/ @]
    OBVIOUS
  <2>2. /\ w \in ExecutorRecord /\ w.act = x.act /\ w.run = x.run
        /\ w.force = x.force /\ w.plan = x.plan
    BY <1>2, <2>1 DEF ExecutorRecord
  <2>3. CASE HoldsLease(x)
    <3>1. ex' = [ex EXCEPT ![e] = Send(w, Checkpoint(x, "same", {s}, 0), "loop")]
      BY <1>1, <1>8, <2>1, <2>3 DEF RunStep, StepDone
    <3>2. QED
      BY <1>4, <2>2, <3>1
  <2>4. CASE ~HoldsLease(x)
    BY <1>1, <1>5, <1>8, <2>4 DEF RunStep, StepFailed
  <2>5. QED
    BY <2>3, <2>4
<1>9. CASE CaptureApp(e)
  <2>1. PICK y : y = [x EXCEPT !.pc = "activate", !.parent = head]
    OBVIOUS
  <2>2. y.pc = "activate" /\ y.run = x.run /\ y.force = x.force /\ y.plan = x.plan
        /\ y.act = x.act
    BY <1>2, <2>1 DEF ExecutorRecord
  <2>3. CASE ex' = [ex EXCEPT ![e] = y]
    BY <1>3, <2>2, <2>3 DEF Working
  <2>4. CASE ex' = [ex EXCEPT ![e] = [x EXCEPT !.pc = "failing"]]
    BY <1>5, <2>4
  <2>5. QED
    BY <1>1, <1>9, <2>1, <2>3, <2>4 DEF CaptureApp
<1>10. CASE ActivateApp(e)
  <2>1. PICK n, w : /\ n = Len(releases) + 1
                    /\ w = [x EXCEPT !.todo = @ \ {Finalize}, !.own = n]
    OBVIOUS
  <2>2. n \in Nat
    BY <2>1 DEF RunInv, TypeInv, TypeOK
  <2>3. /\ w \in ExecutorRecord /\ w.act = x.act /\ w.run = x.run
        /\ w.force = x.force /\ w.plan = x.plan
    BY <1>2, <2>1, <2>2 DEF ExecutorRecord
  <2>4. CASE HoldsLease(x) /\ head = x.parent
    <3>1. ex' = [ex EXCEPT ![e] = Send(w, Checkpoint(x, "same", {Finalize}, n), "loop")]
      BY <1>1, <1>10, <2>1, <2>4 DEF ActivateApp
    <3>2. QED
      BY <1>4, <2>3, <3>1
  <2>5. CASE ~(HoldsLease(x) /\ head = x.parent)
    BY <1>1, <1>5, <1>10, <2>5 DEF ActivateApp
  <2>6. QED
    BY <2>4, <2>5
<1>11. CASE FinishSteps(e)
  BY <1>1, <1>2, <1>4, <1>5, <1>11 DEF FinishSteps, Working
<1>12. CASE VerifyActivation(e)
  BY <1>1, <1>2, <1>4, <1>5, <1>12 DEF VerifyActivation
<1>13. CASE Throw(e)
  BY <1>1, <1>5, <1>13 DEF Throw
<1>14. QED
  BY <1>6, <1>7, <1>8, <1>9, <1>10, <1>11, <1>12, <1>13

LEMMA NextRollbackInv ==
    RunInv /\ WorkInv /\ RollbackInv /\ [Next]_vars => RollbackInv'
<1> SUFFICES ASSUME RunInv, WorkInv, RollbackInv, [Next]_vars PROVE RollbackInv'
  OBVIOUS
<1>1. EffectsStarted' /\ InPlaceHeld'
  BY EffectsStartedStep, InPlaceHeldStep DEF RollbackInv
<1>2. ASSUME NEW e \in Executors, Crash(e) \/ Return(e) \/ ReportFailure(e)
      PROVE  \A f \in Executors : Forced(ex'[f])
  BY <1>2, ForcedIdle, ForcedLocal DEF Crash, Return, ReportFailure
<1>3. ASSUME NEW e \in Executors, Progress(e) PROVE \A f \in Executors : Forced(ex'[f])
  BY <1>2, <1>3, StartForced, RespondForced, WorkForced DEF Progress
<1>4. ASSUME NEW e \in Executors, Fault(e) PROVE \A f \in Executors : Forced(ex'[f])
  BY <1>2, <1>4, WorkForced DEF Fault, AnswerLost, Resend, platform, RollbackInv
<1>5. \A f \in Executors : Forced(ex'[f])
  <2>1. ASSUME NEW m \in late, DeliverLate(m) PROVE UNCHANGED ex
    BY <2>1 DEF DeliverLate
  <2>2. CASE LeaseExpires \/ UNCHANGED vars
    BY <2>2 DEF LeaseExpires, vars, RollbackInv
  <2>3. QED
    BY <1>3, <1>4, <2>1, <2>2, CommandForced DEF Next, RollbackInv
<1>6. QED
  BY <1>1, <1>5 DEF RollbackInv

(* App Releases are activated by ActivateApp only.                          *)
LEMMA HeadChanges ==
    ASSUME [Next]_vars, head' # head
    PROVE  \E e \in Executors : /\ ActivateApp(e)
                                /\ HoldsLease(ex[e]) /\ head = ex[e].parent
<1>1. ASSUME NEW e \in Executors, Progress(e)
      PROVE  ActivateApp(e) /\ HoldsLease(ex[e]) /\ head = ex[e].parent
  BY <1>1 DEF Progress, CreateRun, RequestRunRetry, ReadPrevious, Begin, Respond,
     SkipStep, StartStep, RunStep, CaptureApp, ActivateApp, FinishSteps, VerifyActivation,
     ReportFailure, Return, platform
<1>2. ASSUME NEW e \in Executors, Command(e) \/ Fault(e) PROVE FALSE
  BY <1>2 DEF Command, Deploy, Rollback, Retry, Fault, AnswerLost, Resend, Throw, Crash,
     platform
<1>3. ASSUME NEW m \in late, DeliverLate(m) PROVE FALSE
  BY <1>3 DEF DeliverLate
<1>4. CASE LeaseExpires \/ UNCHANGED vars
  BY <1>4 DEF LeaseExpires, vars
<1>5. QED
  BY <1>1, <1>2, <1>3, <1>4 DEF Next

(* The activation of a rollback in its first attempt: its executor has      *)
(* released every layer, and nobody has written in place since.             *)
LEMMA RestoredByActivation ==
    ASSUME RunInv, WorkInv, RollbackInv, [Next]_vars, NEW r \in Rollbacks,
           head' # head, releases'[head'].run = r, run[r].attempt = 1
    PROVE  LiveContent' = Content[run[r].pkg]
<1>1. PICK e \in Executors : ActivateApp(e) /\ HoldsLease(ex[e]) /\ head = ex[e].parent
  BY HeadChanges
<1>2. PICK x, root : /\ x = ex[e]
                     /\ root = [run |-> x.run, children |-> StagedChildren(x), plan |-> x.plan]
  OBVIOUS
<1>3. /\ x \in ExecutorRecord /\ x.pc = "activate" /\ Orderly(x) /\ Knows(x, run[x.run])
      /\ StepsOf(x.plan) \ x.todo \subseteq x.act.done /\ Forced(x) /\ x.run \in Runs
      /\ x.act.attempt # 0
  BY <1>1, <1>2, Actor, InLoop DEF ActivateApp, RollbackInv, RunInv, AttemptsKnown
<1>4. /\ releases' = Append(releases, root) /\ head' = Len(releases) + 1
      /\ live' = [l \in Layers |-> IF l \in StagedChildren(x)
                                   THEN <<x.run, x.act.child[l]>> ELSE live[l]]
      /\ UNCHANGED <<run, effects>> /\ lease = <<x.run, x.act.attempt>>
  BY <1>1, <1>2 DEF ActivateApp, HoldsLease
<1>5. x.run = r
  <2>1. releases \in Seq([run : Runs, children : SUBSET Layers, plan : SUBSET Layers])
    BY DEF RunInv, TypeInv, TypeOK
  <2>2. root \in [run : Runs, children : SUBSET Layers, plan : SUBSET Layers]
    BY <1>2, <1>3 DEF StagedChildren, StagedLayers, ExecutorRecord
  <2>3. releases'[head'] = root
    BY <1>4, <2>1, <2>2
  <2>4. QED
    BY <1>2, <2>3
<1>6. x.act.attempt = 1
  <2>1. x.act.attempt \in Nat /\ x.act.attempt <= 1
    BY <1>3, <1>5 DEF ExecutorRecord, RunRecord, Knows
  <2>2. QED
    BY <1>3, <2>1
<1>7. x.plan = Layers
  BY <1>3, <1>5, <1>6 DEF Forced, Working
<1>8. x.todo = {Finalize} /\ StagedChildren(x) = StagedLayers
  <2>1. x.todo = {Finalize} /\ ScopeMatches(x) /\ Consistent(x.act)
    BY <1>3 DEF Orderly, Finalizing, Knows
  <2>2. StagedChildren(x) = x.plan \cap StagedLayers
    BY <1>3, <2>1, ChildrenOfPlan
  <2>3. QED
    BY <1>7, <2>1, <2>2, StepNumbers
<1>9. ASSUME NEW l \in Layers PROVE live'[l][1] = r
  <2>1. CASE l \in StagedLayers
    BY <1>4, <1>5, <1>8, <2>1
  <2>2. CASE l \notin StagedLayers
    <3>1. l \in DirectLayers
      BY <2>2 DEF StagedLayers
    <3>2. l \in x.act.done
      <4>1. l \in StepsOf(x.plan)
        BY <1>7 DEF StepsOf
      <4>2. l \notin x.todo
        BY <1>8, StepNumbers
      <4>3. QED
        BY <1>3, <4>1, <4>2
    <3>3. l \in effects[r]
      BY <1>3, <1>5, <3>2 DEF Knows, RunInv, DoneBacked
    <3>4. live[l] = <<r, 1>>
      BY <1>3, <1>4, <1>5, <1>6, <3>1, <3>3 DEF RollbackInv, InPlaceHeld
    <3>5. QED
      BY <1>4, <1>8, <2>2, <3>4
  <2>3. QED
    BY <2>1, <2>2
<1>10. r # Base /\ r \in Runs
  BY ConstantsAssumption DEF Runs
<1>11. LiveContent' = [l \in Layers |-> Content[run[r].pkg][l]]
  BY <1>4, <1>9, <1>10 DEF LiveContent, PackageOf
<1>12. run[r].pkg \in Packages \cup {Base}
  BY <1>10 DEF RunInv, TypeInv, TypeOK, RunRecord
<1>13. Content[run[r].pkg] = [l \in Layers |-> Content[run[r].pkg][l]]
  BY <1>12, ConstantsAssumption
<1>14. QED
  BY <1>11, <1>13

(* When a rollback that nobody took over activates its App Release, every   *)
(* layer has the content of the package it returns to, staged or written in *)
(* place, whatever other runs did before and tried meanwhile.               *)
THEOREM RollbackIsComplete == Spec => RollbackRestores
<1>1. RunInv /\ WorkInv /\ RollbackInv /\ [Next]_vars =>
        [ \A r \in Rollbacks :
            head' # head /\ releases'[head'].run = r /\ run[r].attempt = 1
            => LiveContent' = Content[run[r].pkg] ]_vars
  BY RestoredByActivation
<1>2. QED
  BY <1>1, InitRollbackInv, NextRollbackInv, WorkInvariant, PTL DEF Spec, RollbackRestores
=============================================================================
