---------------------------- MODULE DeliveryRun ----------------------------
(***************************************************************************)
(* Delivery V2 (lib/delivery-v2-executor.js): command-line executors drive *)
(* ReleaseRuns whose state, checkpoints and attempt counter are kept by    *)
(* the platform.  Any number of executors, on any number of machines, may  *)
(* start, crash, take a run over with `retry`, or be slow: the platform    *)
(* serializes requests, and only the expectedAttempt of a request and the  *)
(* publish lease of the run tell an old executor from the current one.     *)
(*                                                                         *)
(* A package is abstracted to the version it gives to each layer of the    *)
(* application (form, configuration, backend, workflow, runtime).  A run   *)
(* of `deploy` is identified by its package, because the default           *)
(* idempotency key holds nothing else that changes; every `rollback` has a *)
(* run of its own.                                                         *)
(***************************************************************************)
EXTENDS Naturals, Sequences

CONSTANTS
    Executors,     \* CLI processes
    Packages,      \* packages that may be deployed; also the ids of their runs
    Rollbacks,     \* ids of the runs that `rollback` may create
    Base,          \* the package (and run) that is live and succeeded initially
    NumLayers,     \* layers are numbered in the order in which they are released
    DirectLayers,  \* layers written in place (configuration), the others are staged
    Content,       \* Content[p][l]: the version of layer l in package p
    MaxAttempt,    \* bound: attempts of one run
    MaxFaults      \* bound: crashes, failures, lost answers, late copies, expiries

Layers == 1..NumLayers
Ensure == 0                     \* the form-ensure step
Finalize == NumLayers + 1       \* the app-finalize step
Steps == 0..(NumLayers + 1)
StagedLayers == Layers \ DirectLayers

Runs == Packages \cup Rollbacks

ASSUME ConstantsAssumption ==
    /\ NumLayers \in Nat
    /\ MaxAttempt \in Nat
    /\ MaxFaults \in Nat
    /\ DirectLayers \subseteq Layers
    /\ Base \notin Runs
    /\ Packages # {}
    /\ Packages \cap Rollbacks = {}
    /\ DOMAIN Content = Packages \cup {Base}
    /\ \A p \in Packages \cup {Base} : Content[p] = [l \in Layers |-> Content[p][l]]

VARIABLES
    run,       \* run[r]: the ReleaseRun as the platform stores it
    created,   \* the runs in the order of their creation
    lease,     \* the <<run, attempt>> that holds the publish lease, or NoLease
    effects,   \* effects[r]: the layers whose step of run r took effect remotely
    releases,  \* the App Releases activated so far
    head,      \* index of the active App Release, 0 before the first
    live,      \* live[l]: the child release <<run, attempt>> active in layer l
    ex,        \* ex[e]: the state of executor e
    late,      \* copies of requests that the network still holds
    faults     \* faults so far

platform == <<run, created, lease, effects, releases, head, live>>
vars == <<run, created, lease, effects, releases, head, live, ex, late, faults>>

-----------------------------------------------------------------------------
(* Types.                                                                   *)

NoLease == <<Base, 0>>
Children == (Runs \cup {Base}) \X Nat

Statuses == {"absent", "packaged", "preparing", "activating", "verifying",
             "succeeded", "failed"}
Executing == {"preparing", "activating", "verifying"}

RunRecord == [status   : Statuses,
              pkg      : Packages \cup {Base},
              attempt  : Nat,
              writer   : Nat,              \* attempt of the last accepted request
              done     : SUBSET Steps,     \* checkpoints named done-<step>
              child    : [Layers -> Nat],  \* attempt that staged the recorded child
              final    : Nat,              \* result of done-app-finalize, 0 if none
              reported : Nat]              \* result.succeeded.appReleaseId

AbsentRun(p) == [status |-> "absent", pkg |-> p, attempt |-> 0, writer |-> 0,
                 done |-> {}, child |-> [l \in Layers |-> 0], final |-> 0,
                 reported |-> 0]

(* A checkpoint or fail request.  status "same" is a checkpoint without one; *)
(* att is its expectedAttempt, by the attempt of the executor that sent it.  *)
Request == [run : Runs, att : Nat, by : Nat, status : Statuses \cup {"same"},
            step : SUBSET Steps, rel : Nat]

PCs == {"idle", "create", "retry", "previous", "begin", "await", "loop", "step",
        "capture", "activate", "verify", "failing", "returned"}

(* Where an accepted request can lead.                                      *)
Continuations == {"idle", "previous", "begin", "loop", "capture", "verify", "returned"}

ExecutorRecord ==
    [pc     : PCs,
     next   : Continuations,          \* what an accepted answer leads to
     run    : Runs,
     force  : BOOLEAN,                 \* forceAll
     prev   : Packages \cup {Base},    \* package of latestSuccessfulRun
     act    : RunRecord,               \* activeRun
     plan   : SUBSET Layers,
     todo   : SUBSET Steps,
     bound  : BOOLEAN,                 \* this machine has the local form bindings
     parent : Nat,                     \* parentReleaseId of the capture
     own    : Nat,                     \* stepResults['app-finalize'].activated.id
     req    : Request]

SomeRun == CHOOSE r \in Runs : TRUE
NoRequest == [run |-> SomeRun, att |-> 0, by |-> 0, status |-> "same", step |-> {},
              rel |-> 0]
Idle == [pc |-> "idle", next |-> "idle", run |-> SomeRun, force |-> FALSE,
         prev |-> Base, act |-> AbsentRun(Base), plan |-> {}, todo |-> {},
         bound |-> FALSE, parent |-> 0, own |-> 0, req |-> NoRequest]

Init ==
    /\ run = [r \in Runs |-> AbsentRun(IF r \in Packages THEN r ELSE Base)]
    /\ created = <<>>
    /\ lease = NoLease
    /\ effects = [r \in Runs |-> {}]
    /\ releases = <<>>
    /\ head = 0
    /\ live = [l \in Layers |-> <<Base, 0>>]
    /\ ex = [e \in Executors |-> Idle]
    /\ late = {}
    /\ faults = 0

-----------------------------------------------------------------------------
(* The platform, as the executor uses it.                                   *)

Transitions == { <<"packaged", "preparing">>, <<"preparing", "preparing">>,
                 <<"preparing", "activating">>, <<"activating", "activating">>,
                 <<"activating", "verifying">>, <<"verifying", "verifying">>,
                 <<"verifying", "succeeded">>, <<"succeeded", "succeeded">> }

(* The attempt fence: a request of another attempt is refused.  A request   *)
(* that names no attempt (0) would not be fenced.                           *)
Fence(rec, m) == m.att \in {0, rec.attempt}

CanRecord(rec, m) ==
    /\ Fence(rec, m)
    /\ CASE m.status = "same"   -> rec.status \in Executing
         [] m.status = "failed" -> rec.status \in Executing \cup {"packaged", "failed"}
         [] OTHER               -> <<rec.status, m.status>> \in Transitions

RecordStatusAsSent(rec, m) == [rec EXCEPT !.status = m.status, !.writer = m.by]

(* A repeated report of success is answered with the run as it is.          *)
Record(rec, m) ==
    IF rec.status = "succeeded" THEN rec
    ELSE [rec EXCEPT
            !.status   = IF m.status = "same" THEN @ ELSE m.status,
            !.writer   = m.by,
            !.done     = @ \cup m.step,
            !.child    = [l \in Layers |->
                            IF l \in m.step /\ l \in StagedLayers THEN rec.attempt
                            ELSE @[l]],
            !.final    = IF Finalize \in m.step THEN m.rel ELSE @,
            !.reported = IF m.status = "succeeded" THEN m.rel ELSE @]

(* A finished run gives its publish lease back.                             *)
LeaseAfter(r, m) ==
    IF m.status \in {"succeeded", "failed"} /\ lease = <<r, run[r].attempt>>
    THEN NoLease ELSE lease

Accept(m) ==
    /\ run' = [run EXCEPT ![m.run] = Record(@, m)]
    /\ lease' = LeaseAfter(m.run, m)

(* The newest succeeded run of the environment, other than those excluded.  *)
LatestSuccessfulRun(excluded) ==
    LET S == { i \in DOMAIN created : /\ run[created[i]].status = "succeeded"
                                      /\ created[i] \notin excluded }
    IN  IF S = {} THEN Base
        ELSE run[created[CHOOSE i \in S : \A j \in S : j <= i]].pkg

FindSuccessfulRunByRelease(rel) ==
    { i \in DOMAIN created : /\ run[created[i]].status = "succeeded"
                             /\ run[created[i]].reported = rel }

PackageOf(r) == IF r = Base THEN Base ELSE run[r].pkg

-----------------------------------------------------------------------------
(* Commands.                                                                *)

Deploy(e, p) ==
    /\ ex[e].pc = "idle"
    /\ ex' = [ex EXCEPT ![e] = [Idle EXCEPT !.pc = "create", !.run = p,
                                            !.act = AbsentRun(p),
                                            !.prev = LatestSuccessfulRun({})]]
    /\ UNCHANGED <<platform, late, faults>>

(* rollback: the package of the newest succeeded run that reported the      *)
(* release is deployed with forceAll under an idempotency key of its own.   *)
Rollback(e, r, rel) ==
    LET S == FindSuccessfulRunByRelease(rel)
        q == CHOOSE i \in S : \A j \in S : j <= i
    IN  /\ ex[e].pc = "idle"
        /\ run[r].status = "absent"
        /\ \A f \in Executors : ex[f].pc = "create" => ex[f].run # r
        /\ S # {}
        /\ ex' = [ex EXCEPT ![e] = [Idle EXCEPT !.pc = "create", !.run = r,
                                                !.act = AbsentRun(run[created[q]].pkg),
                                                !.force = TRUE]]
        /\ UNCHANGED <<platform, late, faults>>

Retry(e, r) ==
    /\ ex[e].pc = "idle"
    /\ run[r].status # "absent"
    /\ ex' = [ex EXCEPT ![e] =
                [Idle EXCEPT !.run = r, !.act = run[r],
                             !.pc = IF run[r].status = "succeeded" THEN "returned"
                                    ELSE "retry",
                             !.next = "previous"]]
    /\ UNCHANGED <<platform, late, faults>>

(* createRun: the platform creates the run and gives it the publish lease,  *)
(* or answers with the run that already has this idempotency key.           *)
CreateRun(e) ==
    LET r == ex[e].run
    IN  /\ ex[e].pc = "create"
        /\ \/ /\ run[r].status = "absent"
              /\ lease = NoLease
              /\ run' = [run EXCEPT ![r] =
                           [AbsentRun(ex[e].act.pkg) EXCEPT
                               !.status = "packaged", !.attempt = 1, !.writer = 1]]
              /\ created' = Append(created, r)
              /\ lease' = <<r, 1>>
              /\ ex' = [ex EXCEPT ![e] = [@ EXCEPT !.act = run'[r], !.pc = "begin"]]
           \/ /\ run[r].status # "absent"
              /\ ex' = [ex EXCEPT ![e] =
                          CASE run[r].status = "succeeded" ->
                                 [@ EXCEPT !.act = run[r], !.pc = "returned"]
                            [] run[r].status = "packaged" ->
                                 [@ EXCEPT !.act = run[r], !.pc = "begin"]
                            [] run[r].status = "failed" ->
                                 [@ EXCEPT !.act = run[r], !.pc = "retry", !.next = "begin"]
                            [] OTHER -> Idle]       \* DELIVERY_RUN_ALREADY_EXECUTING
              /\ UNCHANGED <<run, created, lease>>
           \/ /\ run[r].status = "absent"           \* another run holds the lease
              /\ lease # NoLease
              /\ ex' = [ex EXCEPT ![e] = Idle]
              /\ UNCHANGED <<run, created, lease>>
        /\ UNCHANGED <<effects, releases, head, live, late, faults>>

(* requestRunRetry: the platform opens the next attempt if expectedAttempt  *)
(* is still the current one.                                                *)
CanRetry(e) ==
    LET r == ex[e].run
    IN  /\ run[r].attempt = ex[e].act.attempt
        /\ run[r].status # "succeeded"
        /\ run[r].attempt < MaxAttempt
        /\ lease = NoLease \/ lease[1] = r

OpenAttempt(r) == [run[r] EXCEPT !.status = "packaged", !.attempt = @ + 1,
                                 !.writer = run[r].attempt + 1]

RequestRunRetry(e) ==
    LET r == ex[e].run
    IN  /\ ex[e].pc = "retry"
        /\ \/ /\ CanRetry(e)
              /\ run' = [run EXCEPT ![r] = OpenAttempt(r)]
              /\ lease' = <<r, run[r].attempt + 1>>
              /\ \/ /\ ex' = [ex EXCEPT ![e] = [@ EXCEPT !.act = run'[r], !.pc = ex[e].next]]
                    /\ faults' = faults
                 \/ /\ faults < MaxFaults           \* the answer is lost
                    /\ ex' = ex
                    /\ faults' = faults + 1
           \/ /\ ~CanRetry(e)
              /\ ex' = [ex EXCEPT ![e] = Idle]
              /\ UNCHANGED <<run, lease, faults>>
        /\ UNCHANGED <<created, effects, releases, head, live, late>>

(* retry reads the previous run only after it owns the new attempt.         *)
ReadPrevious(e) ==
    /\ ex[e].pc = "previous"
    /\ ex' = [ex EXCEPT ![e] = [@ EXCEPT !.prev = LatestSuccessfulRun({ex[e].run}),
                                         !.pc = "begin"]]
    /\ UNCHANGED <<platform, late, faults>>

-----------------------------------------------------------------------------
(* executeRun.                                                              *)

(* releaseTargets and buildWorkspaceReleaseSteps.                           *)
ReleaseTargetsDiffOnly(p, prev, force) ==
    { l \in Layers : Content[p][l] # Content[prev][l] }
ReleaseTargets(p, prev, force) ==
    IF force THEN Layers ELSE { l \in Layers : Content[p][l] # Content[prev][l] }

StepsOf(targets) ==
    IF targets = {} THEN {} ELSE {Ensure} \cup targets \cup {Finalize}

Checkpoint(x, status, step, rel) ==
    [run |-> x.run, att |-> x.act.attempt, by |-> x.act.attempt, status |-> status,
     step |-> step, rel |-> rel]

(* recordCheckpoint: x sends request m and continues at pc n when the       *)
(* platform accepts it.                                                     *)
Send(x, m, n) == [x EXCEPT !.pc = "await", !.next = n, !.req = m]

Begin(e) ==
    /\ ex[e].pc = "begin"
    /\ LET targets == ReleaseTargets(ex[e].act.pkg, ex[e].prev, ex[e].force)
           x == [ex[e] EXCEPT !.plan = targets, !.todo = StepsOf(targets)]
       IN  ex' = [ex EXCEPT ![e] = Send(x, Checkpoint(x, "preparing", {}, 0), "loop")]
    /\ UNCHANGED <<platform, late, faults>>

(* A refused request throws out of the loop of executeRun.                  *)
RefusalIgnored(x) == [x EXCEPT !.pc = x.next]
RefusalRetried(x) == x
AfterRefusal(x) == [x EXCEPT !.pc = "failing"]

(* The platform handles the request in flight; the answer is the run.       *)
Respond(e) ==
    LET m == ex[e].req
    IN  /\ ex[e].pc = "await"
        /\ \/ /\ CanRecord(run[m.run], m)
              /\ Accept(m)
              /\ ex' = [ex EXCEPT ![e] = [@ EXCEPT !.act = run'[m.run], !.pc = ex[e].next]]
           \/ /\ ~CanRecord(run[m.run], m)
              /\ ex' = [ex EXCEPT ![e] = AfterRefusal(@)]
              /\ UNCHANGED <<run, lease>>
        /\ UNCHANGED <<created, effects, releases, head, live, late, faults>>

(* The platform handles it, the answer is lost, and retryTransient sends    *)
(* the same request again.                                                  *)
AnswerLost(e) ==
    LET m == ex[e].req
    IN  /\ ex[e].pc = "await"
        /\ faults < MaxFaults
        /\ CanRecord(run[m.run], m)
        /\ Accept(m)
        /\ faults' = faults + 1
        /\ UNCHANGED <<created, effects, releases, head, live, ex, late>>

(* The request is resent although the first copy is only delayed.           *)
Resend(e) ==
    /\ ex[e].pc = "await"
    /\ faults < MaxFaults
    /\ late' = late \cup {ex[e].req}
    /\ faults' = faults + 1
    /\ UNCHANGED <<platform, ex>>

DeliverLate(m) ==
    /\ m \in late
    /\ late' = late \ {m}
    /\ IF CanRecord(run[m.run], m) THEN Accept(m) ELSE UNCHANGED <<run, lease>>
    /\ UNCHANGED <<created, effects, releases, head, live, ex, faults>>

NextStepLast(x) == CHOOSE s \in x.todo : \A t \in x.todo : t <= s
NextStep(x) == CHOOSE s \in x.todo : \A t \in x.todo : s <= t

(* A step whose checkpoint the run already has is skipped; form-ensure is   *)
(* replayed on this machine instead, and leaves a checkpoint of its own.    *)
Skipped(x, s) == s \in x.act.done

ReplayDropped(x) == x
Replay(x) == Send([x EXCEPT !.bound = TRUE], Checkpoint(x, "preparing", {}, 0), "loop")

SkipStep(e) ==
    LET x == ex[e]
        s == NextStep(x)
        rest == [x EXCEPT !.todo = @ \ {s}]
    IN  /\ x.pc = "loop"
        /\ x.todo # {}
        /\ Skipped(x, s)
        /\ ex' = [ex EXCEPT ![e] = IF s = Ensure THEN Replay(rest) ELSE rest]
        /\ UNCHANGED <<platform, late, faults>>

StartStep(e) ==
    LET x == ex[e]
    IN  /\ x.pc = "loop"
        /\ x.todo # {}
        /\ ~Skipped(x, NextStep(x))
        /\ ex' = [ex EXCEPT ![e] =
                    IF NextStep(x) = Finalize
                    THEN Send(x, Checkpoint(x, "activating", {}, 0), "capture")
                    ELSE [x EXCEPT !.pc = "step"]]
        /\ UNCHANGED <<platform, late, faults>>

(* Writes carry the publish lease of the run as it was at the start of      *)
(* executeRun (installDeliveryContext).                                     *)
HoldsLease(x) == lease = <<x.run, x.act.attempt>>

StepDone(x, s) ==
    Send([x EXCEPT !.todo = @ \ {s}, !.bound = (s = Ensure) \/ @],
         Checkpoint(x, "same", {s}, 0), "loop")

(* A step whose write is refused throws, and leaves no checkpoint.          *)
StepSwallowed(x, s) == StepDone(x, s)
StepFailed(x, s) == [x EXCEPT !.pc = "failing"]

RunStep(e) ==
    LET x == ex[e]
        s == NextStep(x)
    IN  /\ x.pc = "step"
        /\ IF HoldsLease(x)
           THEN /\ effects' = [effects EXCEPT ![x.run] = @ \cup ({s} \cap Layers)]
                /\ live' = [l \in Layers |-> IF l = s /\ l \in DirectLayers
                                             THEN <<x.run, x.act.attempt>> ELSE live[l]]
                /\ ex' = [ex EXCEPT ![e] = StepDone(x, s)]
           ELSE /\ ex' = [ex EXCEPT ![e] = StepFailed(x, s)]
                /\ UNCHANGED <<effects, live>>
        /\ UNCHANGED <<run, created, lease, releases, head, late, faults>>

(* The children restored from the checkpoints of the run, which             *)
(* app-finalize overlays on the capture.                                    *)
StagedChildren(x) == { l \in StagedLayers : x.act.child[l] # 0 }

(* overlayAppReleaseResources refuses a child that is active already.       *)
AlreadyActiveUnchecked(x) == FALSE
AlreadyActive(x) == \E l \in StagedChildren(x) : live[l] = <<x.run, x.act.child[l]>>

(* assertStagedAppReleaseScope: the children are exactly those planned.     *)
ScopeUnchecked(x) == TRUE
ScopeMatches(x) == StagedChildren(x) = {} \/ StagedChildren(x) = x.plan \cap StagedLayers

CaptureApp(e) ==
    LET x == ex[e]
    IN  /\ x.pc = "capture"
        /\ ex' = [ex EXCEPT ![e] =
                    IF ~ScopeMatches(x) \/ AlreadyActive(x)
                    THEN [x EXCEPT !.pc = "failing"]
                    ELSE [x EXCEPT !.pc = "activate", !.parent = head]]
        /\ UNCHANGED <<platform, late, faults>>

(* prepare, verify and activate: the platform activates a root only on top  *)
(* of the parent of its capture, and only for the holder of the lease.      *)
ActivateApp(e) ==
    LET x == ex[e]
        root == [run |-> x.run, children |-> StagedChildren(x), plan |-> x.plan]
    IN  /\ x.pc = "activate"
        /\ IF HoldsLease(x) /\ head = x.parent
           THEN /\ releases' = Append(releases, root)
                /\ head' = Len(releases) + 1
                /\ live' = [l \in Layers |-> IF l \in StagedChildren(x)
                                             THEN <<x.run, x.act.child[l]>> ELSE live[l]]
                /\ ex' = [ex EXCEPT ![e] =
                            Send([x EXCEPT !.todo = @ \ {Finalize}, !.own = Len(releases) + 1],
                                 Checkpoint(x, "same", {Finalize}, Len(releases) + 1), "loop")]
           ELSE /\ ex' = [ex EXCEPT ![e] = [@ EXCEPT !.pc = "failing"]]
                /\ UNCHANGED <<releases, head, live>>
        /\ UNCHANGED <<run, created, lease, effects, late, faults>>

(* After the last step: activating unless already there, then verifying.    *)
FinishSteps(e) ==
    LET x == ex[e]
    IN  /\ x.pc = "loop"
        /\ x.todo = {}
        /\ ex' = [ex EXCEPT ![e] =
                    CASE x.act.status = "verifying" -> [x EXCEPT !.pc = "verify"]
                      [] x.act.status = "activating" ->
                           Send(x, Checkpoint(x, "verifying", {}, 0), "verify")
                      [] OTHER -> Send(x, Checkpoint(x, "activating", {}, 0), "loop")]
        /\ UNCHANGED <<platform, late, faults>>

(* verifyActivation compares the active App Release with the one that       *)
(* stepResults['app-finalize'] names.  A step skipped by a resumed executor *)
(* left a compact result there, which has none of the fields read.          *)
NothingExpected(x) == 0
ExpectedRelease(x) == x.own

VerifyActivation(e) ==
    LET x == ex[e]
        mismatch == ExpectedRelease(x) # 0 /\ head # 0 /\ ExpectedRelease(x) # head
    IN  /\ x.pc = "verify"
        /\ ex' = [ex EXCEPT ![e] =
                    IF mismatch THEN [x EXCEPT !.pc = "failing"]
                    ELSE Send(x, Checkpoint(x, "succeeded", {},
                                            IF head # 0 THEN head ELSE ExpectedRelease(x)),
                              "returned")]
        /\ UNCHANGED <<platform, late, faults>>

-----------------------------------------------------------------------------
(* Failure.                                                                 *)

(* A step, a request or a local file operation throws.                      *)
Throw(e) ==
    /\ ex[e].pc \in {"await", "loop", "step", "capture", "activate", "verify"}
    /\ faults < MaxFaults
    /\ ex' = [ex EXCEPT ![e] = [@ EXCEPT !.pc = "failing"]]
    /\ faults' = faults + 1
    /\ UNCHANGED <<platform, late>>

FailRequestUnfenced(x) == [run |-> x.run, att |-> 0, by |-> x.act.attempt,
                           status |-> "failed", step |-> {}, rel |-> 0]
FailRequest(x) == [run |-> x.run, att |-> x.act.attempt, by |-> x.act.attempt,
                   status |-> "failed", step |-> {}, rel |-> 0]

(* POST /fail: its own failure is swallowed, and the command exits.  The    *)
(* request may also be delayed beyond the life of the process.              *)
ReportFailure(e) ==
    LET m == FailRequest(ex[e])
    IN  /\ ex[e].pc = "failing"
        /\ \/ /\ IF CanRecord(run[m.run], m) THEN Accept(m) ELSE UNCHANGED <<run, lease>>
              /\ UNCHANGED <<late, faults>>
           \/ /\ faults < MaxFaults
              /\ late' = late \cup {m}
              /\ faults' = faults + 1
              /\ UNCHANGED <<run, lease>>
        /\ ex' = [ex EXCEPT ![e] = Idle]
        /\ UNCHANGED <<created, effects, releases, head, live>>

Crash(e) ==
    /\ ex[e].pc # "idle"
    /\ faults < MaxFaults
    /\ ex' = [ex EXCEPT ![e] = Idle]
    /\ faults' = faults + 1
    /\ UNCHANGED <<platform, late>>

Return(e) ==
    /\ ex[e].pc = "returned"
    /\ ex' = [ex EXCEPT ![e] = Idle]
    /\ UNCHANGED <<platform, late, faults>>

(* The publish lease of an unfinished run runs out.                         *)
LeaseExpires ==
    /\ lease # NoLease
    /\ faults < MaxFaults
    /\ lease' = NoLease
    /\ faults' = faults + 1
    /\ UNCHANGED <<run, created, effects, releases, head, live, ex, late>>

-----------------------------------------------------------------------------
Command(e) ==
    \/ \E p \in Packages : Deploy(e, p)
    \/ \E r \in Rollbacks, rel \in DOMAIN releases : Rollback(e, r, rel)
    \/ \E r \in Runs : Retry(e, r)

Progress(e) ==
    \/ CreateRun(e) \/ RequestRunRetry(e) \/ ReadPrevious(e)
    \/ Begin(e) \/ Respond(e)
    \/ SkipStep(e) \/ StartStep(e) \/ RunStep(e)
    \/ CaptureApp(e) \/ ActivateApp(e)
    \/ FinishSteps(e) \/ VerifyActivation(e)
    \/ ReportFailure(e) \/ Return(e)

Fault(e) == AnswerLost(e) \/ Resend(e) \/ Throw(e) \/ Crash(e)

Next ==
    \/ \E e \in Executors : Command(e) \/ Progress(e) \/ Fault(e)
    \/ \E m \in late : DeliverLate(m)
    \/ LeaseExpires

Spec == Init /\ [][Next]_vars

(* A process that is not killed keeps running: every await of executeRun    *)
(* ends, because requests time out.  Commands are never owed.               *)
FairSpec == Spec /\ \A e \in Executors : WF_vars(Progress(e))

-----------------------------------------------------------------------------
(* Properties.                                                              *)

(* Type invariant of the platform's records, of the executors and of the    *)
(* requests that the network holds.                                         *)
TypeOK ==
    /\ run \in [Runs -> RunRecord]
    /\ created \in Seq(Runs)
    /\ lease \in Children
    /\ effects \in [Runs -> SUBSET Layers]
    /\ releases \in Seq([run : Runs, children : SUBSET Layers, plan : SUBSET Layers])
    /\ head \in Nat
    /\ live \in [Layers -> Children]
    /\ ex \in [Executors -> ExecutorRecord]
    /\ late \in SUBSET Request
    /\ faults \in Nat

(* A done-<step> checkpoint is only ever recorded for a step that took      *)
(* effect: what a retry skips has really been released.                     *)
DoneBacked == \A r \in Runs : run[r].done \cap Layers \subseteq effects[r]

(* An activated root leaves out no planned child: app-finalize runs after   *)
(* every staged step, in whatever attempts and on whatever machines.        *)
ManifestCoversPlan ==
    \A i \in DOMAIN releases :
        releases[i].plan \cap StagedLayers = releases[i].children

(* The machine that runs a step has the local form bindings, even if        *)
(* form-ensure was completed on another machine in an earlier attempt.      *)
BindingsBeforeUse ==
    \A e \in Executors :
        \/ ex[e].pc \in {"capture", "activate"}
        \/ ex[e].pc = "step" /\ NextStep(ex[e]) # Ensure
        => ex[e].bound

(* After a takeover no request of an older executor, whether sent late,     *)
(* resent or reported by its failure handler, changes the run.              *)
OnlyCurrentAttemptWrites ==
    \A r \in Runs : run[r].status # "absent" => run[r].writer = run[r].attempt

(* An executor that activated an App Release and reports success reports    *)
(* that one, although other runs may have activated theirs meanwhile: the   *)
(* readback of verifyActivation catches a head that moved.                  *)
VerifiedReleaseIsOwn ==
    \A e \in Executors :
        /\ ex[e].own # 0
        /\ ex[e].pc \in {"await", "returned"}
        /\ ex[e].req.status = "succeeded"
        => releases[ex[e].req.rel].run = ex[e].run

(* A command that returns a run returns a succeeded one, for good.          *)
ReturnedRunSucceeded ==
    \A e \in Executors : ex[e].pc = "returned" => run[ex[e].run].status = "succeeded"

LiveContent == [l \in Layers |-> Content[PackageOf(live[l][1])][l]]

(* Where every layer is written in place or staged, the application runs    *)
(* exactly the package of a succeeded run, as long as no other is deployed. *)
SucceededRunIsLive ==
    \A r \in Runs : run[r].status = "succeeded" => LiveContent = Content[run[r].pkg]

(* Staged layers change together and a run succeeds only on what is live:   *)
(* the steps, attempts and executors of a run implement AtomicPromotion.    *)
(* Layers written in place are no part of the promise.                      *)
Promotion == INSTANCE AtomicPromotion WITH
    Pkgs <- Packages \cup {Base},
    First <- Base,
    ContentOf <- LAMBDA p : [l \in StagedLayers |-> Content[p][l]],
    content <- [l \in StagedLayers |-> LiveContent[l]],
    confirmed <- { run[r].pkg : r \in { q \in Runs : run[q].status = "succeeded" } }

ImplementsPromotion == Promotion!Spec

(* However many executors work on a run, in one attempt or in several, it   *)
(* activates one App Release.                                               *)
OneRootPerRun ==
    \A i, j \in DOMAIN releases : releases[i].run = releases[j].run => i = j

(* When a rollback that nobody took over activates its App Release, the     *)
(* application has the whole content of the package it returns to, whatever *)
(* failed runs and other deployments left behind.                           *)
RollbackRestores ==
    [][ \A r \in Rollbacks :
          head' # head /\ releases'[head'].run = r /\ run[r].attempt = 1
          => LiveContent' = Content[run[r].pkg] ]_vars

(* Every command ends: no wait of executeRun, no retransmission and no      *)
(* refused request keeps a process that is not killed.                      *)
CommandsEnd == \A e \in Executors : ex[e].pc # "idle" ~> ex[e].pc = "idle"

(* Statements of the code and of its documentation that it does not meet.   *)

(* verifyActivation: a run succeeds only when the activation is read back,  *)
(* so a succeeded run that finalized reports its own App Release.           *)
RunReportsOwnRelease ==
    \A r \in Runs :
        run[r].status = "succeeded" /\ Finalize \in run[r].done
        => releases[run[r].reported].run = r

(* A rollback, which may be resumed by `retry`, has put its package live    *)
(* when it succeeds.                                                        *)
RollbackDeploysPackage ==
    [][ \A r \in Rollbacks :
          run[r].status # "succeeded" /\ run'[r].status = "succeeded"
          => LiveContent = Content[run[r].pkg] ]_vars
=============================================================================
