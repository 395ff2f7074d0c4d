---------------------------- MODULE ManagedShip ----------------------------
(***************************************************************************)
(* The managed release of one logical application with a preproduction and *)
(* a production environment (lib/cli.js, `release ship` and the commands   *)
(* it is built from).  A first `ship` of a change seals a candidate and    *)
(* deploys it to preproduction; `ship --confirm-production` accepts that   *)
(* deployment with evidence and promotes the same candidate; given first,  *)
(* it does both.  Every command may fail or be killed after any request,   *)
(* and is resumed from ship.json by running it again.                      *)
(*                                                                         *)
(* The platform keeps candidates, deployments and the active release of    *)
(* each environment.  It serves requests one at a time, so a request is    *)
(* one step and a command that makes several may be overtaken between any  *)
(* two: by another change, or by a second terminal on the same one, since  *)
(* ship.json is neither locked nor fenced.  The release that a deployment  *)
(* activates is named by the deployment itself.                            *)
(***************************************************************************)
EXTENDS Naturals, Sequences

CONSTANTS
    Commands,    \* command-line processes
    Changes,     \* changes that are shipped
    MaxStarts,   \* bound: commands started
    MaxFaults    \* bound: kills, lost requests and answers, expired evidence

ASSUME BoundsAssumption == MaxStarts \in Nat /\ MaxFaults \in Nat

Pre == "preproduction"
Prod == "production"
Envs == {Pre, Prod}

VARIABLES
    cands,   \* cands[k]: the change of candidate k
    deps,    \* deps[d]: deployment d
    head,    \* head[e]: the deployment whose release is active in e, 0 at first
    ship,    \* ship[ch]: ship.json of change ch
    cmd,     \* cmd[c]: the command that process c runs
    starts,  \* commands started so far
    faults   \* faults so far

vars == <<cands, deps, head, ship, cmd, starts, faults>>

ShipStatuses ==
    {"none", "candidate_created", "preproduction_failed",
     "awaiting_production_confirmation", "confirmed_for_production",
     "production_failed", "production_evidence_failed", "completed"}

NoShip == [status |-> "none", cand |-> 0, pre |-> 0, prod |-> 0]

Idle == [pc |-> "idle", op |-> "none", change |-> "none", env |-> Pre,
         cand |-> 0, pre |-> 0, dep |-> 0, cur |-> 0]

Init ==
    /\ cands = <<>>
    /\ deps = <<>>
    /\ head = [e \in Envs |-> 0]
    /\ ship = [ch \in Changes |-> NoShip]
    /\ cmd = [c \in Commands |-> Idle]
    /\ starts = 0
    /\ faults = 0

-----------------------------------------------------------------------------
(* The platform.                                                            *)

InFlight(e) == { d \in DOMAIN deps : deps[d].env = e /\ deps[d].status \in {"running", "deployed"} }

(* The deployments that allow a promotion of candidate k: succeeded on      *)
(* fresh evidence, and still what preproduction runs.                       *)
Accepted(k) == { d \in DOMAIN deps :
    /\ deps[d].env = Pre
    /\ deps[d].cand = k
    /\ deps[d].status = "succeeded"
    /\ deps[d].evidence = "fresh"
    /\ head[Pre] = d }

Admitted(e, k) == InFlight(e) = {} /\ (e = Prod => Accepted(k) # {})

NewDeployment(e, k) ==
    [env |-> e, cand |-> k, status |-> "running", live |-> FALSE, evidence |-> "none"]

(* Mutant of Failed: an activated deployment is left as it is.              *)
FailedUnlessLive(d) == IF deps[d].live THEN deps ELSE [deps EXCEPT ![d].status = "failed"]

(* A failure is recorded until the deployment has succeeded, and leaves the *)
(* active release alone.                                                    *)
Failed(d) == IF deps[d].status = "succeeded" THEN deps
             ELSE [deps EXCEPT ![d].status = "failed"]

(* Reconciliation returns an activated deployment to `deployed` while its   *)
(* release is the active one and no other deployment has the slot.          *)
Reconcilable(d) ==
    /\ deps[d].status \in {"deployed", "failed"}
    /\ deps[d].live
    /\ head[deps[d].env] = d
    /\ InFlight(deps[d].env) \subseteq {d}

Reconciled(d) == [deps EXCEPT ![d].status = "deployed"]

-----------------------------------------------------------------------------
(* Commands.                                                                *)

At(c, pc) == cmd[c].pc = pc
Goto(c, pc) == cmd' = [cmd EXCEPT ![c].pc = pc]
Become(c, x) == cmd' = [cmd EXCEPT ![c] = x]
Stop(c) == Become(c, Idle)

Shipping(x) == x.op \in {"ship", "confirm"}

(* writeManagedShip: what the caller knows is laid over what the file       *)
(* holds now, whatever was written since the command read it.               *)
Merge(c, patch) ==
    ship' = [ship EXCEPT ![cmd[c].change] =
        [f \in DOMAIN NoShip |-> IF f \in DOMAIN patch THEN patch[f] ELSE @[f]]]

(* Mutant of Thrown: an error of the production evidence is swallowed.      *)
ThrownSwallowed(x) ==
    IF ~Shipping(x) THEN Idle
    ELSE IF x.pc = "create" THEN [x EXCEPT !.pc = "failed", !.dep = 0]
    ELSE IF x.pc \in {"reconcile", "complete"} /\ x.env = Prod
         THEN [x EXCEPT !.pc = "completed"]
    ELSE Idle

(* Where an error is caught.  The creation of a deployment fails without    *)
(* its id; production evidence has a record of its own; an error of any     *)
(* other request ends the command and leaves ship.json as it is.            *)
Thrown(x) ==
    IF ~Shipping(x) THEN Idle
    ELSE IF x.pc = "create" THEN [x EXCEPT !.pc = "failed", !.dep = 0]
    ELSE IF x.pc \in {"reconcile", "complete"} /\ x.env = Prod
         THEN [x EXCEPT !.pc = "evidence_failed"]
    ELSE Idle

(* What follows a deployment, and the completion of one with evidence.      *)
AfterDeploy(x) ==
    IF ~Shipping(x) THEN Idle
    ELSE IF x.env = Pre THEN [x EXCEPT !.pc = "await"]
    ELSE [x EXCEPT !.pc = "reconcile"]

AfterEvidence(x) ==
    IF ~Shipping(x) THEN Idle
    ELSE IF x.env = Pre THEN [x EXCEPT !.pc = "confirm", !.pre = x.dep]
    ELSE [x EXCEPT !.pc = "completed"]

Begin(c, x) ==
    /\ At(c, "idle")
    /\ starts < MaxStarts
    /\ starts' = starts + 1
    /\ Become(c, x)
    /\ UNCHANGED <<cands, deps, head, ship, faults>>

(* release ship: without a preproduction deployment on record, a            *)
(* confirmation runs the preproduction phase first.                         *)
ShipCommand(c, ch, op) ==
    Begin(c, [Idle EXCEPT
        !.op = op, !.change = ch, !.cand = ship[ch].cand, !.pre = ship[ch].pre,
        !.pc = IF op = "confirm" /\ ship[ch].pre # 0 THEN "resolve"
               ELSE IF ship[ch].cand = 0 THEN "seal" ELSE "inspect"])

(* release deploy and release promote of a sealed candidate.                *)
DeployCommand(c, k, e) ==
    Begin(c, [Idle EXCEPT !.op = "deploy", !.env = e, !.cand = k, !.pc = "create"])

(* release test reads the deployment and completes it with evidence.        *)
TestCommand(c, d) ==
    /\ deps[d].status \in {"deployed", "failed"}
    /\ Begin(c, [Idle EXCEPT !.op = "test", !.env = deps[d].env,
                             !.cand = deps[d].cand, !.dep = d, !.pc = "reconcile"])

(* release fail checks that the deployment is one of preproduction.         *)
FailCommand(d) ==
    /\ deps[d].env = Pre
    /\ deps[d].status \in {"running", "deployed"}
    /\ starts < MaxStarts
    /\ starts' = starts + 1
    /\ deps' = Failed(d)
    /\ UNCHANGED <<cands, head, ship, cmd, faults>>

ReconcileCommand(d) ==
    /\ Reconcilable(d)
    /\ starts < MaxStarts
    /\ starts' = starts + 1
    /\ deps' = Reconciled(d)
    /\ UNCHANGED <<cands, head, ship, cmd, faults>>

-----------------------------------------------------------------------------
(* The preproduction phase.                                                 *)

(* Every build of a candidate has a suffix of its own: two first runs seal  *)
(* two candidates.                                                          *)
Seal(c) ==
    /\ At(c, "seal")
    /\ cands' = Append(cands, cmd[c].change)
    /\ cmd' = [cmd EXCEPT ![c].cand = Len(cands) + 1, ![c].pc = "sealed"]
    /\ UNCHANGED <<deps, head, ship, starts, faults>>

RecordCandidate(c) ==
    /\ At(c, "sealed")
    /\ Merge(c, [status |-> "candidate_created", cand |-> cmd[c].cand])
    /\ Goto(c, "inspect")
    /\ UNCHANGED <<cands, deps, head, starts, faults>>

(* The deployment on record is kept if it holds or has succeeded.           *)
Inspect(c) ==
    LET d == cmd[c].pre IN
    /\ At(c, "inspect")
    /\ IF d # 0 /\ deps[d].status \in {"deployed", "succeeded"}
       THEN cmd' = [cmd EXCEPT ![c].dep = d, ![c].pc = "await"]
       ELSE Goto(c, "create")
    /\ UNCHANGED <<cands, deps, head, ship, starts, faults>>

RecordAwaiting(c) ==
    /\ At(c, "await")
    /\ Merge(c, [status |-> "awaiting_production_confirmation",
                 cand |-> cmd[c].cand, pre |-> cmd[c].dep])
    /\ IF cmd[c].op = "confirm" THEN Goto(c, "reread") ELSE Stop(c)
    /\ UNCHANGED <<cands, deps, head, starts, faults>>

(* One command for both phases goes on with what the file holds by then.    *)
Reread(c) ==
    LET s == ship[cmd[c].change] IN
    /\ At(c, "reread")
    /\ IF s.pre = 0 THEN Stop(c)
       ELSE Become(c, [cmd[c] EXCEPT !.cand = s.cand, !.pre = s.pre, !.pc = "resolve"])
    /\ UNCHANGED <<cands, deps, head, ship, starts, faults>>

-----------------------------------------------------------------------------
(* A deployment, in either environment.                                     *)

Create(c) ==
    LET x == cmd[c] IN
    /\ At(c, "create")
    /\ Admitted(x.env, x.cand)
    /\ deps' = Append(deps, NewDeployment(x.env, x.cand))
    /\ Become(c, [x EXCEPT !.dep = Len(deps) + 1, !.pc = "publish"])
    /\ UNCHANGED <<cands, head, ship, starts, faults>>

(* A deployment that waits for its evidence holds the slot: the command     *)
(* gives up at once.  For one that runs it waits, up to a deadline that may *)
(* pass at any time.  The gate of a promotion refuses for good.             *)
CreateRefused(c) ==
    /\ At(c, "create")
    /\ ~Admitted(cmd[c].env, cmd[c].cand)
    /\ Become(c, Thrown(cmd[c]))
    /\ UNCHANGED <<cands, deps, head, ship, starts, faults>>

(* publishWorkspaceRelease (module ReleaseExecution): activates the release *)
(* of the candidate or fails before.                                        *)
Activate(c) ==
    LET d == cmd[c].dep IN
    /\ At(c, "publish")
    /\ head' = [head EXCEPT ![cmd[c].env] = d]
    /\ deps' = [deps EXCEPT ![d].live = TRUE,
                            ![d].status = IF @ = "running" THEN "deployed" ELSE @]
    /\ Goto(c, "activated")
    /\ UNCHANGED <<cands, ship, starts, faults>>

(* The deployment is read and returned, also when only the release of the   *)
(* publish lease failed.                                                    *)
ReturnDeployment(c) ==
    /\ At(c, "activated")
    /\ Become(c, AfterDeploy(cmd[c]))
    /\ UNCHANGED <<cands, deps, head, ship, starts, faults>>

(* Any other error, before or after the activation, fails the deployment.   *)
PublishFails(c) ==
    /\ cmd[c].pc \in {"publish", "activated"}
    /\ Goto(c, "settle")
    /\ UNCHANGED <<cands, deps, head, ship, starts, faults>>

MarkFailed(c) ==
    LET x == cmd[c] IN
    /\ At(c, "settle")
    /\ deps' = Failed(x.dep)
    /\ Become(c, IF Shipping(x) THEN [x EXCEPT !.pc = "failed"] ELSE Idle)
    /\ UNCHANGED <<cands, head, ship, starts, faults>>

RecordFailure(c) ==
    LET x == cmd[c] IN
    /\ At(c, "failed") /\ x.env = Pre
    /\ Merge(c, [status |-> "preproduction_failed", cand |-> x.cand, pre |-> x.dep])
    /\ Stop(c)
    /\ UNCHANGED <<cands, deps, head, starts, faults>>

RecordProductionFailure(c) ==
    /\ At(c, "failed") /\ cmd[c].env = Prod
    /\ Merge(c, [status |-> "production_failed", prod |-> cmd[c].dep])
    /\ Stop(c)
    /\ UNCHANGED <<cands, deps, head, starts, faults>>

-----------------------------------------------------------------------------
(* The acceptance of a preproduction deployment.                            *)

(* Mutant of ReadHead: an environment without a release is not refused.     *)
ReadHeadUnchecked(c) ==
    /\ At(c, "resolve")
    /\ cmd' = [cmd EXCEPT ![c].cur = head[Pre], ![c].pc = "original"]
    /\ UNCHANGED <<cands, deps, head, ship, starts, faults>>

ReadHead(c) ==
    /\ At(c, "resolve")
    /\ IF head[Pre] = 0 THEN Stop(c)
       ELSE cmd' = [cmd EXCEPT ![c].cur = head[Pre], ![c].pc = "original"]
    /\ UNCHANGED <<cands, deps, head, ship, starts, faults>>

(* Mutant of Identity: whatever the candidate of the deployment.            *)
IdentityOfAny(x, d) == deps[d].env = Pre /\ deps[d].live /\ d = x.cur

(* A deployment of this candidate whose release was active when the command *)
(* read the head.                                                           *)
Identity(x, d) == deps[d].env = Pre /\ deps[d].cand = x.cand /\ deps[d].live /\ d = x.cur

Proven(x, d) ==
    Identity(x, d) /\ deps[d].status = "succeeded" /\ deps[d].evidence = "fresh"

ReadOriginal(c) ==
    LET x == cmd[c] d == x.pre IN
    /\ At(c, "original")
    /\ Become(c,
         IF Identity(x, d) /\ deps[d].status = "deployed"
         THEN [x EXCEPT !.dep = d, !.env = Pre, !.pc = "reconcile"]
         ELSE IF Proven(x, d) THEN [x EXCEPT !.dep = d, !.pc = "confirm"]
         ELSE [x EXCEPT !.pc = "history"])
    /\ UNCHANGED <<cands, deps, head, ship, starts, faults>>

(* Another deployment may stand in for the one on record.                   *)
FindReplacement(c) ==
    LET x == cmd[c] found == { d \in DOMAIN deps \ {x.pre} : Proven(x, d) } IN
    /\ At(c, "history")
    /\ IF found = {} THEN Stop(c)
       ELSE \E d \in found : Become(c, [x EXCEPT !.dep = d, !.pre = d, !.pc = "recovered"])
    /\ UNCHANGED <<cands, deps, head, ship, starts, faults>>

RecordRecovered(c) ==
    /\ At(c, "recovered")
    /\ Merge(c, [status |-> "awaiting_production_confirmation", pre |-> cmd[c].dep])
    /\ Goto(c, "confirm")
    /\ UNCHANGED <<cands, deps, head, starts, faults>>

RecordConfirmed(c) ==
    /\ At(c, "confirm")
    /\ Merge(c, [status |-> "confirmed_for_production", pre |-> cmd[c].pre])
    /\ cmd' = [cmd EXCEPT ![c].env = Prod, ![c].dep = 0, ![c].pc = "create"]
    /\ UNCHANGED <<cands, deps, head, starts, faults>>

-----------------------------------------------------------------------------
(* The completion of a deployment with evidence, in either environment.     *)

Reconcile(c) ==
    LET x == cmd[c] d == x.dep IN
    /\ At(c, "reconcile")
    /\ \/ /\ deps[d].status = "succeeded"
          /\ Become(c, AfterEvidence(x))
          /\ UNCHANGED deps
       \/ /\ Reconcilable(d)
          /\ deps' = Reconciled(d)
          /\ Goto(c, "complete")
       \/ /\ deps[d].status # "succeeded" /\ ~Reconcilable(d)
          /\ Become(c, Thrown(x))
          /\ UNCHANGED deps
    /\ UNCHANGED <<cands, head, ship, starts, faults>>

Complete(c) ==
    LET x == cmd[c] d == x.dep IN
    /\ At(c, "complete")
    /\ IF deps[d].status = "deployed"
       THEN /\ deps' = [deps EXCEPT ![d].status = "succeeded", ![d].evidence = "fresh"]
            /\ Become(c, AfterEvidence(x))
       ELSE Become(c, Thrown(x)) /\ UNCHANGED deps
    /\ UNCHANGED <<cands, head, ship, starts, faults>>

RecordEvidenceFailure(c) ==
    /\ At(c, "evidence_failed")
    /\ Merge(c, [status |-> "production_evidence_failed", prod |-> cmd[c].dep])
    /\ Stop(c)
    /\ UNCHANGED <<cands, deps, head, starts, faults>>

RecordCompleted(c) ==
    /\ At(c, "completed")
    /\ Merge(c, [status |-> "completed", prod |-> cmd[c].dep])
    /\ Stop(c)
    /\ UNCHANGED <<cands, deps, head, starts, faults>>

-----------------------------------------------------------------------------
(* Faults.                                                                  *)

Fault == faults < MaxFaults /\ faults' = faults + 1

Crash(c) ==
    /\ ~At(c, "idle")
    /\ Fault
    /\ Stop(c)
    /\ UNCHANGED <<cands, deps, head, ship, starts>>

(* A request fails, or a check of the sealed files before it.  A deployment *)
(* on record that cannot be read is replaced like one that is refused.      *)
RequestLost(c) ==
    LET x == cmd[c] IN
    /\ Fault
    /\ \/ /\ x.pc \in {"seal", "inspect", "create", "resolve", "history", "reconcile", "complete"}
          /\ Become(c, Thrown(x))
       \/ x.pc = "original" /\ Goto(c, "history")
       \/ x.pc = "settle" /\ Become(c, IF Shipping(x) THEN [x EXCEPT !.pc = "failed"] ELSE Idle)
    /\ UNCHANGED <<cands, deps, head, ship, starts>>

(* The platform served the request, and the answer is lost.                 *)
AnswerLost(c) ==
    LET x == cmd[c] d == x.dep IN
    /\ Fault
    /\ \/ /\ x.pc = "create" /\ Admitted(x.env, x.cand)
          /\ deps' = Append(deps, NewDeployment(x.env, x.cand))
       \/ /\ x.pc = "reconcile" /\ Reconcilable(d)
          /\ deps' = Reconciled(d)
       \/ /\ x.pc = "complete" /\ deps[d].status = "deployed"
          /\ deps' = [deps EXCEPT ![d].status = "succeeded", ![d].evidence = "fresh"]
    /\ Become(c, Thrown(x))
    /\ UNCHANGED <<cands, head, ship, starts>>

(* Evidence is valid for 24 hours.                                          *)
ExpireEvidence(d) ==
    /\ deps[d].evidence = "fresh"
    /\ Fault
    /\ deps' = [deps EXCEPT ![d].evidence = "stale"]
    /\ UNCHANGED <<cands, head, ship, cmd, starts>>

-----------------------------------------------------------------------------
Step(c) ==
    \/ Seal(c) \/ RecordCandidate(c) \/ Inspect(c) \/ RecordAwaiting(c) \/ Reread(c)
    \/ Create(c) \/ CreateRefused(c) \/ Activate(c) \/ ReturnDeployment(c)
    \/ PublishFails(c) \/ MarkFailed(c) \/ RecordFailure(c) \/ RecordProductionFailure(c)
    \/ ReadHead(c) \/ ReadOriginal(c) \/ FindReplacement(c)
    \/ RecordRecovered(c) \/ RecordConfirmed(c)
    \/ Reconcile(c) \/ Complete(c) \/ RecordEvidenceFailure(c) \/ RecordCompleted(c)

Next ==
    \/ \E c \in Commands :
        \/ Step(c) \/ Crash(c) \/ RequestLost(c) \/ AnswerLost(c)
        \/ \E ch \in Changes, op \in {"ship", "confirm"} : ShipCommand(c, ch, op)
        \/ \E k \in DOMAIN cands, e \in Envs : DeployCommand(c, k, e)
        \/ \E d \in DOMAIN deps : TestCommand(c, d)
    \/ \E d \in DOMAIN deps : FailCommand(d) \/ ReconcileCommand(d) \/ ExpireEvidence(d)

Spec == Init /\ [][Next]_vars

-----------------------------------------------------------------------------
(* Every variable has a value of its type, and a command that works on a    *)
(* candidate, a deployment or the active release has one.                   *)
Working ==
    {"reconcile", "complete", "publish", "activated", "settle", "await",
     "recovered", "evidence_failed", "completed"}

CommandState == [
    pc     : {"idle", "seal", "sealed", "inspect", "reread", "create", "failed",
              "resolve", "original", "history", "confirm"} \cup Working,
    op     : {"none", "ship", "confirm", "deploy", "test"},
    change : Changes \cup {"none"},
    env    : Envs,
    cand   : 0..Len(cands),
    pre    : 0..Len(deps),
    dep    : 0..Len(deps),
    cur    : 0..Len(deps)]

Deployment == [
    env      : Envs,
    cand     : DOMAIN cands,
    status   : {"running", "deployed", "failed", "succeeded"},
    live     : BOOLEAN,
    evidence : {"none", "fresh", "stale"}]

ShipRecord == [status : ShipStatuses, cand : 0..Len(cands), pre : 0..Len(deps), prod : 0..Len(deps)]

TypeOK ==
    /\ cands \in Seq(Changes)
    /\ deps \in Seq(Deployment)
    /\ head \in [Envs -> 0..Len(deps)]
    /\ ship \in [Changes -> ShipRecord]
    /\ cmd \in [Commands -> CommandState]
    /\ starts \in 0..MaxStarts
    /\ faults \in 0..MaxFaults
    /\ \A c \in Commands :
        /\ Shipping(cmd[c]) => cmd[c].change \in Changes
        /\ cmd[c].pc \in Working => cmd[c].dep # 0
        /\ cmd[c].pc \in {"create", "inspect", "sealed", "resolve"} => cmd[c].cand # 0
        /\ cmd[c].pc = "original" => cmd[c].pre # 0 /\ cmd[c].cur # 0

(* From the confirmation on, a command promotes the candidate of a          *)
(* preproduction deployment that was activated and has succeeded on         *)
(* evidence, and the candidate was sealed for the change that is shipped,   *)
(* whatever other terminals wrote into ship.json meanwhile.                 *)
PromotesAccepted ==
    \A c \in Commands : Shipping(cmd[c]) /\ (At(c, "confirm") \/ cmd[c].env = Prod) =>
        LET d == deps[cmd[c].pre] IN
        /\ d.env = Pre
        /\ d.cand = cmd[c].cand
        /\ d.live
        /\ d.status = "succeeded"
        /\ cands[d.cand] = cmd[c].change

(* A change is reported as completed only with a production deployment that *)
(* has succeeded, of a candidate of this change that had succeeded in       *)
(* preproduction before.                                                    *)
CompletedIsShipped ==
    \A ch \in Changes : ship[ch].status = "completed" =>
        LET d == deps[ship[ch].prod] IN
        /\ d.env = Prod
        /\ d.status = "succeeded"
        /\ cands[d.cand] = ch
        /\ \E p \in 1..ship[ch].prod :
            deps[p].env = Pre /\ deps[p].cand = d.cand /\ deps[p].status = "succeeded"

(* What a command that lets go of its deployment leaves in the slot, after  *)
(* whatever happened to it and to others before:                            *)
(*   - a deployment that still runs, only if in this very step the command  *)
(*     is killed while it publishes, or its report of a failure is lost;    *)
(*   - a production deployment that waits for evidence, only as the active  *)
(*     release that reconciliation accepts, so that `release test` can free *)
(*     the slot; and a ship command never leaves one unless it is killed or *)
(*     a request of its own is lost in this step;                           *)
(*   - and a ship command that loses a production request, not killed, goes *)
(*     on to name the deployment in ship.json.                              *)
(* (A creation whose answer is lost leaves a running deployment that no     *)
(* command knows.)                                                          *)
Holding == {"publish", "activated", "settle", "reconcile", "complete"}

Lost == faults' # faults

ReleasesItsSlot ==
    [][ \A c \in Commands : \A d \in DOMAIN deps :
          LET x == cmd[c] IN
          d = x.dep /\ x.pc \in Holding /\ cmd'[c].pc \notin Holding =>
            /\ deps'[d].status = "running" => Lost /\ x.pc \in {"publish", "settle"}
            /\ x.env = Prod /\ deps'[d].status = "deployed" =>
                  Reconcilable(d)' /\ (Shipping(x) => Lost)
            /\ Lost /\ Shipping(x) /\ x.env = Prod =>
                  \/ Crash(c)
                  \/ cmd'[c].pc \in {"failed", "evidence_failed"} /\ cmd'[c].dep = d ]_vars
=============================================================================
