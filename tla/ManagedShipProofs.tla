------------------------- MODULE ManagedShipProofs -------------------------
(***************************************************************************)
(* Theorems about ManagedShip.  What terminals know of candidates and      *)
(* deployments stays true, because the platform only adds to it: a         *)
(* deployment keeps its environment and its candidate, and once activated  *)
(* or succeeded it is so for good.  So facts that a command checked when   *)
(* it accepted a preproduction deployment still hold when it promotes,     *)
(* whatever other terminals did and wrote into ship.json meanwhile.  Only  *)
(* the slot of an environment needs more: who may change a deployment      *)
(* that still runs.                                                        *)
(***************************************************************************)
EXTENDS ManagedShip, TLAPS

PCs == {"idle", "seal", "sealed", "inspect", "reread", "create", "failed",
        "resolve", "original", "history", "confirm"} \cup Working

Ops == {"none", "ship", "confirm", "deploy", "test"}

AllCommands == [pc : PCs, op : Ops, change : Changes \cup {"none"}, env : Envs,
                cand : Nat, pre : Nat, dep : Nat, cur : Nat]

AllDeployments == [env : Envs, cand : Nat,
                   status : {"running", "deployed", "failed", "succeeded"},
                   live : BOOLEAN, evidence : {"none", "fresh", "stale"}]

AllShips == [status : ShipStatuses, cand : Nat, pre : Nat, prod : Nat]

-----------------------------------------------------------------------------
(* The platform.                                                            *)

(* Candidate k had succeeded in preproduction before deployment d.          *)
AcceptedBefore(d, k) ==
    \E p \in 1..d : deps[p].env = Pre /\ deps[p].cand = k /\ deps[p].status = "succeeded"

DeploymentsOK ==
    \A d \in DOMAIN deps :
        /\ deps[d].cand \in DOMAIN cands
        /\ deps[d].status \in {"deployed", "succeeded"} => deps[d].live
        /\ deps[d].env = Prod => AcceptedBefore(d, deps[d].cand)

HeadsOK ==
    \A e \in Envs : head[e] # 0 =>
        head[e] \in DOMAIN deps /\ deps[head[e]].env = e /\ deps[head[e]].live

PlatformInv ==
    /\ cands \in Seq(Changes)
    /\ deps \in Seq(AllDeployments)
    /\ head \in [Envs -> Nat]
    /\ DeploymentsOK
    /\ HeadsOK

-----------------------------------------------------------------------------
(* ship.json and the commands.                                              *)

ShipOK(s, ch) ==
    /\ s \in AllShips
    /\ s.cand \in 0..Len(cands)
    /\ s.cand # 0 => cands[s.cand] = ch
    /\ s.pre \in 0..Len(deps)
    /\ s.pre # 0 => s.cand # 0
    /\ s.prod \in 0..Len(deps)
    /\ s.status = "completed" =>
        /\ s.prod # 0
        /\ deps[s.prod].env = Prod
        /\ deps[s.prod].status = "succeeded"
        /\ cands[deps[s.prod].cand] = ch

ShipInv ==
    /\ ship \in [Changes -> AllShips]
    /\ \A ch \in Changes : ShipOK(ship[ch], ch)

(* The states in which the deployment of a command is one of its candidate  *)
(* in its environment, those in which it has left "running" for good, and   *)
(* those which belong to production as well as to preproduction.            *)
OwnDeployment == Working \ {"await"}
NotRunning == {"activated", "reconcile", "complete"}
InEither == {"create", "publish", "activated", "settle", "failed", "reconcile", "complete",
             "evidence_failed", "completed"}

(* Deployment d accepted candidate k, for good.                             *)
AcceptedFor(d, k) ==
    /\ d \in DOMAIN deps
    /\ deps[d].env = Pre
    /\ deps[d].cand = k
    /\ deps[d].live
    /\ deps[d].status = "succeeded"

BoundsOK(x) ==
    /\ x \in AllCommands
    /\ x.cand \in 0..Len(cands)
    /\ x.pre \in 0..Len(deps)
    /\ x.dep \in 0..Len(deps)
    /\ x.cur \in 0..Len(deps)
    /\ x.pc \in Working => x.dep # 0
    /\ x.pc \notin {"idle", "seal"} => x.cand # 0
    /\ x.pc \in {"resolve", "original"} => x.pre # 0
    /\ x.pc = "original" => x.cur # 0

OwnOK(x) ==
    /\ x.pc \in OwnDeployment => deps[x.dep].env = x.env /\ deps[x.dep].cand = x.cand
    /\ x.pc \in NotRunning => deps[x.dep].status # "running"
    /\ x.pc = "completed" => x.env = Prod /\ deps[x.dep].status = "succeeded"

ShippingOK(x) ==
    /\ x.change \in Changes
    /\ x.pc \notin {"idle", "seal", "sealed"} => ship[x.change].cand # 0
    /\ x.cand # 0 => cands[x.cand] = x.change
    /\ x.pc \notin InEither => x.env = Pre
    /\ x.pc \in {"recovered", "confirm"} \/ x.env = Prod => AcceptedFor(x.pre, x.cand)
    /\ x.pc = "recovered" => x.dep = x.pre

CommandOK(x) == BoundsOK(x) /\ OwnOK(x) /\ (Shipping(x) => ShippingOK(x))

(* Only the commands of the two phases have the states of their own.        *)
PhasesOK(x) ==
    x.pc \in PCs \ {"idle", "create", "publish", "activated", "settle", "reconcile", "complete"}
    => Shipping(x)

CommandInv ==
    /\ cmd \in [Commands -> AllCommands]
    /\ \A c \in Commands : CommandOK(cmd[c]) /\ PhasesOK(cmd[c])

Inv ==
    /\ PlatformInv
    /\ ShipInv
    /\ CommandInv
    /\ starts \in 0..MaxStarts
    /\ faults \in 0..MaxFaults

-----------------------------------------------------------------------------
(* The slot of an environment.                                              *)

Owning == {"publish", "activated", "settle"}

OneInFlight == \A e \in Envs : \A d1, d2 \in InFlight(e) : d1 = d2

DeployedIsHead ==
    \A d \in DOMAIN deps : deps[d].env = Prod /\ deps[d].status = "deployed" => head[Prod] = d

PublishRuns ==
    \A c \in Commands :
        At(c, "publish") /\ cmd[c].env = Prod => deps[cmd[c].dep].status = "running"

OwnersDiffer ==
    \A c1, c2 \in Commands :
        cmd[c1].pc \in Owning /\ cmd[c2].pc \in Owning /\ cmd[c1].dep = cmd[c2].dep => c1 = c2

SlotInv == OneInFlight /\ DeployedIsHead /\ PublishRuns /\ OwnersDiffer

-----------------------------------------------------------------------------
(* How the platform changes.                                                *)

DeploymentGrows(d) ==
    /\ deps'[d].env = deps[d].env
    /\ deps'[d].cand = deps[d].cand
    /\ deps[d].live => deps'[d].live
    /\ deps[d].status = "succeeded" => deps'[d].status = "succeeded"
    /\ deps[d].status # "running" => deps'[d].status # "running"

Grows ==
    /\ cands \in Seq(Changes) /\ cands' \in Seq(Changes)
    /\ deps \in Seq(AllDeployments) /\ deps' \in Seq(AllDeployments)
    /\ Len(cands) <= Len(cands')
    /\ \A k \in 1..Len(cands) : cands'[k] = cands[k]
    /\ Len(deps) <= Len(deps')
    /\ \A d \in 1..Len(deps) : DeploymentGrows(d)

CandidateKept == \A ch \in Changes : ship[ch].cand # 0 => ship'[ch].cand # 0

LEMMA DeploymentFields ==
    ASSUME PlatformInv, NEW d \in DOMAIN deps
    PROVE  /\ d \in 1..Len(deps) /\ d \in Nat /\ d # 0
           /\ deps[d] \in AllDeployments
           /\ deps[d].env \in Envs
           /\ deps[d].cand \in DOMAIN cands /\ deps[d].cand \in 1..Len(cands)
<1>1. d \in 1..Len(deps) /\ d \in Nat /\ d # 0 /\ deps[d] \in AllDeployments
  BY DEF PlatformInv
<1>2. deps[d].cand \in DOMAIN cands /\ DOMAIN cands = 1..Len(cands)
  BY DEF PlatformInv, DeploymentsOK
<1>3. QED
  BY <1>1, <1>2 DEF AllDeployments

LEMMA Unchanged ==
    ASSUME PlatformInv, UNCHANGED <<cands, deps>>
    PROVE  Grows
  BY DEF PlatformInv, Grows, DeploymentGrows

LEMMA PlatformUnchanged ==
    ASSUME PlatformInv, UNCHANGED <<cands, deps, head>>
    PROVE  PlatformInv' /\ Grows
<1>1. PlatformInv'
  BY DEF PlatformInv, DeploymentsOK, HeadsOK, AcceptedBefore
<1>2. QED
  BY <1>1, Unchanged

LEMMA CandidateAdded ==
    ASSUME PlatformInv, NEW ch \in Changes, cands' = Append(cands, ch), UNCHANGED <<deps, head>>
    PROVE  PlatformInv' /\ Grows
<1>1. /\ cands' \in Seq(Changes) /\ Len(cands') = Len(cands) + 1
      /\ \A k \in 1..Len(cands) : cands'[k] = cands[k]
      /\ Len(cands) \in Nat /\ DOMAIN cands = 1..Len(cands) /\ DOMAIN cands' = 1..Len(cands')
  BY DEF PlatformInv
<1>2. PlatformInv'
  BY <1>1 DEF PlatformInv, DeploymentsOK, HeadsOK, AcceptedBefore
<1>3. QED
  BY <1>1, <1>2 DEF PlatformInv, Grows, DeploymentGrows

LEMMA DeploymentAdded ==
    ASSUME PlatformInv, NEW e \in Envs, NEW k \in DOMAIN cands, Admitted(e, k),
           deps' = Append(deps, NewDeployment(e, k)), UNCHANGED <<cands, head>>
    PROVE  /\ PlatformInv' /\ Grows
           /\ Len(deps') = Len(deps) + 1
           /\ deps'[Len(deps) + 1] = NewDeployment(e, k)
           /\ \A d \in DOMAIN deps : deps'[d] = deps[d]
           /\ e = Prod => \E p \in DOMAIN deps :
                 deps[p].env = Pre /\ deps[p].cand = k /\ deps[p].status = "succeeded"
<1>1. NewDeployment(e, k) \in AllDeployments
  BY DEF NewDeployment, AllDeployments, PlatformInv
<1>2. /\ deps' \in Seq(AllDeployments) /\ Len(deps') = Len(deps) + 1
      /\ deps'[Len(deps) + 1] = NewDeployment(e, k)
      /\ \A d \in 1..Len(deps) : deps'[d] = deps[d]
      /\ Len(deps) \in Nat /\ DOMAIN deps = 1..Len(deps) /\ DOMAIN deps' = 1..Len(deps')
  BY <1>1 DEF PlatformInv
<1>3. e = Prod => \E p \in DOMAIN deps :
                 deps[p].env = Pre /\ deps[p].cand = k /\ deps[p].status = "succeeded"
  BY DEF Admitted, Accepted
<1>4. DeploymentsOK'
  <2> SUFFICES ASSUME NEW d \in DOMAIN deps'
               PROVE  /\ deps'[d].cand \in DOMAIN cands
                      /\ deps'[d].status \in {"deployed", "succeeded"} => deps'[d].live
                      /\ deps'[d].env = Prod => AcceptedBefore(d, deps[d].cand)'
    BY DEF DeploymentsOK, AcceptedBefore
  <2>1. CASE d = Len(deps) + 1
    <3>1. deps'[d].env = e /\ deps'[d].cand = k /\ deps'[d].status = "running"
      BY <1>2, <2>1 DEF NewDeployment
    <3>2. \A p \in DOMAIN deps : p \in 1..d
      BY <1>2, <2>1
    <3>3. QED
      BY <1>2, <1>3, <3>1, <3>2 DEF AcceptedBefore
  <2>2. CASE d \in DOMAIN deps
    <3>1. \A p \in 1..d : deps'[p] = deps[p]
      BY <1>2, <2>2
    <3>2. QED
      BY <1>2, <2>2, <3>1 DEF PlatformInv, DeploymentsOK, AcceptedBefore
  <2>3. QED
    BY <1>2, <2>1, <2>2
<1>5. HeadsOK'
  BY <1>2 DEF PlatformInv, HeadsOK
<1>6. PlatformInv' /\ Grows
  BY <1>2, <1>4, <1>5 DEF PlatformInv, Grows, DeploymentGrows
<1>7. QED
  BY <1>2, <1>3, <1>6

(* One deployment changes as deployments may, and takes the head at most of *)
(* its own environment.                                                     *)
LEMMA DeploymentChanged ==
    ASSUME PlatformInv, NEW d \in DOMAIN deps, NEW y \in AllDeployments,
           y.env = deps[d].env, y.cand = deps[d].cand,
           deps[d].live => y.live,
           deps[d].status = "succeeded" => y.status = "succeeded",
           deps[d].status # "running" => y.status # "running",
           y.status \in {"deployed", "succeeded"} => y.live,
           deps' = [deps EXCEPT ![d] = y], cands' = cands,
           head' = head \/ (head' = [head EXCEPT ![y.env] = d] /\ y.live)
    PROVE  PlatformInv' /\ Grows
<1>1. /\ deps' \in Seq(AllDeployments) /\ Len(deps') = Len(deps) /\ DOMAIN deps' = DOMAIN deps
      /\ deps'[d] = y /\ \A p \in DOMAIN deps : p # d => deps'[p] = deps[p]
      /\ Len(deps) \in Nat /\ DOMAIN deps = 1..Len(deps)
  BY DEF PlatformInv
<1>2. \A p \in 1..Len(deps) : DeploymentGrows(p)
  BY <1>1 DEF DeploymentGrows
<1>3. Grows
  BY <1>1, <1>2 DEF Grows, PlatformInv
<1>4. DeploymentsOK'
  <2> SUFFICES ASSUME NEW p \in DOMAIN deps
               PROVE  /\ deps'[p].cand \in DOMAIN cands
                      /\ deps'[p].status \in {"deployed", "succeeded"} => deps'[p].live
                      /\ deps'[p].env = Prod => AcceptedBefore(p, deps[p].cand)'
    BY <1>1 DEF DeploymentsOK, AcceptedBefore
  <2>1. /\ deps'[p].env = deps[p].env /\ deps'[p].cand = deps[p].cand
        /\ deps[p].cand \in DOMAIN cands
    BY <1>1 DEF PlatformInv, DeploymentsOK
  <2>2. deps'[p].status \in {"deployed", "succeeded"} => deps'[p].live
    BY <1>1 DEF PlatformInv, DeploymentsOK
  <2>3. ASSUME deps[p].env = Prod PROVE AcceptedBefore(p, deps[p].cand)'
    <3>1. PICK q \in 1..p : /\ deps[q].env = Pre /\ deps[q].cand = deps[p].cand
                            /\ deps[q].status = "succeeded"
      BY <2>3 DEF PlatformInv, DeploymentsOK, AcceptedBefore
    <3>2. q \in 1..Len(deps)
      BY <1>1
    <3>3. QED
      BY <1>2, <2>1, <3>1, <3>2 DEF DeploymentGrows, AcceptedBefore
  <2>4. QED
    BY <2>1, <2>2, <2>3
<1>5. head' \in [Envs -> Nat] /\ HeadsOK'
  <2>1. y.env \in Envs /\ d \in Nat
    BY <1>1 DEF AllDeployments
  <2>2. head' \in [Envs -> Nat]
    BY <2>1 DEF PlatformInv
  <2>3. ASSUME NEW e \in Envs, head'[e] # 0
        PROVE  head'[e] \in DOMAIN deps' /\ deps'[head'[e]].env = e /\ deps'[head'[e]].live
    <3>1. CASE head'[e] = head[e]
      BY <1>1, <1>2, <2>3, <3>1 DEF PlatformInv, HeadsOK, DeploymentGrows
    <3>2. CASE e = y.env /\ head'[e] = d /\ y.live
      BY <1>1, <3>2
    <3>3. QED
      BY <2>1, <3>1, <3>2 DEF PlatformInv
  <2>4. QED
    BY <2>2, <2>3 DEF HeadsOK
<1>6. QED
  BY <1>1, <1>3, <1>4, <1>5 DEF PlatformInv

LEMMA FailedGrows ==
    ASSUME PlatformInv, NEW d \in DOMAIN deps, deps' = Failed(d), UNCHANGED <<cands, head>>
    PROVE  PlatformInv' /\ Grows
<1>1. CASE deps[d].status = "succeeded"
  BY <1>1, PlatformUnchanged DEF Failed
<1>2. CASE deps[d].status # "succeeded"
  <2>1. PICK y : y = [deps[d] EXCEPT !.status = "failed"]
    OBVIOUS
  <2>2. /\ y \in AllDeployments /\ y.env = deps[d].env /\ y.cand = deps[d].cand
        /\ y.live = deps[d].live /\ y.status = "failed"
    BY <2>1, DeploymentFields DEF AllDeployments
  <2>3. deps' = [deps EXCEPT ![d] = y]
    BY <1>2, <2>1 DEF Failed
  <2>4. QED
    BY <1>2, <2>2, <2>3, DeploymentChanged
<1>3. QED
  BY <1>1, <1>2

LEMMA ReconciledGrows ==
    ASSUME PlatformInv, NEW d \in DOMAIN deps, Reconcilable(d), deps' = Reconciled(d),
           UNCHANGED <<cands, head>>
    PROVE  PlatformInv' /\ Grows
<1>1. PICK y : y = [deps[d] EXCEPT !.status = "deployed"]
  OBVIOUS
<1>2. /\ y \in AllDeployments /\ y.env = deps[d].env /\ y.cand = deps[d].cand
      /\ y.live = deps[d].live /\ y.status = "deployed"
  BY <1>1, DeploymentFields DEF AllDeployments
<1>3. deps' = [deps EXCEPT ![d] = y]
  BY <1>1 DEF Reconciled
<1>4. deps[d].live /\ deps[d].status # "succeeded"
  BY DEF Reconcilable
<1>5. QED
  BY <1>2, <1>3, <1>4, DeploymentChanged

LEMMA SucceededGrows ==
    ASSUME PlatformInv, NEW d \in DOMAIN deps, deps[d].status = "deployed",
           deps' = [deps EXCEPT ![d].status = "succeeded", ![d].evidence = "fresh"],
           UNCHANGED <<cands, head>>
    PROVE  PlatformInv' /\ Grows /\ deps'[d].status = "succeeded"
<1>1. PICK y : y = [deps[d] EXCEPT !.status = "succeeded", !.evidence = "fresh"]
  OBVIOUS
<1>2. /\ y \in AllDeployments /\ y.env = deps[d].env /\ y.cand = deps[d].cand
      /\ y.live = deps[d].live /\ y.status = "succeeded"
  BY <1>1, DeploymentFields DEF AllDeployments
<1>3. deps' = [deps EXCEPT ![d] = y]
  BY <1>1
<1>4. deps[d].live
  BY DEF PlatformInv, DeploymentsOK
<1>5. QED
  BY <1>2, <1>3, <1>4, DeploymentChanged

LEMMA ExpiredGrows ==
    ASSUME PlatformInv, NEW d \in DOMAIN deps,
           deps' = [deps EXCEPT ![d].evidence = "stale"], UNCHANGED <<cands, head>>
    PROVE  PlatformInv' /\ Grows
<1>1. PICK y : y = [deps[d] EXCEPT !.evidence = "stale"]
  OBVIOUS
<1>2. /\ y \in AllDeployments /\ y.env = deps[d].env /\ y.cand = deps[d].cand
      /\ y.live = deps[d].live /\ y.status = deps[d].status
  BY <1>1, DeploymentFields DEF AllDeployments
<1>3. deps' = [deps EXCEPT ![d] = y]
  BY <1>1
<1>4. y.status \in {"deployed", "succeeded"} => y.live
  BY <1>2 DEF PlatformInv, DeploymentsOK
<1>5. /\ deps[d].live => y.live
      /\ deps[d].status = "succeeded" => y.status = "succeeded"
      /\ deps[d].status # "running" => y.status # "running"
      /\ cands' = cands /\ head' = head
  BY <1>2
<1>6. QED
  BY <1>2, <1>3, <1>4, <1>5, DeploymentChanged

LEMMA ActivatedGrows ==
    ASSUME PlatformInv, NEW d \in DOMAIN deps, NEW e, deps[d].env = e,
           head' = [head EXCEPT ![e] = d],
           deps' = [deps EXCEPT ![d].live = TRUE,
                                ![d].status = IF @ = "running" THEN "deployed" ELSE @],
           cands' = cands
    PROVE  PlatformInv' /\ Grows /\ deps'[d].status # "running"
<1>1. PICK y : y = [deps[d] EXCEPT !.live = TRUE,
                                   !.status = IF @ = "running" THEN "deployed" ELSE @]
  OBVIOUS
<1>2. /\ y \in AllDeployments /\ y.env = deps[d].env /\ y.cand = deps[d].cand
      /\ y.live = TRUE /\ y.status # "running"
      /\ deps[d].status # "running" => y.status = deps[d].status
  BY <1>1, DeploymentFields DEF AllDeployments
<1>3. deps' = [deps EXCEPT ![d] = y]
  BY <1>1
<1>4. QED
  BY <1>2, <1>3, DeploymentChanged

-----------------------------------------------------------------------------
(* What ship.json and the commands rely on outlives any step.               *)

LEMMA ShipStays ==
    ASSUME PlatformInv, Grows, NEW ch, NEW s, ShipOK(s, ch)
    PROVE  ShipOK(s, ch)'
<1>1. s.cand # 0 => cands'[s.cand] = ch
  BY DEF Grows, ShipOK
<1>2. s.prod # 0 => s.prod \in DOMAIN deps /\ s.prod \in 1..Len(deps)
  BY DEF Grows, ShipOK
<1>3. s.status = "completed" =>
        /\ deps'[s.prod].env = Prod
        /\ deps'[s.prod].status = "succeeded"
        /\ cands'[deps'[s.prod].cand] = ch
  BY <1>2, DeploymentFields DEF Grows, DeploymentGrows, ShipOK
<1>4. /\ s.cand \in 0..Len(cands') /\ s.pre \in 0..Len(deps') /\ s.prod \in 0..Len(deps')
  BY DEF Grows, ShipOK
<1>5. QED
  BY <1>1, <1>3, <1>4 DEF ShipOK

LEMMA AcceptedStays ==
    ASSUME PlatformInv, Grows, NEW d, NEW k, AcceptedFor(d, k)
    PROVE  AcceptedFor(d, k)'
  BY DEF AcceptedFor, Grows, DeploymentGrows

LEMMA CommandStays ==
    ASSUME PlatformInv, Grows, CandidateKept, NEW x, CommandOK(x)
    PROVE  CommandOK(x)'
<1>1. BoundsOK(x)'
  BY DEF CommandOK, BoundsOK, Grows
<1>2. OwnOK(x)'
  <2>1. x.pc \in Working => x.dep \in 1..Len(deps)
    BY DEF CommandOK, BoundsOK, Grows
  <2>2. x.pc \in OwnDeployment \cup NotRunning \cup {"completed"} => x.pc \in Working
    BY DEF OwnDeployment, NotRunning, Working
  <2>3. x.pc \in Working => DeploymentGrows(x.dep)
    BY <2>1 DEF Grows
  <2>4. QED
    BY <2>2, <2>3 DEF CommandOK, OwnOK, DeploymentGrows
<1>3. Shipping(x) => ShippingOK(x)'
  <2> SUFFICES ASSUME Shipping(x) PROVE ShippingOK(x)'
    OBVIOUS
  <2>1. ShippingOK(x) /\ BoundsOK(x)
    BY DEF CommandOK
  <2>2. x.cand # 0 => cands'[x.cand] = x.change
    BY <2>1 DEF ShippingOK, BoundsOK, Grows
  <2>3. QED
    BY <2>1, <2>2, AcceptedStays DEF ShippingOK, CandidateKept
<1>4. QED
  BY <1>1, <1>2, <1>3 DEF CommandOK, Shipping

LEMMA NextShips ==
    ASSUME PlatformInv, Grows, ShipInv, NEW ch \in Changes, NEW s, ShipOK(s, ch)',
           ship' = [ship EXCEPT ![ch] = s], ship[ch].cand # 0 => s.cand # 0
    PROVE  ShipInv' /\ CandidateKept
<1>1. s \in AllShips
  BY DEF ShipOK
<1>2. ship' \in [Changes -> AllShips] /\ ship'[ch] = s
  BY <1>1 DEF ShipInv
<1>3. ASSUME NEW other \in Changes \ {ch} PROVE ship'[other] = ship[other]
  BY DEF ShipInv
<1>4. ASSUME NEW other \in Changes PROVE ShipOK(ship[other], other)'
  <2>1. CASE other = ch
    BY <1>2, <2>1
  <2>2. CASE other # ch
    <3>1. PICK t : t = ship[other]
      OBVIOUS
    <3>2. ShipOK(t, other) /\ ship'[other] = t
      BY <1>3, <2>2, <3>1 DEF ShipInv
    <3>3. ShipOK(t, other)'
      BY <3>2, ShipStays
    <3>4. QED
      BY <3>2, <3>3 DEF ShipOK
  <2>3. QED
    BY <2>1, <2>2
<1>5. CandidateKept
  BY <1>2, <1>3 DEF CandidateKept
<1>6. QED
  BY <1>2, <1>4, <1>5 DEF ShipInv, ShipOK

LEMMA SameShips ==
    ASSUME PlatformInv, Grows, ShipInv, ship' = ship
    PROVE  ShipInv' /\ CandidateKept
<1>1. ASSUME NEW ch \in Changes PROVE ShipOK(ship[ch], ch)'
  <2>1. PICK t : t = ship[ch]
    OBVIOUS
  <2>2. ShipOK(t, ch)
    BY <2>1 DEF ShipInv
  <2>3. ShipOK(t, ch)'
    BY <2>2, ShipStays
  <2>4. QED
    BY <2>1, <2>3 DEF ShipOK
<1>2. QED
  BY <1>1 DEF ShipInv, ShipOK, CandidateKept

LEMMA SameCommands ==
    ASSUME PlatformInv, Grows, CandidateKept, CommandInv, cmd' = cmd
    PROVE  CommandInv'
<1>1. ASSUME NEW c \in Commands PROVE CommandOK(cmd[c])'
  <2>1. PICK t : t = cmd[c]
    OBVIOUS
  <2>2. CommandOK(t)
    BY <2>1 DEF CommandInv
  <2>3. CommandOK(t)'
    BY <2>2, CommandStays
  <2>4. t = cmd'[c]
    BY <2>1
  <2>5. QED
    BY <2>3, <2>4 DEF CommandOK, BoundsOK, OwnOK, Shipping, ShippingOK, AcceptedFor
<1>2. QED
  BY <1>1 DEF CommandInv, PhasesOK, Shipping

(* A step of command c.                                                     *)
LEMMA NextCommands ==
    ASSUME PlatformInv, Grows, CandidateKept, CommandInv, NEW c \in Commands,
           NEW y, CommandOK(y)', PhasesOK(y), cmd' = [cmd EXCEPT ![c] = y]
    PROVE  CommandInv'
<1>1. y \in AllCommands
  BY DEF CommandOK, BoundsOK
<1>2. cmd' \in [Commands -> AllCommands] /\ cmd'[c] = y
  BY <1>1 DEF CommandInv
<1>3. ASSUME NEW o \in Commands PROVE CommandOK(cmd[o])' /\ PhasesOK(cmd[o])'
  <2>1. CASE o = c
    BY <1>2, <2>1 DEF CommandOK, BoundsOK, OwnOK, Shipping, ShippingOK, AcceptedFor, PhasesOK
  <2>2. CASE o # c
    <3>1. PICK t : t = cmd[o]
      OBVIOUS
    <3>2. CommandOK(t) /\ PhasesOK(t)
      BY <3>1 DEF CommandInv
    <3>3. CommandOK(t)'
      BY <3>2, CommandStays
    <3>4. t = cmd'[o]
      BY <2>2, <3>1 DEF CommandInv
    <3>5. QED
      BY <3>2, <3>3, <3>4
         DEF CommandOK, BoundsOK, OwnOK, Shipping, ShippingOK, AcceptedFor, PhasesOK
  <2>3. QED
    BY <2>1, <2>2
<1>4. QED
  BY <1>2, <1>3 DEF CommandInv

-----------------------------------------------------------------------------
(* Kinds of steps.                                                          *)

Safe == PlatformInv /\ ShipInv /\ CommandInv

LEMMA CommandFacts ==
    ASSUME Safe, NEW c \in Commands
    PROVE  /\ PlatformInv /\ ShipInv /\ CommandInv
           /\ CommandOK(cmd[c]) /\ PhasesOK(cmd[c]) /\ BoundsOK(cmd[c])
           /\ cmd[c] \in AllCommands
  BY DEF Safe, CommandInv, CommandOK, BoundsOK

(* Steps that leave ship.json alone.                                        *)
LEMMA PlatformStep ==
    ASSUME Safe, PlatformInv', Grows, ship' = ship, NEW c \in Commands,
           NEW y, CommandOK(y) \/ CommandOK(y)', PhasesOK(y), Become(c, y)
    PROVE  Safe'
<1>1. ShipInv' /\ CandidateKept
  BY SameShips DEF Safe
<1>2. CommandOK(y)'
  BY <1>1, CommandStays DEF Safe
<1>3. CommandInv'
  BY <1>1, <1>2, NextCommands DEF Safe, Become
<1>4. QED
  BY <1>1, <1>3 DEF Safe

LEMMA LocalStep ==
    ASSUME Safe, UNCHANGED <<cands, deps, head, ship>>, NEW c \in Commands,
           NEW y, CommandOK(y), PhasesOK(y), Become(c, y)
    PROVE  Safe'
<1>1. PlatformInv' /\ Grows
  BY PlatformUnchanged DEF Safe
<1>2. QED
  BY <1>1, PlatformStep

(* Steps of the platform for commands that leave no trace in cmd.           *)
LEMMA PlatformOnlyStep ==
    ASSUME Safe, PlatformInv', Grows, ship' = ship, cmd' = cmd
    PROVE  Safe'
<1>1. ShipInv' /\ CandidateKept
  BY SameShips DEF Safe
<1>2. CommandInv'
  BY <1>1, SameCommands DEF Safe
<1>3. QED
  BY <1>1, <1>2 DEF Safe

(* Steps that write ship.json.                                              *)
LEMMA MergeStep ==
    ASSUME Safe, UNCHANGED <<cands, deps, head>>, NEW c \in Commands, NEW ch \in Changes,
           NEW s, ShipOK(s, ch), s.cand # 0, ship' = [ship EXCEPT ![ch] = s],
           NEW y, CommandOK(y) \/ CommandOK(y)', PhasesOK(y), Become(c, y)
    PROVE  Safe'
<1>1. PlatformInv' /\ Grows
  BY PlatformUnchanged DEF Safe
<1>2. ShipOK(s, ch)'
  BY <1>1, ShipStays DEF Safe
<1>3. ShipInv' /\ CandidateKept
  BY <1>1, <1>2, NextShips DEF Safe
<1>4. CommandOK(y)'
  BY <1>1, <1>3, CommandStays DEF Safe
<1>5. CommandInv'
  BY <1>1, <1>3, <1>4, NextCommands DEF Safe, Become
<1>6. QED
  BY <1>1, <1>3, <1>5 DEF Safe

-----------------------------------------------------------------------------
(* What becomes of a command.                                               *)

LEMMA IdleOK ==
    ASSUME PlatformInv
    PROVE  CommandOK(Idle) /\ PhasesOK(Idle)
<1>1. Len(cands) \in Nat /\ Len(deps) \in Nat
  BY DEF PlatformInv
<1>2. Idle \in AllCommands
  BY DEF Idle, AllCommands, PCs, Ops, Envs
<1>3. BoundsOK(Idle)
  BY <1>1, <1>2 DEF BoundsOK, Idle, Working
<1>4. QED
  BY <1>3 DEF Idle, CommandOK, OwnOK, Shipping, PhasesOK, OwnDeployment, Working, NotRunning

(* A command that only goes on to another state.                            *)
LEMMA MovedFields ==
    ASSUME NEW x \in AllCommands, NEW pc \in PCs, NEW y, y = [x EXCEPT !.pc = pc]
    PROVE  /\ y \in AllCommands /\ y.pc = pc
           /\ y.op = x.op /\ y.change = x.change /\ y.env = x.env
           /\ y.cand = x.cand /\ y.pre = x.pre /\ y.dep = x.dep /\ y.cur = x.cur
           /\ Shipping(y) = Shipping(x)
  BY DEF AllCommands, Shipping

LEMMA ThrownOK ==
    ASSUME PlatformInv, NEW x, CommandOK(x), PhasesOK(x),
           x.pc \in {"seal", "inspect", "create", "resolve", "history", "reconcile", "complete"}
    PROVE  CommandOK(Thrown(x)) /\ PhasesOK(Thrown(x))
<1>1. x \in AllCommands /\ Len(deps) \in Nat /\ BoundsOK(x) /\ OwnOK(x)
  BY DEF CommandOK, BoundsOK, PlatformInv
<1>2. CASE Shipping(x) /\ x.pc = "create"
  <2>1. PICK y : y = [x EXCEPT !.pc = "failed", !.dep = 0]
    OBVIOUS
  <2>2. /\ y \in AllCommands /\ y.pc = "failed" /\ y.dep = 0
        /\ y.op = x.op /\ y.change = x.change /\ y.env = x.env
        /\ y.cand = x.cand /\ y.pre = x.pre /\ y.cur = x.cur
    BY <1>1, <2>1 DEF AllCommands, PCs
  <2>3. Thrown(x) = y
    BY <1>2, <2>1 DEF Thrown
  <2>4. BoundsOK(y) /\ OwnOK(y)
    BY <1>1, <1>2, <2>2 DEF BoundsOK, OwnOK, Working, OwnDeployment, NotRunning
  <2>5. Shipping(y) /\ ShippingOK(y)
    BY <1>2, <2>2 DEF CommandOK, ShippingOK, Shipping, InEither
  <2>6. QED
    BY <2>3, <2>4, <2>5 DEF CommandOK, PhasesOK
<1>3. CASE Shipping(x) /\ x.pc \in {"reconcile", "complete"} /\ x.env = Prod
  <2>1. PICK y : y = [x EXCEPT !.pc = "evidence_failed"]
    OBVIOUS
  <2>2. /\ y \in AllCommands /\ y.pc = "evidence_failed" /\ y.dep = x.dep
        /\ y.op = x.op /\ y.change = x.change /\ y.env = x.env
        /\ y.cand = x.cand /\ y.pre = x.pre /\ y.cur = x.cur
    BY <1>1, <2>1 DEF AllCommands, PCs, Working
  <2>3. Thrown(x) = y
    BY <1>3, <2>1 DEF Thrown
  <2>4. BoundsOK(y) /\ OwnOK(y)
    BY <1>1, <1>3, <2>2 DEF BoundsOK, OwnOK, Working, OwnDeployment, NotRunning
  <2>5. Shipping(y) /\ ShippingOK(y)
    BY <1>3, <2>2 DEF CommandOK, ShippingOK, Shipping, InEither
  <2>6. QED
    BY <2>3, <2>4, <2>5 DEF CommandOK, PhasesOK
<1>4. CASE \/ ~Shipping(x)
           \/ x.pc # "create" /\ ~(x.pc \in {"reconcile", "complete"} /\ x.env = Prod)
  <2>1. Thrown(x) = Idle
    BY <1>4 DEF Thrown
  <2>2. QED
    BY <2>1, IdleOK
<1>5. QED
  BY <1>2, <1>3, <1>4

LEMMA AfterDeployOK ==
    ASSUME PlatformInv, NEW x, CommandOK(x), x.pc = "activated"
    PROVE  CommandOK(AfterDeploy(x)) /\ PhasesOK(AfterDeploy(x))
<1>1. x \in AllCommands /\ BoundsOK(x) /\ OwnOK(x) /\ x.env \in Envs
  BY DEF CommandOK, BoundsOK, AllCommands
<1>2. CASE ~Shipping(x)
  BY <1>2, IdleOK DEF AfterDeploy
<1>3. CASE Shipping(x)
  <2>1. PICK pc \in {"await", "reconcile"} :
           pc = IF x.env = Pre THEN "await" ELSE "reconcile"
    OBVIOUS
  <2>2. PICK y : y = [x EXCEPT !.pc = pc]
    OBVIOUS
  <2>3. AfterDeploy(x) = y
    BY <1>1, <1>3, <2>1, <2>2 DEF AfterDeploy, Envs, Pre, Prod
  <2>4. pc \in PCs
    BY DEF PCs, Working
  <2>5. BoundsOK(y) /\ OwnOK(y)
    BY <1>1, <2>2, <2>4, MovedFields
       DEF BoundsOK, OwnOK, Working, OwnDeployment, NotRunning
  <2>6. Shipping(y) /\ ShippingOK(y)
    BY <1>1, <1>3, <2>1, <2>2, <2>4, MovedFields DEF CommandOK, ShippingOK, InEither
  <2>7. QED
    BY <2>3, <2>5, <2>6 DEF CommandOK, PhasesOK
<1>4. QED
  BY <1>2, <1>3

LEMMA AfterEvidenceOK ==
    ASSUME PlatformInv', NEW x, CommandOK(x)', x.pc \in {"reconcile", "complete"},
           deps'[x.dep].status = "succeeded"
    PROVE  CommandOK(AfterEvidence(x))' /\ PhasesOK(AfterEvidence(x))
<1>1. /\ x \in AllCommands /\ BoundsOK(x)' /\ OwnOK(x)' /\ x.env \in Envs
      /\ Len(cands') \in Nat /\ Len(deps') \in Nat /\ DOMAIN deps' = 1..Len(deps')
  BY DEF CommandOK, BoundsOK, AllCommands, PlatformInv
<1>2. CASE ~Shipping(x)
  <2>1. AfterEvidence(x) = Idle
    BY <1>2 DEF AfterEvidence
  <2>2. Idle \in AllCommands
    BY DEF Idle, AllCommands, PCs, Ops, Envs
  <2>3. BoundsOK(Idle)'
    BY <1>1, <2>2 DEF BoundsOK, Idle, Working
  <2>4. CommandOK(Idle)' /\ PhasesOK(Idle)
    BY <2>3 DEF Idle, CommandOK, OwnOK, Shipping, PhasesOK, OwnDeployment, Working, NotRunning
  <2>5. QED
    BY <2>1, <2>4 DEF CommandOK, BoundsOK, OwnOK, Shipping, ShippingOK, AcceptedFor
<1>3. CASE Shipping(x) /\ x.env = Pre
  <2>1. PICK y : y = [x EXCEPT !.pc = "confirm", !.pre = x.dep]
    OBVIOUS
  <2>2. /\ y \in AllCommands /\ y.pc = "confirm" /\ y.dep = x.dep
        /\ y.op = x.op /\ y.change = x.change /\ y.env = x.env
        /\ y.cand = x.cand /\ y.pre = x.dep /\ y.cur = x.cur
    BY <1>1, <2>1 DEF AllCommands, PCs
  <2>3. AfterEvidence(x) = y
    BY <1>3, <2>1 DEF AfterEvidence
  <2>4. BoundsOK(y)' /\ OwnOK(y)'
    BY <1>1, <2>2 DEF BoundsOK, OwnOK, Working, OwnDeployment, NotRunning
  <2>5. x.dep \in DOMAIN deps' /\ deps'[x.dep].env = Pre /\ deps'[x.dep].cand = x.cand
    BY <1>1, <1>3 DEF BoundsOK, OwnOK, Working, OwnDeployment
  <2>6. AcceptedFor(y.pre, y.cand)'
    BY <2>2, <2>5 DEF AcceptedFor, PlatformInv, DeploymentsOK
  <2>7. ShippingOK(x)'
    BY <1>3 DEF CommandOK, Shipping
  <2>8. Shipping(y) /\ ShippingOK(y)'
    BY <1>3, <2>2, <2>6, <2>7 DEF ShippingOK, Shipping
  <2>9. CommandOK(y)' /\ PhasesOK(y)
    BY <2>4, <2>8 DEF CommandOK, PhasesOK
  <2>10. QED
    BY <2>3, <2>9 DEF CommandOK, BoundsOK, OwnOK, Shipping, ShippingOK, AcceptedFor
<1>4. CASE Shipping(x) /\ x.env = Prod
  <2>1. PICK y : y = [x EXCEPT !.pc = "completed"]
    OBVIOUS
  <2>2. "completed" \in PCs /\ Prod # Pre
    BY DEF PCs, Working, Pre, Prod
  <2>3. AfterEvidence(x) = y
    BY <1>4, <2>1, <2>2 DEF AfterEvidence
  <2>4. BoundsOK(y)' /\ OwnOK(y)'
    BY <1>1, <1>4, <2>1, <2>2, MovedFields
       DEF BoundsOK, OwnOK, Working, OwnDeployment, NotRunning
  <2>5. ShippingOK(x)'
    BY <1>4 DEF CommandOK, Shipping
  <2>6. Shipping(y) /\ ShippingOK(y)'
    BY <1>1, <1>4, <2>1, <2>2, <2>5, MovedFields DEF ShippingOK, InEither
  <2>7. CommandOK(y)' /\ PhasesOK(y)
    BY <2>4, <2>6 DEF CommandOK, PhasesOK
  <2>8. QED
    BY <2>3, <2>7 DEF CommandOK, BoundsOK, OwnOK, Shipping, ShippingOK, AcceptedFor
<1>5. QED
  BY <1>1, <1>2, <1>3, <1>4 DEF Envs

-----------------------------------------------------------------------------
(* The steps of a command.                                                  *)

LEMMA BeginSafe ==
    ASSUME Safe, NEW c \in Commands, NEW x, Begin(c, x), CommandOK(x), PhasesOK(x)
    PROVE  Safe'
  BY LocalStep DEF Begin

LEMMA StopSafe ==
    ASSUME Safe, NEW c \in Commands, Stop(c), UNCHANGED <<cands, deps, head, ship>>
    PROVE  Safe'
  BY LocalStep, IdleOK DEF Stop, Safe

LEMMA ShipCommandSafe ==
    ASSUME Safe, NEW c \in Commands, NEW ch \in Changes, NEW op \in {"ship", "confirm"},
           ShipCommand(c, ch, op)
    PROVE  Safe'
<1>1. PICK x : x = [Idle EXCEPT
        !.op = op, !.change = ch, !.cand = ship[ch].cand, !.pre = ship[ch].pre,
        !.pc = IF op = "confirm" /\ ship[ch].pre # 0 THEN "resolve"
               ELSE IF ship[ch].cand = 0 THEN "seal" ELSE "inspect"]
  OBVIOUS
<1>2. ShipOK(ship[ch], ch) /\ ship[ch] \in AllShips /\ PlatformInv
  BY DEF Safe, ShipInv, ShipOK
<1>3. ship[ch].cand \in Nat /\ ship[ch].pre \in Nat
  BY <1>2 DEF AllShips
<1>4. /\ x.op = op /\ x.change = ch /\ x.cand = ship[ch].cand /\ x.pre = ship[ch].pre
      /\ x.pc = IF op = "confirm" /\ ship[ch].pre # 0 THEN "resolve"
                ELSE IF ship[ch].cand = 0 THEN "seal" ELSE "inspect"
      /\ x.env = Pre /\ x.dep = 0 /\ x.cur = 0
  BY <1>1 DEF Idle
<1>5. x \in AllCommands
  BY <1>1, <1>3 DEF Idle, AllCommands, PCs, Ops, Envs
<1>6. BoundsOK(x)
  BY <1>2, <1>4, <1>5 DEF BoundsOK, ShipOK, PlatformInv, Working
<1>7. OwnOK(x)
  BY <1>4 DEF OwnOK, OwnDeployment, NotRunning, Working
<1>8. Shipping(x) /\ ShippingOK(x)
  BY <1>2, <1>4 DEF Shipping, ShippingOK, ShipOK, Pre, Prod
<1>9. CommandOK(x) /\ PhasesOK(x)
  BY <1>6, <1>7, <1>8 DEF CommandOK, PhasesOK
<1>10. QED
  BY <1>1, <1>9, BeginSafe DEF ShipCommand

LEMMA DeployCommandSafe ==
    ASSUME Safe, NEW c \in Commands, NEW k \in DOMAIN cands, NEW e \in Envs,
           DeployCommand(c, k, e)
    PROVE  Safe'
<1>1. PICK x : x = [Idle EXCEPT !.op = "deploy", !.env = e, !.cand = k, !.pc = "create"]
  OBVIOUS
<1>2. k \in 1..Len(cands) /\ k \in Nat /\ Len(cands) \in Nat /\ Len(deps) \in Nat
  BY DEF Safe, PlatformInv
<1>3. /\ x.op = "deploy" /\ x.env = e /\ x.cand = k /\ x.pc = "create"
      /\ x.pre = 0 /\ x.dep = 0 /\ x.cur = 0
      /\ x \in AllCommands
  BY <1>1, <1>2 DEF Idle, AllCommands, PCs, Ops
<1>4. CommandOK(x) /\ PhasesOK(x)
  BY <1>2, <1>3
     DEF CommandOK, BoundsOK, OwnOK, Shipping, PhasesOK, OwnDeployment, NotRunning, Working
<1>5. QED
  BY <1>1, <1>4, BeginSafe DEF DeployCommand

LEMMA TestCommandSafe ==
    ASSUME Safe, NEW c \in Commands, NEW d \in DOMAIN deps, TestCommand(c, d)
    PROVE  Safe'
<1>1. PICK x : x = [Idle EXCEPT !.op = "test", !.env = deps[d].env,
                                !.cand = deps[d].cand, !.dep = d, !.pc = "reconcile"]
  OBVIOUS
<1>2. /\ d \in 1..Len(deps) /\ d \in Nat /\ d # 0 /\ deps[d].env \in Envs
      /\ deps[d].cand \in 1..Len(cands) /\ deps[d].cand \in Nat
      /\ Len(cands) \in Nat /\ Len(deps) \in Nat
  BY DeploymentFields DEF Safe, PlatformInv, AllDeployments
<1>3. /\ x.op = "test" /\ x.env = deps[d].env /\ x.cand = deps[d].cand /\ x.pc = "reconcile"
      /\ x.pre = 0 /\ x.dep = d /\ x.cur = 0
      /\ x \in AllCommands
  BY <1>1, <1>2 DEF Idle, AllCommands, PCs, Ops, Working
<1>4. deps[d].status # "running"
  BY DEF TestCommand
<1>5. CommandOK(x) /\ PhasesOK(x)
  BY <1>2, <1>3, <1>4
     DEF CommandOK, BoundsOK, OwnOK, Shipping, PhasesOK, OwnDeployment, NotRunning, Working
<1>6. QED
  BY <1>1, <1>5, BeginSafe DEF TestCommand

LEMMA SealSafe ==
    ASSUME Safe, NEW c \in Commands, Seal(c)
    PROVE  Safe'
<1>1. PICK x : x = cmd[c]
  OBVIOUS
<1>2. x \in AllCommands /\ CommandOK(x) /\ Shipping(x) /\ x.pc = "seal" /\ x.change \in Changes
  BY <1>1, CommandFacts DEF Seal, At, PhasesOK, PCs, CommandOK, ShippingOK
<1>3. PICK n : n = Len(cands) + 1
  OBVIOUS
<1>4. PICK y : y = [x EXCEPT !.cand = n, !.pc = "sealed"]
  OBVIOUS
<1>5. PlatformInv' /\ Grows
  BY <1>1, <1>2, CandidateAdded DEF Seal, Safe
<1>6. n \in Nat /\ n # 0 /\ n \in 0..Len(cands') /\ cands'[n] = x.change
  BY <1>1, <1>2, <1>3 DEF Seal, Safe, PlatformInv
<1>7. /\ y \in AllCommands /\ y.pc = "sealed" /\ y.dep = x.dep
      /\ y.op = x.op /\ y.change = x.change /\ y.env = x.env
      /\ y.cand = n /\ y.pre = x.pre /\ y.cur = x.cur
  BY <1>2, <1>4, <1>6 DEF AllCommands, PCs
<1>8. BoundsOK(y)'
  BY <1>2, <1>5, <1>6, <1>7 DEF CommandOK, BoundsOK, Grows, Working
<1>9. OwnOK(y)'
  BY <1>7 DEF OwnOK, OwnDeployment, NotRunning, Working
<1>10. Shipping(y) /\ ShippingOK(y)'
  BY <1>2, <1>6, <1>7 DEF Shipping, CommandOK, ShippingOK, InEither, Pre, Prod
<1>11. CommandOK(y)' /\ PhasesOK(y)
  BY <1>8, <1>9, <1>10 DEF CommandOK, PhasesOK
<1>12. Become(c, y) /\ ship' = ship
  BY <1>1, <1>3, <1>4 DEF Seal, Become
<1>13. QED
  BY <1>5, <1>11, <1>12, PlatformStep

LEMMA RecordCandidateSafe ==
    ASSUME Safe, NEW c \in Commands, RecordCandidate(c)
    PROVE  Safe'
<1>1. PICK x : x = cmd[c]
  OBVIOUS
<1>2. /\ x \in AllCommands /\ CommandOK(x) /\ Shipping(x) /\ x.pc = "sealed"
      /\ BoundsOK(x) /\ ShippingOK(x) /\ x.change \in Changes
  BY <1>1, CommandFacts DEF RecordCandidate, At, PhasesOK, PCs, CommandOK, ShippingOK
<1>3. ship[x.change] \in AllShips /\ ShipOK(ship[x.change], x.change)
  BY <1>2 DEF Safe, ShipInv
<1>4. PICK s : s = [f \in DOMAIN NoShip |->
                      IF f \in DOMAIN [status |-> "candidate_created", cand |-> x.cand]
                      THEN [status |-> "candidate_created", cand |-> x.cand][f]
                      ELSE ship[x.change][f]]
  OBVIOUS
<1>5. /\ s \in AllShips /\ s.status = "candidate_created" /\ s.cand = x.cand
      /\ s.pre = ship[x.change].pre /\ s.prod = ship[x.change].prod
  BY <1>2, <1>3, <1>4 DEF NoShip, AllShips, AllCommands, ShipStatuses
<1>6. ShipOK(s, x.change) /\ s.cand # 0
  BY <1>2, <1>3, <1>5 DEF ShipOK, ShippingOK, BoundsOK
<1>7. ship' = [ship EXCEPT ![x.change] = s]
  BY <1>1, <1>4 DEF RecordCandidate, Merge
<1>8. PICK y : y = [x EXCEPT !.pc = "inspect"]
  OBVIOUS
<1>9. "inspect" \in PCs
  BY DEF PCs
<1>10. BoundsOK(y)' /\ OwnOK(y)' /\ Shipping(y)
  BY <1>2, <1>8, <1>9, MovedFields
     DEF RecordCandidate, BoundsOK, OwnOK, OwnDeployment, NotRunning, Working
<1>11. ship'[x.change].cand # 0
  BY <1>2, <1>6, <1>7 DEF Safe, ShipInv
<1>12. ShippingOK(y)'
  BY <1>2, <1>8, <1>9, <1>11, MovedFields DEF RecordCandidate, ShippingOK, InEither, Pre, Prod
<1>13. CommandOK(y)' /\ PhasesOK(y) /\ Become(c, y)
  BY <1>1, <1>8, <1>10, <1>12 DEF CommandOK, PhasesOK, RecordCandidate, Goto, Become
<1>14. QED
  BY <1>2, <1>6, <1>7, <1>13, MergeStep DEF RecordCandidate

LEMMA RecordAwaitingSafe ==
    ASSUME Safe, NEW c \in Commands, RecordAwaiting(c)
    PROVE  Safe'
<1>1. PICK x : x = cmd[c]
  OBVIOUS
<1>2. /\ x \in AllCommands /\ CommandOK(x) /\ Shipping(x) /\ x.pc = "await"
      /\ BoundsOK(x) /\ ShippingOK(x) /\ x.change \in Changes
  BY <1>1, CommandFacts DEF RecordAwaiting, At, PhasesOK, PCs, CommandOK, ShippingOK, Working
<1>3. ship[x.change] \in AllShips /\ ShipOK(ship[x.change], x.change)
  BY <1>2 DEF Safe, ShipInv
<1>4. PICK s : s = [f \in DOMAIN NoShip |->
          IF f \in DOMAIN [status |-> "awaiting_production_confirmation",
                          cand |-> x.cand, pre |-> x.dep]
          THEN [status |-> "awaiting_production_confirmation",
                cand |-> x.cand, pre |-> x.dep][f]
          ELSE ship[x.change][f]]
  OBVIOUS
<1>5. /\ s \in AllShips /\ s.status = "awaiting_production_confirmation"
      /\ s.cand = x.cand /\ s.pre = x.dep /\ s.prod = ship[x.change].prod
  BY <1>2, <1>3, <1>4 DEF NoShip, AllShips, AllCommands, ShipStatuses
<1>6. ShipOK(s, x.change) /\ s.cand # 0
  BY <1>2, <1>3, <1>5 DEF ShipOK, ShippingOK, BoundsOK
<1>7. ship' = [ship EXCEPT ![x.change] = s]
  BY <1>1, <1>4 DEF RecordAwaiting, Merge
<1>8. CASE Stop(c)
  BY <1>2, <1>6, <1>7, <1>8, IdleOK, MergeStep DEF RecordAwaiting, Stop, Safe
<1>9. CASE Goto(c, "reread")
  <2>1. PICK y : y = [x EXCEPT !.pc = "reread"]
    OBVIOUS
  <2>2. "reread" \in PCs
    BY DEF PCs
  <2>3. BoundsOK(y) /\ OwnOK(y) /\ Shipping(y)
    BY <1>2, <2>1, <2>2, MovedFields DEF BoundsOK, OwnOK, OwnDeployment, NotRunning, Working
  <2>4. ShippingOK(y)
    BY <1>2, <2>1, <2>2, MovedFields DEF ShippingOK, InEither, Pre, Prod
  <2>5. CommandOK(y) /\ PhasesOK(y) /\ Become(c, y)
    BY <1>1, <1>9, <2>1, <2>3, <2>4 DEF CommandOK, PhasesOK, Goto, Become
  <2>6. QED
    BY <1>2, <1>6, <1>7, <2>5, MergeStep DEF RecordAwaiting
<1>10. QED
  BY <1>8, <1>9 DEF RecordAwaiting

LEMMA RecordFailureSafe ==
    ASSUME Safe, NEW c \in Commands, RecordFailure(c)
    PROVE  Safe'
<1>1. PICK x : x = cmd[c]
  OBVIOUS
<1>2. /\ x \in AllCommands /\ CommandOK(x) /\ Shipping(x) /\ x.pc = "failed"
      /\ BoundsOK(x) /\ ShippingOK(x) /\ x.change \in Changes
  BY <1>1, CommandFacts DEF RecordFailure, At, PhasesOK, PCs, CommandOK, ShippingOK
<1>3. ship[x.change] \in AllShips /\ ShipOK(ship[x.change], x.change)
  BY <1>2 DEF Safe, ShipInv
<1>4. PICK s : s = [f \in DOMAIN NoShip |->
          IF f \in DOMAIN [status |-> "preproduction_failed", cand |-> x.cand, pre |-> x.dep]
          THEN [status |-> "preproduction_failed", cand |-> x.cand, pre |-> x.dep][f]
          ELSE ship[x.change][f]]
  OBVIOUS
<1>5. /\ s \in AllShips /\ s.status = "preproduction_failed"
      /\ s.cand = x.cand /\ s.pre = x.dep /\ s.prod = ship[x.change].prod
  BY <1>2, <1>3, <1>4 DEF NoShip, AllShips, AllCommands, ShipStatuses
<1>6. ShipOK(s, x.change) /\ s.cand # 0
  BY <1>2, <1>3, <1>5 DEF ShipOK, ShippingOK, BoundsOK
<1>7. ship' = [ship EXCEPT ![x.change] = s]
  BY <1>1, <1>4 DEF RecordFailure, Merge
<1>8. QED
  BY <1>2, <1>6, <1>7, IdleOK, MergeStep DEF RecordFailure, Stop, Safe

(* The records of a production deployment: with its id and a status.        *)
LEMMA RecordProductionSafe ==
    ASSUME Safe, NEW c \in Commands,
           cmd[c].pc \in {"failed", "evidence_failed", "completed"},
           NEW st \in {"production_failed", "production_evidence_failed", "completed"},
           st = "completed" => At(c, "completed"),
           Merge(c, [status |-> st, prod |-> cmd[c].dep]),
           Stop(c), UNCHANGED <<cands, deps, head>>
    PROVE  Safe'
<1>1. PICK x : x = cmd[c]
  OBVIOUS
<1>2. /\ x \in AllCommands /\ CommandOK(x) /\ Shipping(x) /\ BoundsOK(x) /\ ShippingOK(x)
      /\ x.pc \in {"failed", "evidence_failed", "completed"} /\ x.change \in Changes
      /\ ship[x.change].cand # 0
  BY <1>1, CommandFacts DEF PhasesOK, PCs, CommandOK, ShippingOK, Working
<1>3. ship[x.change] \in AllShips /\ ShipOK(ship[x.change], x.change)
  BY <1>2 DEF Safe, ShipInv
<1>4. PICK s : s = [f \in DOMAIN NoShip |->
          IF f \in DOMAIN [status |-> st, prod |-> x.dep]
          THEN [status |-> st, prod |-> x.dep][f] ELSE ship[x.change][f]]
  OBVIOUS
<1>5. /\ s \in AllShips /\ s.status = st
      /\ s.cand = ship[x.change].cand /\ s.pre = ship[x.change].pre /\ s.prod = x.dep
  BY <1>2, <1>3, <1>4 DEF NoShip, AllShips, AllCommands, ShipStatuses
<1>6. st = "completed" =>
        /\ x.dep # 0
        /\ deps[x.dep].env = Prod /\ deps[x.dep].status = "succeeded"
        /\ cands[deps[x.dep].cand] = x.change
  BY <1>1, <1>2 DEF At, CommandOK, OwnOK, OwnDeployment, Working, BoundsOK, ShippingOK
<1>7. ShipOK(s, x.change) /\ s.cand # 0
  BY <1>2, <1>3, <1>5, <1>6 DEF ShipOK, BoundsOK
<1>8. ship' = [ship EXCEPT ![x.change] = s]
  BY <1>1, <1>4 DEF Merge
<1>9. QED
  BY <1>2, <1>7, <1>8, IdleOK, MergeStep DEF Stop, Safe

LEMMA RecordRecoveredSafe ==
    ASSUME Safe, NEW c \in Commands, RecordRecovered(c)
    PROVE  Safe'
<1>1. PICK x : x = cmd[c]
  OBVIOUS
<1>2. /\ x \in AllCommands /\ CommandOK(x) /\ Shipping(x) /\ x.pc = "recovered"
      /\ BoundsOK(x) /\ OwnOK(x) /\ ShippingOK(x) /\ x.change \in Changes
      /\ ship[x.change].cand # 0
  BY <1>1, CommandFacts DEF RecordRecovered, At, PhasesOK, PCs, CommandOK, ShippingOK, Working
<1>3. ship[x.change] \in AllShips /\ ShipOK(ship[x.change], x.change)
  BY <1>2 DEF Safe, ShipInv
<1>4. PICK s : s = [f \in DOMAIN NoShip |->
          IF f \in DOMAIN [status |-> "awaiting_production_confirmation", pre |-> x.dep]
          THEN [status |-> "awaiting_production_confirmation", pre |-> x.dep][f]
          ELSE ship[x.change][f]]
  OBVIOUS
<1>5. /\ s \in AllShips /\ s.status = "awaiting_production_confirmation"
      /\ s.cand = ship[x.change].cand /\ s.pre = x.dep /\ s.prod = ship[x.change].prod
  BY <1>2, <1>3, <1>4 DEF NoShip, AllShips, AllCommands, ShipStatuses
<1>6. ShipOK(s, x.change) /\ s.cand # 0
  BY <1>2, <1>3, <1>5 DEF ShipOK, BoundsOK
<1>7. ship' = [ship EXCEPT ![x.change] = s]
  BY <1>1, <1>4 DEF RecordRecovered, Merge
<1>8. PICK y : y = [x EXCEPT !.pc = "confirm"]
  OBVIOUS
<1>9. "confirm" \in PCs
  BY DEF PCs
<1>10. BoundsOK(y) /\ OwnOK(y) /\ Shipping(y)
  BY <1>2, <1>8, <1>9, MovedFields DEF BoundsOK, OwnOK, OwnDeployment, NotRunning, Working
<1>11. ShippingOK(y)
  BY <1>2, <1>8, <1>9, MovedFields DEF ShippingOK, InEither
<1>12. CommandOK(y) /\ PhasesOK(y) /\ Become(c, y)
  BY <1>1, <1>8, <1>10, <1>11 DEF CommandOK, PhasesOK, RecordRecovered, Goto, Become
<1>13. QED
  BY <1>2, <1>6, <1>7, <1>12, MergeStep DEF RecordRecovered

LEMMA RecordConfirmedSafe ==
    ASSUME Safe, NEW c \in Commands, RecordConfirmed(c)
    PROVE  Safe'
<1>1. PICK x : x = cmd[c]
  OBVIOUS
<1>2. /\ x \in AllCommands /\ CommandOK(x) /\ Shipping(x) /\ x.pc = "confirm"
      /\ BoundsOK(x) /\ ShippingOK(x) /\ x.change \in Changes
      /\ ship[x.change].cand # 0
  BY <1>1, CommandFacts DEF RecordConfirmed, At, PhasesOK, PCs, CommandOK, ShippingOK
<1>3. ship[x.change] \in AllShips /\ ShipOK(ship[x.change], x.change)
  BY <1>2 DEF Safe, ShipInv
<1>4. PICK s : s = [f \in DOMAIN NoShip |->
          IF f \in DOMAIN [status |-> "confirmed_for_production", pre |-> x.pre]
          THEN [status |-> "confirmed_for_production", pre |-> x.pre][f]
          ELSE ship[x.change][f]]
  OBVIOUS
<1>5. /\ s \in AllShips /\ s.status = "confirmed_for_production"
      /\ s.cand = ship[x.change].cand /\ s.pre = x.pre /\ s.prod = ship[x.change].prod
  BY <1>2, <1>3, <1>4 DEF NoShip, AllShips, AllCommands, ShipStatuses
<1>6. ShipOK(s, x.change) /\ s.cand # 0
  BY <1>2, <1>3, <1>5 DEF ShipOK, BoundsOK
<1>7. ship' = [ship EXCEPT ![x.change] = s]
  BY <1>1, <1>4 DEF RecordConfirmed, Merge
<1>8. PICK y : y = [x EXCEPT !.env = Prod, !.dep = 0, !.pc = "create"]
  OBVIOUS
<1>9. /\ y \in AllCommands /\ y.pc = "create" /\ y.dep = 0
      /\ y.op = x.op /\ y.change = x.change /\ y.env = Prod
      /\ y.cand = x.cand /\ y.pre = x.pre /\ y.cur = x.cur
  BY <1>2, <1>8 DEF AllCommands, PCs, Envs
<1>10. BoundsOK(y) /\ OwnOK(y) /\ Shipping(y)
  BY <1>2, <1>9 DEF BoundsOK, OwnOK, OwnDeployment, NotRunning, Working, Shipping
<1>11. ShippingOK(y)
  BY <1>2, <1>9 DEF ShippingOK, InEither
<1>12. CommandOK(y) /\ PhasesOK(y) /\ Become(c, y)
  BY <1>1, <1>8, <1>10, <1>11 DEF CommandOK, PhasesOK, RecordConfirmed, Become
<1>13. QED
  BY <1>2, <1>6, <1>7, <1>12, MergeStep DEF RecordConfirmed

LEMMA InspectSafe ==
    ASSUME Safe, NEW c \in Commands, Inspect(c)
    PROVE  Safe'
<1>1. PICK x : x = cmd[c]
  OBVIOUS
<1>2. /\ x \in AllCommands /\ CommandOK(x) /\ Shipping(x) /\ x.pc = "inspect"
      /\ BoundsOK(x) /\ ShippingOK(x)
  BY <1>1, CommandFacts DEF Inspect, At, PhasesOK, PCs, CommandOK
<1>3. CASE x.pre # 0 /\ cmd' = [cmd EXCEPT ![c].dep = x.pre, ![c].pc = "await"]
  <2>1. PICK y : y = [x EXCEPT !.dep = x.pre, !.pc = "await"]
    OBVIOUS
  <2>2. /\ y \in AllCommands /\ y.pc = "await" /\ y.dep = x.pre
        /\ y.op = x.op /\ y.change = x.change /\ y.env = x.env
        /\ y.cand = x.cand /\ y.pre = x.pre /\ y.cur = x.cur
    BY <1>2, <2>1 DEF AllCommands, PCs, Working
  <2>3. BoundsOK(y) /\ OwnOK(y) /\ Shipping(y)
    BY <1>2, <1>3, <2>2 DEF BoundsOK, OwnOK, OwnDeployment, NotRunning, Working, Shipping
  <2>4. ShippingOK(y)
    BY <1>2, <2>2 DEF ShippingOK, InEither
  <2>5. CommandOK(y) /\ PhasesOK(y) /\ Become(c, y)
    BY <1>1, <1>3, <2>1, <2>3, <2>4 DEF CommandOK, PhasesOK, Become
  <2>6. QED
    BY <2>5, LocalStep DEF Inspect
<1>4. CASE Goto(c, "create")
  <2>1. PICK y : y = [x EXCEPT !.pc = "create"]
    OBVIOUS
  <2>2. "create" \in PCs
    BY DEF PCs
  <2>3. BoundsOK(y) /\ OwnOK(y) /\ Shipping(y)
    BY <1>2, <2>1, <2>2, MovedFields DEF BoundsOK, OwnOK, OwnDeployment, NotRunning, Working
  <2>4. ShippingOK(y)
    BY <1>2, <2>1, <2>2, MovedFields DEF ShippingOK, InEither
  <2>5. CommandOK(y) /\ PhasesOK(y) /\ Become(c, y)
    BY <1>1, <1>4, <2>1, <2>3, <2>4 DEF CommandOK, PhasesOK, Become, Goto
  <2>6. QED
    BY <2>5, LocalStep DEF Inspect
<1>5. QED
  BY <1>1, <1>3, <1>4 DEF Inspect

LEMMA RereadSafe ==
    ASSUME Safe, NEW c \in Commands, Reread(c)
    PROVE  Safe'
<1>1. PICK x : x = cmd[c]
  OBVIOUS
<1>2. /\ x \in AllCommands /\ CommandOK(x) /\ Shipping(x) /\ x.pc = "reread"
      /\ BoundsOK(x) /\ ShippingOK(x) /\ x.change \in Changes
  BY <1>1, CommandFacts DEF Reread, At, PhasesOK, PCs, CommandOK, ShippingOK
<1>3. PICK s : s = ship[x.change]
  OBVIOUS
<1>4. s \in AllShips /\ ShipOK(s, x.change)
  BY <1>2, <1>3 DEF Safe, ShipInv
<1>5. CASE s.pre = 0
  BY <1>1, <1>3, <1>5, StopSafe DEF Reread
<1>6. CASE s.pre # 0
  <2>1. PICK y : y = [x EXCEPT !.cand = s.cand, !.pre = s.pre, !.pc = "resolve"]
    OBVIOUS
  <2>2. /\ y \in AllCommands /\ y.pc = "resolve" /\ y.dep = x.dep
        /\ y.op = x.op /\ y.change = x.change /\ y.env = x.env
        /\ y.cand = s.cand /\ y.pre = s.pre /\ y.cur = x.cur
    BY <1>2, <1>4, <2>1 DEF AllCommands, AllShips, PCs
  <2>3. BoundsOK(y) /\ OwnOK(y) /\ Shipping(y)
    BY <1>2, <1>4, <1>6, <2>2
       DEF BoundsOK, OwnOK, OwnDeployment, NotRunning, Working, Shipping, ShipOK
  <2>4. ShippingOK(y)
    BY <1>2, <1>4, <2>2 DEF ShippingOK, ShipOK, InEither, Pre, Prod
  <2>5. CommandOK(y) /\ PhasesOK(y) /\ Become(c, y)
    BY <1>1, <1>3, <1>6, <2>1, <2>3, <2>4 DEF CommandOK, PhasesOK, Reread
  <2>6. QED
    BY <2>5, LocalStep DEF Reread
<1>7. QED
  BY <1>5, <1>6

LEMMA CreateSafe ==
    ASSUME Safe, NEW c \in Commands, Create(c)
    PROVE  Safe'
<1>1. PICK x : x = cmd[c]
  OBVIOUS
<1>2. /\ x \in AllCommands /\ CommandOK(x) /\ x.pc = "create" /\ BoundsOK(x)
      /\ x.env \in Envs /\ x.cand # 0 /\ PlatformInv /\ Admitted(x.env, x.cand)
  BY <1>1, CommandFacts DEF Create, At, CommandOK, BoundsOK, AllCommands
<1>3. x.cand \in DOMAIN cands
  BY <1>2 DEF BoundsOK, PlatformInv
<1>4. deps' = Append(deps, NewDeployment(x.env, x.cand)) /\ UNCHANGED <<cands, head, ship>>
  BY <1>1 DEF Create
<1>5. /\ PlatformInv' /\ Grows
      /\ Len(deps') = Len(deps) + 1
      /\ deps'[Len(deps) + 1] = NewDeployment(x.env, x.cand)
  BY <1>2, <1>3, <1>4, DeploymentAdded
<1>6. PICK n : n = Len(deps) + 1
  OBVIOUS
<1>7. PICK y : y = [x EXCEPT !.dep = n, !.pc = "publish"]
  OBVIOUS
<1>8. n \in Nat /\ n # 0 /\ Len(deps) \in Nat
  BY <1>2, <1>6 DEF PlatformInv
<1>9. /\ y \in AllCommands /\ y.pc = "publish" /\ y.dep = n
      /\ y.op = x.op /\ y.change = x.change /\ y.env = x.env
      /\ y.cand = x.cand /\ y.pre = x.pre /\ y.cur = x.cur
  BY <1>2, <1>7, <1>8 DEF AllCommands, PCs, Working
<1>10. ship' = ship /\ CommandOK(x)'
  <2>1. CandidateKept
    BY <1>4 DEF CandidateKept
  <2>2. QED
    BY <1>2, <1>4, <1>5, <2>1, CommandStays
<1>11. BoundsOK(y)'
  BY <1>2, <1>5, <1>6, <1>8, <1>9, <1>10 DEF CommandOK, BoundsOK, Working
<1>12. OwnOK(y)'
  BY <1>5, <1>6, <1>9 DEF OwnOK, OwnDeployment, NotRunning, Working, NewDeployment
<1>13. Shipping(y) => ShippingOK(y)'
  BY <1>2, <1>9, <1>10 DEF CommandOK, Shipping, ShippingOK, InEither
<1>14. CommandOK(y)' /\ PhasesOK(y) /\ Become(c, y)
  BY <1>1, <1>6, <1>7, <1>9, <1>11, <1>12, <1>13 DEF CommandOK, Shipping, PhasesOK, Create, Become
<1>15. QED
  BY <1>5, <1>10, <1>14, PlatformStep

(* The command throws, and the platform has changed before or not.          *)
LEMMA ThrownStep ==
    ASSUME Safe, PlatformInv', Grows, ship' = ship, NEW c \in Commands,
           cmd[c].pc \in {"seal", "inspect", "create", "resolve", "history",
                          "reconcile", "complete"},
           Become(c, Thrown(cmd[c]))
    PROVE  Safe'
<1>1. PICK y : y = Thrown(cmd[c])
  OBVIOUS
<1>2. CommandOK(y) /\ PhasesOK(y)
  BY <1>1, CommandFacts, ThrownOK
<1>3. Become(c, y)
  BY <1>1 DEF Become
<1>4. QED
  BY <1>2, <1>3, PlatformStep

LEMMA CreateRefusedSafe ==
    ASSUME Safe, NEW c \in Commands, CreateRefused(c)
    PROVE  Safe'
<1>1. PlatformInv' /\ Grows
  BY PlatformUnchanged DEF Safe, CreateRefused
<1>2. QED
  BY <1>1, ThrownStep DEF CreateRefused, At

LEMMA ActivateSafe ==
    ASSUME Safe, NEW c \in Commands, Activate(c)
    PROVE  Safe'
<1>1. PICK x : x = cmd[c]
  OBVIOUS
<1>2. /\ x \in AllCommands /\ CommandOK(x) /\ x.pc = "publish" /\ BoundsOK(x) /\ OwnOK(x)
      /\ PlatformInv
  BY <1>1, CommandFacts DEF Activate, At, CommandOK
<1>3. x.dep \in DOMAIN deps /\ deps[x.dep].env = x.env
  BY <1>2 DEF BoundsOK, OwnOK, OwnDeployment, Working, PlatformInv
<1>4. PlatformInv' /\ Grows /\ deps'[x.dep].status # "running"
  BY <1>1, <1>2, <1>3, ActivatedGrows DEF Activate
<1>5. PICK y : y = [x EXCEPT !.pc = "activated"]
  OBVIOUS
<1>6. "activated" \in PCs
  BY DEF PCs, Working
<1>7. ship' = ship /\ CommandOK(x)'
  <2>1. ship' = ship /\ CandidateKept
    BY DEF Activate, CandidateKept
  <2>2. QED
    BY <1>2, <1>4, <2>1, CommandStays
<1>8. BoundsOK(y)'
  BY <1>2, <1>5, <1>6, <1>7, MovedFields DEF CommandOK, BoundsOK, Working
<1>9. OwnOK(y)'
  BY <1>2, <1>4, <1>5, <1>6, <1>7, MovedFields
     DEF CommandOK, OwnOK, OwnDeployment, NotRunning, Working
<1>10. Shipping(y) => ShippingOK(y)'
  BY <1>2, <1>5, <1>6, <1>7, MovedFields DEF CommandOK, Shipping, ShippingOK, InEither
<1>11. CommandOK(y)' /\ PhasesOK(y) /\ Become(c, y)
  BY <1>1, <1>2, <1>5, <1>6, <1>8, <1>9, <1>10, MovedFields
     DEF CommandOK, Shipping, PhasesOK, Activate, Become, Goto
<1>12. QED
  BY <1>4, <1>7, <1>11, PlatformStep

LEMMA ReturnDeploymentSafe ==
    ASSUME Safe, NEW c \in Commands, ReturnDeployment(c)
    PROVE  Safe'
<1>1. CommandOK(AfterDeploy(cmd[c])) /\ PhasesOK(AfterDeploy(cmd[c]))
  BY CommandFacts, AfterDeployOK DEF ReturnDeployment, At
<1>2. QED
  BY <1>1, LocalStep DEF ReturnDeployment

LEMMA PublishFailsSafe ==
    ASSUME Safe, NEW c \in Commands, PublishFails(c)
    PROVE  Safe'
<1>1. PICK x : x = cmd[c]
  OBVIOUS
<1>2. x \in AllCommands /\ CommandOK(x) /\ x.pc \in {"publish", "activated"}
  BY <1>1, CommandFacts DEF PublishFails
<1>3. PICK y : y = [x EXCEPT !.pc = "settle"]
  OBVIOUS
<1>4. "settle" \in PCs
  BY DEF PCs, Working
<1>5. BoundsOK(y) /\ OwnOK(y)
  BY <1>2, <1>3, <1>4, MovedFields
     DEF CommandOK, BoundsOK, OwnOK, OwnDeployment, NotRunning, Working
<1>6. Shipping(y) => ShippingOK(y)
  BY <1>2, <1>3, <1>4, MovedFields DEF CommandOK, ShippingOK, InEither
<1>7. CommandOK(y) /\ PhasesOK(y) /\ Become(c, y)
  BY <1>1, <1>2, <1>3, <1>4, <1>5, <1>6, MovedFields
     DEF CommandOK, PhasesOK, PublishFails, Become, Goto
<1>8. QED
  BY <1>7, LocalStep DEF PublishFails

(* The end of a failed publication, with the request to fail it or without. *)
LEMMA SettleStep ==
    ASSUME Safe, PlatformInv', Grows, ship' = ship, NEW c \in Commands, At(c, "settle"),
           Become(c, IF Shipping(cmd[c]) THEN [cmd[c] EXCEPT !.pc = "failed"] ELSE Idle)
    PROVE  Safe'
<1>1. PICK x : x = cmd[c]
  OBVIOUS
<1>2. x \in AllCommands /\ CommandOK(x) /\ x.pc = "settle" /\ PlatformInv
  BY <1>1, CommandFacts DEF At
<1>3. CASE ~Shipping(x)
  BY <1>1, <1>2, <1>3, IdleOK, PlatformStep DEF Become
<1>4. CASE Shipping(x)
  <2>1. PICK y : y = [x EXCEPT !.pc = "failed"]
    OBVIOUS
  <2>2. "failed" \in PCs
    BY DEF PCs
  <2>3. BoundsOK(y) /\ OwnOK(y)
    BY <1>2, <2>1, <2>2, MovedFields
       DEF CommandOK, BoundsOK, OwnOK, OwnDeployment, NotRunning, Working
  <2>4. Shipping(y) /\ ShippingOK(y)
    BY <1>2, <1>4, <2>1, <2>2, MovedFields DEF CommandOK, ShippingOK, InEither
  <2>5. CommandOK(y) /\ PhasesOK(y) /\ Become(c, y)
    BY <1>1, <1>4, <2>1, <2>3, <2>4 DEF CommandOK, PhasesOK, Become
  <2>6. QED
    BY <2>5, PlatformStep
<1>5. QED
  BY <1>3, <1>4

LEMMA MarkFailedSafe ==
    ASSUME Safe, NEW c \in Commands, MarkFailed(c)
    PROVE  Safe'
<1>1. cmd[c].dep \in DOMAIN deps
  BY CommandFacts DEF MarkFailed, At, BoundsOK, Working, PlatformInv
<1>2. PlatformInv' /\ Grows
  BY <1>1, FailedGrows DEF Safe, MarkFailed
<1>3. QED
  BY <1>2, SettleStep DEF MarkFailed

LEMMA ReadHeadSafe ==
    ASSUME Safe, NEW c \in Commands, ReadHead(c)
    PROVE  Safe'
<1>1. PICK x : x = cmd[c]
  OBVIOUS
<1>2. /\ x \in AllCommands /\ CommandOK(x) /\ Shipping(x) /\ x.pc = "resolve"
      /\ BoundsOK(x) /\ ShippingOK(x) /\ PlatformInv
  BY <1>1, CommandFacts DEF ReadHead, At, PhasesOK, PCs, CommandOK
<1>3. CASE head[Pre] = 0
  BY <1>3, StopSafe DEF ReadHead
<1>4. CASE head[Pre] # 0
  <2>1. PICK d : d = head[Pre]
    OBVIOUS
  <2>2. d \in Nat /\ d # 0 /\ d \in 0..Len(deps)
    BY <1>2, <1>4, <2>1 DEF PlatformInv, HeadsOK, Envs
  <2>3. PICK y : y = [x EXCEPT !.cur = d, !.pc = "original"]
    OBVIOUS
  <2>4. /\ y \in AllCommands /\ y.pc = "original" /\ y.dep = x.dep
        /\ y.op = x.op /\ y.change = x.change /\ y.env = x.env
        /\ y.cand = x.cand /\ y.pre = x.pre /\ y.cur = d
    BY <1>2, <2>2, <2>3 DEF AllCommands, PCs
  <2>5. BoundsOK(y) /\ OwnOK(y) /\ Shipping(y)
    BY <1>2, <2>2, <2>4 DEF BoundsOK, OwnOK, OwnDeployment, NotRunning, Working, Shipping
  <2>6. ShippingOK(y)
    BY <1>2, <2>4 DEF ShippingOK, InEither, Pre, Prod
  <2>7. CommandOK(y) /\ PhasesOK(y) /\ Become(c, y)
    BY <1>1, <1>4, <2>1, <2>3, <2>5, <2>6 DEF CommandOK, PhasesOK, Become, ReadHead
  <2>8. QED
    BY <2>7, LocalStep DEF ReadHead
<1>5. QED
  BY <1>3, <1>4

(* A deployment whose identity and evidence were checked is accepted.       *)
LEMMA ProvenAccepted ==
    ASSUME NEW x, NEW d \in DOMAIN deps, Proven(x, d)
    PROVE  AcceptedFor(d, x.cand)
  BY DEF Proven, Identity, AcceptedFor

LEMMA HistoryStep ==
    ASSUME Safe, UNCHANGED <<cands, deps, head, ship>>, NEW c \in Commands, At(c, "original"),
           Become(c, [cmd[c] EXCEPT !.pc = "history"])
    PROVE  Safe'
<1>1. PICK x : x = cmd[c]
  OBVIOUS
<1>2. /\ x \in AllCommands /\ CommandOK(x) /\ Shipping(x) /\ x.pc = "original"
  BY <1>1, CommandFacts DEF At, PhasesOK, PCs
<1>3. PICK y : y = [x EXCEPT !.pc = "history"]
  OBVIOUS
<1>4. "history" \in PCs
  BY DEF PCs
<1>5. BoundsOK(y) /\ OwnOK(y)
  BY <1>2, <1>3, <1>4, MovedFields
     DEF CommandOK, BoundsOK, OwnOK, OwnDeployment, NotRunning, Working
<1>6. Shipping(y) /\ ShippingOK(y)
  BY <1>2, <1>3, <1>4, MovedFields DEF CommandOK, ShippingOK, InEither, Pre, Prod
<1>7. CommandOK(y) /\ PhasesOK(y) /\ Become(c, y)
  BY <1>1, <1>3, <1>5, <1>6 DEF CommandOK, PhasesOK, Become
<1>8. QED
  BY <1>7, LocalStep

LEMMA ReadOriginalSafe ==
    ASSUME Safe, NEW c \in Commands, ReadOriginal(c)
    PROVE  Safe'
<1>1. PICK x : x = cmd[c]
  OBVIOUS
<1>2. /\ x \in AllCommands /\ CommandOK(x) /\ Shipping(x) /\ x.pc = "original"
      /\ BoundsOK(x) /\ ShippingOK(x) /\ PlatformInv
  BY <1>1, CommandFacts DEF ReadOriginal, At, PhasesOK, PCs, CommandOK
<1>3. x.pre \in DOMAIN deps /\ x.pre \in Nat /\ x.pre # 0
  BY <1>2 DEF BoundsOK, PlatformInv
<1>4. CASE /\ Identity(x, x.pre) /\ deps[x.pre].status = "deployed"
           /\ Become(c, [x EXCEPT !.dep = x.pre, !.env = Pre, !.pc = "reconcile"])
  <2>1. PICK y : y = [x EXCEPT !.dep = x.pre, !.env = Pre, !.pc = "reconcile"]
    OBVIOUS
  <2>2. /\ y \in AllCommands /\ y.pc = "reconcile" /\ y.dep = x.pre
        /\ y.op = x.op /\ y.change = x.change /\ y.env = Pre
        /\ y.cand = x.cand /\ y.pre = x.pre /\ y.cur = x.cur
    BY <1>2, <1>3, <2>1 DEF AllCommands, PCs, Working, Envs
  <2>3. BoundsOK(y) /\ OwnOK(y) /\ Shipping(y)
    BY <1>2, <1>3, <1>4, <2>2
       DEF BoundsOK, OwnOK, OwnDeployment, NotRunning, Working, Shipping, Identity
  <2>4. ShippingOK(y)
    BY <1>2, <2>2 DEF ShippingOK, InEither, Pre, Prod
  <2>5. CommandOK(y) /\ PhasesOK(y) /\ Become(c, y)
    BY <1>4, <2>1, <2>2, <2>3, <2>4 DEF CommandOK, PhasesOK
  <2>6. QED
    BY <2>5, LocalStep DEF ReadOriginal
<1>5. CASE /\ Proven(x, x.pre)
           /\ Become(c, [x EXCEPT !.dep = x.pre, !.pc = "confirm"])
  <2>1. PICK y : y = [x EXCEPT !.dep = x.pre, !.pc = "confirm"]
    OBVIOUS
  <2>2. /\ y \in AllCommands /\ y.pc = "confirm" /\ y.dep = x.pre
        /\ y.op = x.op /\ y.change = x.change /\ y.env = x.env
        /\ y.cand = x.cand /\ y.pre = x.pre /\ y.cur = x.cur
    BY <1>2, <1>3, <2>1 DEF AllCommands, PCs
  <2>3. BoundsOK(y) /\ OwnOK(y) /\ Shipping(y)
    BY <1>2, <1>3, <2>2 DEF BoundsOK, OwnOK, OwnDeployment, NotRunning, Working, Shipping
  <2>4. ShippingOK(y)
    BY <1>2, <1>3, <1>5, <2>2, ProvenAccepted DEF ShippingOK, InEither
  <2>5. CommandOK(y) /\ PhasesOK(y) /\ Become(c, y)
    BY <1>5, <2>1, <2>3, <2>4 DEF CommandOK, PhasesOK
  <2>6. QED
    BY <2>5, LocalStep DEF ReadOriginal
<1>6. CASE Become(c, [x EXCEPT !.pc = "history"])
  BY <1>1, <1>6, HistoryStep DEF ReadOriginal
<1>7. QED
  BY <1>1, <1>4, <1>5, <1>6 DEF ReadOriginal

LEMMA FindReplacementSafe ==
    ASSUME Safe, NEW c \in Commands, FindReplacement(c)
    PROVE  Safe'
<1>1. PICK x : x = cmd[c]
  OBVIOUS
<1>2. /\ x \in AllCommands /\ CommandOK(x) /\ Shipping(x) /\ x.pc = "history"
      /\ BoundsOK(x) /\ ShippingOK(x) /\ PlatformInv
  BY <1>1, CommandFacts DEF FindReplacement, At, PhasesOK, PCs, CommandOK
<1>3. CASE Stop(c)
  BY <1>3, StopSafe DEF FindReplacement
<1>4. ASSUME NEW d \in DOMAIN deps, Proven(x, d),
             Become(c, [x EXCEPT !.dep = d, !.pre = d, !.pc = "recovered"])
      PROVE  Safe'
  <2>1. PICK y : y = [x EXCEPT !.dep = d, !.pre = d, !.pc = "recovered"]
    OBVIOUS
  <2>2. d \in 1..Len(deps) /\ d \in Nat /\ d # 0
    BY <1>2, DeploymentFields
  <2>3. /\ y \in AllCommands /\ y.pc = "recovered" /\ y.dep = d
        /\ y.op = x.op /\ y.change = x.change /\ y.env = x.env
        /\ y.cand = x.cand /\ y.pre = d /\ y.cur = x.cur
    BY <1>2, <2>1, <2>2 DEF AllCommands, PCs, Working
  <2>4. x.env = Pre /\ deps[d].env = Pre /\ deps[d].cand = x.cand
    BY <1>2, <1>4 DEF ShippingOK, InEither, Proven, Identity
  <2>5. BoundsOK(y) /\ OwnOK(y) /\ Shipping(y)
    BY <1>2, <2>2, <2>3, <2>4
       DEF BoundsOK, OwnOK, OwnDeployment, NotRunning, Working, Shipping
  <2>6. ShippingOK(y)
    BY <1>2, <1>4, <2>3, <2>4, ProvenAccepted DEF ShippingOK, InEither
  <2>7. CommandOK(y) /\ PhasesOK(y) /\ Become(c, y)
    BY <1>4, <2>1, <2>5, <2>6 DEF CommandOK, PhasesOK
  <2>8. QED
    BY <2>7, LocalStep DEF FindReplacement
<1>5. QED
  BY <1>1, <1>3, <1>4 DEF FindReplacement

(* The deployment has succeeded, by this step or before.                    *)
LEMMA EvidenceStep ==
    ASSUME Safe, PlatformInv', Grows, ship' = ship, NEW c \in Commands,
           cmd[c].pc \in {"reconcile", "complete"},
           deps'[cmd[c].dep].status = "succeeded", Become(c, AfterEvidence(cmd[c]))
    PROVE  Safe'
<1>1. PICK x : x = cmd[c]
  OBVIOUS
<1>2. CommandOK(x)'
  BY <1>1, CommandFacts, CommandStays DEF CandidateKept
<1>3. PICK y : y = AfterEvidence(x)
  OBVIOUS
<1>4. CommandOK(AfterEvidence(x))' /\ PhasesOK(AfterEvidence(x))
  BY <1>1, <1>2, AfterEvidenceOK
<1>5. CommandOK(y)' /\ PhasesOK(y) /\ Become(c, y)
  BY <1>1, <1>3, <1>4
     DEF Become, CommandOK, BoundsOK, OwnOK, Shipping, ShippingOK, AcceptedFor, PhasesOK
<1>6. QED
  BY <1>5, PlatformStep

LEMMA ReconcileSafe ==
    ASSUME Safe, NEW c \in Commands, Reconcile(c)
    PROVE  Safe'
<1>1. PICK x : x = cmd[c]
  OBVIOUS
<1>2. /\ x \in AllCommands /\ CommandOK(x) /\ x.pc = "reconcile" /\ BoundsOK(x) /\ PlatformInv
  BY <1>1, CommandFacts DEF Reconcile, At
<1>3. x.dep \in DOMAIN deps
  BY <1>2 DEF BoundsOK, Working, PlatformInv
<1>4. deps' = deps => PlatformInv' /\ Grows
  BY <1>2, PlatformUnchanged DEF Reconcile
<1>5. CASE /\ deps[x.dep].status = "succeeded" /\ Become(c, AfterEvidence(x)) /\ UNCHANGED deps
  BY <1>1, <1>2, <1>4, <1>5, EvidenceStep DEF Reconcile
<1>6. CASE Reconcilable(x.dep) /\ deps' = Reconciled(x.dep) /\ Goto(c, "complete")
  <2>1. PlatformInv' /\ Grows
    BY <1>2, <1>3, <1>6, ReconciledGrows DEF Reconcile
  <2>2. PICK y : y = [x EXCEPT !.pc = "complete"]
    OBVIOUS
  <2>3. "complete" \in PCs
    BY DEF PCs, Working
  <2>4. BoundsOK(y) /\ OwnOK(y)
    BY <1>2, <2>2, <2>3, MovedFields
       DEF CommandOK, BoundsOK, OwnOK, OwnDeployment, NotRunning, Working
  <2>5. Shipping(y) => ShippingOK(y)
    BY <1>2, <2>2, <2>3, MovedFields DEF CommandOK, ShippingOK, InEither
  <2>6. CommandOK(y) /\ PhasesOK(y) /\ Become(c, y)
    BY <1>1, <1>2, <1>6, <2>2, <2>3, <2>4, <2>5, MovedFields
       DEF CommandOK, PhasesOK, Become, Goto
  <2>7. QED
    BY <2>1, <2>6, PlatformStep DEF Reconcile
<1>7. CASE Become(c, Thrown(x)) /\ UNCHANGED deps
  BY <1>1, <1>2, <1>4, <1>7, ThrownStep DEF Reconcile
<1>8. QED
  BY <1>1, <1>5, <1>6, <1>7 DEF Reconcile

LEMMA CompleteSafe ==
    ASSUME Safe, NEW c \in Commands, Complete(c)
    PROVE  Safe'
<1>1. cmd[c].dep \in DOMAIN deps /\ cmd[c].pc = "complete" /\ PlatformInv
  BY CommandFacts DEF Complete, At, BoundsOK, Working, PlatformInv
<1>2. CASE deps[cmd[c].dep].status = "deployed"
  <2>1. PlatformInv' /\ Grows /\ deps'[cmd[c].dep].status = "succeeded"
    BY <1>1, <1>2, SucceededGrows DEF Complete
  <2>2. QED
    BY <1>1, <1>2, <2>1, EvidenceStep DEF Complete
<1>3. CASE deps[cmd[c].dep].status # "deployed"
  <2>1. PlatformInv' /\ Grows
    BY <1>1, <1>3, PlatformUnchanged DEF Complete
  <2>2. QED
    BY <1>1, <1>3, <2>1, ThrownStep DEF Complete
<1>4. QED
  BY <1>2, <1>3

-----------------------------------------------------------------------------
(* Faults and the commands that only change a deployment.                   *)

LEMMA RequestLostSafe ==
    ASSUME Safe, NEW c \in Commands, RequestLost(c)
    PROVE  Safe'
<1>1. PlatformInv' /\ Grows
  BY PlatformUnchanged DEF Safe, RequestLost
<1>2. CASE /\ cmd[c].pc \in {"seal", "inspect", "create", "resolve", "history",
                              "reconcile", "complete"}
           /\ Become(c, Thrown(cmd[c]))
  BY <1>1, <1>2, ThrownStep DEF RequestLost
<1>3. CASE cmd[c].pc = "original" /\ Goto(c, "history")
  BY <1>3, HistoryStep DEF RequestLost, At, Goto, Become
<1>4. CASE /\ cmd[c].pc = "settle"
           /\ Become(c, IF Shipping(cmd[c]) THEN [cmd[c] EXCEPT !.pc = "failed"] ELSE Idle)
  BY <1>1, <1>4, SettleStep DEF RequestLost, At
<1>5. QED
  BY <1>2, <1>3, <1>4 DEF RequestLost

LEMMA AnswerLostSafe ==
    ASSUME Safe, NEW c \in Commands, AnswerLost(c)
    PROVE  Safe'
<1>1. PICK x : x = cmd[c]
  OBVIOUS
<1>2. /\ x \in AllCommands /\ CommandOK(x) /\ BoundsOK(x) /\ PlatformInv /\ x.env \in Envs
  BY <1>1, CommandFacts DEF AllCommands
<1>3. CASE /\ x.pc = "create" /\ Admitted(x.env, x.cand)
           /\ deps' = Append(deps, NewDeployment(x.env, x.cand))
  <2>1. x.cand \in DOMAIN cands
    BY <1>2, <1>3 DEF BoundsOK, PlatformInv
  <2>2. PlatformInv' /\ Grows
    BY <1>2, <1>3, <2>1, DeploymentAdded DEF AnswerLost
  <2>3. QED
    BY <1>1, <1>3, <2>2, ThrownStep DEF AnswerLost
<1>4. CASE x.pc = "reconcile" /\ Reconcilable(x.dep) /\ deps' = Reconciled(x.dep)
  <2>1. x.dep \in DOMAIN deps
    BY <1>2, <1>4 DEF BoundsOK, Working, PlatformInv
  <2>2. PlatformInv' /\ Grows
    BY <1>2, <1>4, <2>1, ReconciledGrows DEF AnswerLost
  <2>3. QED
    BY <1>1, <1>4, <2>2, ThrownStep DEF AnswerLost
<1>5. CASE /\ x.pc = "complete" /\ deps[x.dep].status = "deployed"
           /\ deps' = [deps EXCEPT ![x.dep].status = "succeeded", ![x.dep].evidence = "fresh"]
  <2>1. x.dep \in DOMAIN deps
    BY <1>2, <1>5 DEF BoundsOK, Working, PlatformInv
  <2>2. PlatformInv' /\ Grows
    BY <1>2, <1>5, <2>1, SucceededGrows DEF AnswerLost
  <2>3. QED
    BY <1>1, <1>5, <2>2, ThrownStep DEF AnswerLost
<1>6. QED
  BY <1>1, <1>3, <1>4, <1>5 DEF AnswerLost

LEMMA DeploymentSafe ==
    ASSUME Safe, NEW d \in DOMAIN deps,
           FailCommand(d) \/ ReconcileCommand(d) \/ ExpireEvidence(d)
    PROVE  Safe'
<1>1. CASE FailCommand(d)
  BY <1>1, FailedGrows, PlatformOnlyStep DEF FailCommand, Safe
<1>2. CASE ReconcileCommand(d)
  BY <1>2, ReconciledGrows, PlatformOnlyStep DEF ReconcileCommand, Safe
<1>3. CASE ExpireEvidence(d)
  BY <1>3, ExpiredGrows, PlatformOnlyStep DEF ExpireEvidence, Safe
<1>4. QED
  BY <1>1, <1>2, <1>3

LEMMA StepSafe ==
    ASSUME Safe, NEW c \in Commands, Step(c)
    PROVE  Safe'
<1>1. CASE RecordProductionFailure(c)
  BY <1>1, RecordProductionSafe DEF RecordProductionFailure, At
<1>2. CASE RecordEvidenceFailure(c)
  BY <1>2, RecordProductionSafe DEF RecordEvidenceFailure, At
<1>3. CASE RecordCompleted(c)
  BY <1>3, RecordProductionSafe DEF RecordCompleted, At
<1>4. CASE \/ Seal(c) \/ RecordCandidate(c) \/ Inspect(c) \/ RecordAwaiting(c) \/ Reread(c)
           \/ Create(c) \/ CreateRefused(c) \/ Activate(c) \/ ReturnDeployment(c)
  BY <1>4, SealSafe, RecordCandidateSafe, InspectSafe, RecordAwaitingSafe, RereadSafe,
     CreateSafe, CreateRefusedSafe, ActivateSafe, ReturnDeploymentSafe
<1>5. CASE \/ PublishFails(c) \/ MarkFailed(c) \/ RecordFailure(c)
           \/ ReadHead(c) \/ ReadOriginal(c) \/ FindReplacement(c)
           \/ RecordRecovered(c) \/ RecordConfirmed(c) \/ Reconcile(c) \/ Complete(c)
  BY <1>5, PublishFailsSafe, MarkFailedSafe, RecordFailureSafe, ReadHeadSafe,
     ReadOriginalSafe, FindReplacementSafe, RecordRecoveredSafe, RecordConfirmedSafe,
     ReconcileSafe, CompleteSafe
<1>6. QED
  BY <1>1, <1>2, <1>3, <1>4, <1>5 DEF Step

LEMMA NextSafe ==
    ASSUME Safe, Next
    PROVE  Safe'
<1>1. ASSUME NEW c \in Commands, Step(c) \/ Crash(c) \/ RequestLost(c) \/ AnswerLost(c)
      PROVE  Safe'
  <2>1. CASE Crash(c)
    BY <2>1, StopSafe DEF Crash
  <2>2. QED
    BY <1>1, <2>1, StepSafe, RequestLostSafe, AnswerLostSafe
<1>2. ASSUME NEW c \in Commands,
             \/ \E ch \in Changes, op \in {"ship", "confirm"} : ShipCommand(c, ch, op)
             \/ \E k \in DOMAIN cands, e \in Envs : DeployCommand(c, k, e)
             \/ \E d \in DOMAIN deps : TestCommand(c, d)
      PROVE  Safe'
  BY <1>2, ShipCommandSafe, DeployCommandSafe, TestCommandSafe
<1>3. ASSUME NEW d \in DOMAIN deps, FailCommand(d) \/ ReconcileCommand(d) \/ ExpireEvidence(d)
      PROVE  Safe'
  BY <1>3, DeploymentSafe
<1>4. QED
  BY <1>1, <1>2, <1>3 DEF Next

-----------------------------------------------------------------------------
(* What follows from the invariant.                                         *)

LEMMA InitSafe == Init => Safe
<1> SUFFICES ASSUME Init PROVE Safe
  OBVIOUS
<1>1. Len(cands) = 0 /\ Len(deps) = 0 /\ DOMAIN deps = {}
  BY DEF Init
<1>2. PlatformInv
  BY <1>1 DEF Init, PlatformInv, DeploymentsOK, HeadsOK
<1>3. NoShip \in AllShips
  BY DEF NoShip, AllShips, ShipStatuses
<1>4. \A ch \in Changes : ShipOK(NoShip, ch)
  BY <1>1, <1>3 DEF ShipOK, NoShip
<1>5. ShipInv
  BY <1>3, <1>4 DEF Init, ShipInv
<1>6. CommandOK(Idle) /\ PhasesOK(Idle) /\ Idle \in AllCommands
  BY <1>2, IdleOK DEF CommandOK, BoundsOK
<1>7. CommandInv
  BY <1>6 DEF Init, CommandInv
<1>8. QED
  BY <1>2, <1>5, <1>7 DEF Safe

Counts == starts \in 0..MaxStarts /\ faults \in 0..MaxFaults

LEMMA StepCounts ==
    ASSUME NEW c \in Commands, Step(c)
    PROVE  starts' = starts /\ faults' = faults
<1>1. CASE \/ Seal(c) \/ RecordCandidate(c) \/ Inspect(c) \/ RecordAwaiting(c) \/ Reread(c)
           \/ Create(c) \/ CreateRefused(c) \/ Activate(c) \/ ReturnDeployment(c)
           \/ PublishFails(c) \/ MarkFailed(c) \/ RecordFailure(c)
  BY <1>1 DEF Seal, RecordCandidate, Inspect, RecordAwaiting, Reread, Create, CreateRefused,
              Activate, ReturnDeployment, PublishFails, MarkFailed, RecordFailure
<1>2. CASE \/ RecordProductionFailure(c)
           \/ ReadHead(c) \/ ReadOriginal(c) \/ FindReplacement(c)
           \/ RecordRecovered(c) \/ RecordConfirmed(c) \/ Reconcile(c) \/ Complete(c)
           \/ RecordEvidenceFailure(c) \/ RecordCompleted(c)
  BY <1>2 DEF RecordProductionFailure, ReadHead, ReadOriginal, FindReplacement,
              RecordRecovered, RecordConfirmed, Reconcile, Complete,
              RecordEvidenceFailure, RecordCompleted
<1>3. QED
  BY <1>1, <1>2 DEF Step

LEMMA NextCounts ==
    ASSUME Counts, Next
    PROVE  Counts'
<1>1. CASE starts' = starts /\ faults' = faults
  BY <1>1 DEF Counts
<1>2. CASE starts < MaxStarts /\ starts' = starts + 1 /\ faults' = faults
  BY <1>2, BoundsAssumption DEF Counts
<1>3. CASE Fault /\ starts' = starts
  BY <1>3, BoundsAssumption DEF Counts, Fault
<1>4. ASSUME NEW c \in Commands, Step(c) PROVE starts' = starts /\ faults' = faults
  BY <1>4, StepCounts
<1>5. ASSUME NEW c \in Commands, Crash(c) \/ RequestLost(c) \/ AnswerLost(c)
      PROVE  Fault /\ starts' = starts
  BY <1>5 DEF Crash, RequestLost, AnswerLost
<1>6. ASSUME NEW c \in Commands,
             \/ \E ch \in Changes, op \in {"ship", "confirm"} : ShipCommand(c, ch, op)
             \/ \E k \in DOMAIN cands, e \in Envs : DeployCommand(c, k, e)
             \/ \E d \in DOMAIN deps : TestCommand(c, d)
      PROVE  starts < MaxStarts /\ starts' = starts + 1 /\ faults' = faults
  BY <1>6 DEF ShipCommand, DeployCommand, TestCommand, Begin
<1>7. ASSUME NEW d \in DOMAIN deps, FailCommand(d) \/ ReconcileCommand(d)
      PROVE  starts < MaxStarts /\ starts' = starts + 1 /\ faults' = faults
  BY <1>7 DEF FailCommand, ReconcileCommand
<1>8. ASSUME NEW d \in DOMAIN deps, ExpireEvidence(d) PROVE Fault /\ starts' = starts
  BY <1>8 DEF ExpireEvidence
<1>9. QED
  BY <1>1, <1>2, <1>3, <1>4, <1>5, <1>6, <1>7, <1>8 DEF Next

LEMMA SafeInvariant == Spec => [](Safe /\ Counts)
<1>1. Init => Safe /\ Counts
  BY InitSafe, BoundsAssumption DEF Init, Counts
<1>2. Safe /\ Counts /\ [Next]_vars => Safe' /\ Counts'
  <2> SUFFICES ASSUME Safe, Counts, [Next]_vars PROVE Safe' /\ Counts'
    OBVIOUS
  <2>1. CASE Next
    BY <2>1, NextSafe, NextCounts
  <2>2. CASE UNCHANGED vars
    <3>1. /\ cands' = cands /\ deps' = deps /\ head' = head /\ ship' = ship /\ cmd' = cmd
          /\ starts' = starts /\ faults' = faults
      BY <2>2 DEF vars
    <3>2. Safe'
      BY <3>1, PlatformUnchanged, PlatformOnlyStep DEF Safe
    <3>3. QED
      BY <3>1, <3>2 DEF Counts
  <2>3. QED
    BY <2>1, <2>2
<1>3. QED
  BY <1>1, <1>2, PTL DEF Spec

LEMMA SafeTyped ==
    ASSUME Safe, Counts
    PROVE  TypeOK
<1>1. PlatformInv /\ ShipInv /\ CommandInv
  BY DEF Safe
<1>2. Len(cands) \in Nat /\ Len(deps) \in Nat /\ DOMAIN deps = 1..Len(deps)
  BY <1>1 DEF PlatformInv
<1>3. deps \in Seq(Deployment)
  <2>1. ASSUME NEW d \in DOMAIN deps PROVE deps[d] \in Deployment
    BY <1>1, DeploymentFields DEF AllDeployments, Deployment
  <2>2. QED
    BY <1>1, <1>2, <2>1 DEF PlatformInv
<1>4. head \in [Envs -> 0..Len(deps)]
  <2>1. ASSUME NEW e \in Envs PROVE head[e] \in 0..Len(deps)
    BY <1>1, <1>2 DEF PlatformInv, HeadsOK
  <2>2. QED
    BY <1>1, <2>1 DEF PlatformInv
<1>5. ship \in [Changes -> ShipRecord]
  <2>1. ASSUME NEW ch \in Changes PROVE ship[ch] \in ShipRecord
    BY <1>1 DEF ShipInv, ShipOK, AllShips, ShipRecord
  <2>2. QED
    BY <1>1, <2>1 DEF ShipInv
<1>6. ASSUME NEW c \in Commands
      PROVE  /\ cmd[c] \in CommandState
             /\ Shipping(cmd[c]) => cmd[c].change \in Changes
             /\ cmd[c].pc \in Working => cmd[c].dep # 0
             /\ cmd[c].pc \in {"create", "inspect", "sealed", "resolve"} => cmd[c].cand # 0
             /\ cmd[c].pc = "original" => cmd[c].pre # 0 /\ cmd[c].cur # 0
  <2>1. BoundsOK(cmd[c]) /\ (Shipping(cmd[c]) => ShippingOK(cmd[c]))
    BY CommandFacts DEF CommandOK
  <2>2. cmd[c] \in CommandState
    BY <2>1 DEF BoundsOK, AllCommands, CommandState, PCs, Ops
  <2>3. QED
    BY <2>1, <2>2 DEF BoundsOK, ShippingOK
<1>7. cmd \in [Commands -> CommandState]
  BY <1>1, <1>6 DEF CommandInv
<1>8. QED
  BY <1>1, <1>3, <1>4, <1>5, <1>6, <1>7 DEF TypeOK, PlatformInv, Counts

(* Every record has its type, and a command that works on a candidate, a    *)
(* deployment or the active release has one.                                *)
THEOREM ManagedShipTyped == Spec => []TypeOK
  BY SafeInvariant, SafeTyped, PTL

(* A command promotes a candidate only after preproduction accepted it: the *)
(* deployment that it confirmed is one of this candidate, of this change,   *)
(* that was activated and has succeeded, whatever other terminals wrote.    *)
THEOREM OnlyAcceptedPromoted == Spec => []PromotesAccepted
<1>1. Safe => PromotesAccepted
  <2> SUFFICES ASSUME Safe, NEW c \in Commands, Shipping(cmd[c]),
                      At(c, "confirm") \/ cmd[c].env = Prod
               PROVE  /\ deps[cmd[c].pre].env = Pre
                      /\ deps[cmd[c].pre].cand = cmd[c].cand
                      /\ deps[cmd[c].pre].live
                      /\ deps[cmd[c].pre].status = "succeeded"
                      /\ cands[deps[cmd[c].pre].cand] = cmd[c].change
    BY DEF PromotesAccepted
  <2>1. ShippingOK(cmd[c]) /\ PlatformInv
    BY CommandFacts DEF CommandOK
  <2>2. AcceptedFor(cmd[c].pre, cmd[c].cand)
    BY <2>1 DEF ShippingOK, At
  <2>3. cmd[c].cand \in DOMAIN cands /\ cmd[c].cand # 0
    BY <2>1, <2>2, DeploymentFields DEF AcceptedFor
  <2>4. QED
    BY <2>1, <2>2, <2>3 DEF ShippingOK, AcceptedFor
<1>2. QED
  BY <1>1, SafeInvariant, PTL

(* A change is recorded as completed only with a production deployment that *)
(* has succeeded, of a candidate of this change that had succeeded in       *)
(* preproduction before.                                                    *)
THEOREM CompletedShipped == Spec => []CompletedIsShipped
<1>1. Safe => CompletedIsShipped
  <2> SUFFICES ASSUME Safe, NEW ch \in Changes, ship[ch].status = "completed"
               PROVE  /\ deps[ship[ch].prod].env = Prod
                      /\ deps[ship[ch].prod].status = "succeeded"
                      /\ cands[deps[ship[ch].prod].cand] = ch
                      /\ AcceptedBefore(ship[ch].prod, deps[ship[ch].prod].cand)
    BY DEF CompletedIsShipped, AcceptedBefore
  <2>1. PlatformInv /\ ShipOK(ship[ch], ch)
    BY DEF Safe, ShipInv
  <2>2. ship[ch].prod \in DOMAIN deps
    BY <2>1 DEF ShipOK, PlatformInv
  <2>3. QED
    BY <2>1, <2>2 DEF ShipOK, PlatformInv, DeploymentsOK
<1>2. QED
  BY <1>1, SafeInvariant, PTL

-----------------------------------------------------------------------------
(* The slot of an environment: one deployment at a time is in flight, and   *)
(* of the commands only the one that created a deployment publishes it.     *)

InSlot == {"running", "deployed"}

(* Only commands that had a deployment to publish still have it.            *)
OwnersKept ==
    \A o \in Commands : cmd'[o].pc \in Owning =>
        /\ cmd[o].pc \in Owning
        /\ cmd'[o].dep = cmd[o].dep /\ cmd'[o].env = cmd[o].env
        /\ cmd'[o].pc = "publish" => cmd[o].pc = "publish"

LEMMA OwnersSame ==
    ASSUME cmd' = cmd
    PROVE  OwnersKept
  BY DEF OwnersKept

LEMMA OwnersLeave ==
    ASSUME CommandInv, NEW c \in Commands, NEW y, y.pc \notin Owning, Become(c, y)
    PROVE  OwnersKept /\ cmd'[c] = y
  BY DEF OwnersKept, CommandInv, Become

LEMMA OwnersMove ==
    ASSUME CommandInv, NEW c \in Commands, NEW pc, pc # "publish", Goto(c, pc),
           pc \in Owning => cmd[c].pc \in Owning
    PROVE  OwnersKept
<1>1. /\ cmd'[c].pc = pc /\ cmd'[c].dep = cmd[c].dep /\ cmd'[c].env = cmd[c].env
      /\ \A o \in Commands \ {c} : cmd'[o] = cmd[o]
  BY DEF CommandInv, AllCommands, Goto
<1>2. QED
  BY <1>1 DEF OwnersKept

LEMMA ThrownLeaves ==
    ASSUME NEW x \in AllCommands
    PROVE  Thrown(x).pc \notin Owning
  BY DEF Thrown, Idle, AllCommands, Owning

LEMMA AfterEvidenceLeaves ==
    ASSUME NEW x \in AllCommands
    PROVE  AfterEvidence(x).pc \notin Owning
  BY DEF AfterEvidence, Idle, AllCommands, Owning

LEMMA AfterDeployLeaves ==
    ASSUME NEW x \in AllCommands
    PROVE  AfterDeploy(x).pc \notin Owning
  BY DEF AfterDeploy, Idle, AllCommands, Owning

LEMMA SlotSame ==
    ASSUME Safe, SlotInv, OwnersKept, UNCHANGED <<deps, head>>
    PROVE  SlotInv'
<1>1. OneInFlight' /\ DeployedIsHead'
  BY DEF SlotInv, OneInFlight, DeployedIsHead, InFlight
<1>2. PublishRuns'
  BY DEF SlotInv, PublishRuns, OwnersKept, At, Owning
<1>3. OwnersDiffer'
  BY DEF SlotInv, OwnersDiffer, OwnersKept
<1>4. QED
  BY <1>1, <1>2, <1>3 DEF SlotInv

(* One deployment changes: it comes into the slot only if that is free, it  *)
(* is deployed in production only as the head, and while a command still    *)
(* publishes it there it runs.                                              *)
LEMMA SlotChanged ==
    ASSUME Safe, SlotInv, OwnersKept, NEW d \in DOMAIN deps, NEW y \in AllDeployments,
           deps' = [deps EXCEPT ![d] = y], y.env = deps[d].env,
           y.status \in InSlot => deps[d].status \in InSlot \/ InFlight(y.env) \subseteq {d},
           y.status = "deployed" /\ y.env = Prod => head'[Prod] = d,
           head'[Prod] = head[Prod] \/ (y.env = Prod /\ deps[d].status \in InSlot),
           \A o \in Commands :
              cmd'[o].pc = "publish" /\ cmd'[o].env = Prod /\ cmd'[o].dep = d
              => y.status = "running"
    PROVE  SlotInv'
<1>1. /\ DOMAIN deps' = DOMAIN deps /\ deps'[d] = y
      /\ \A p \in DOMAIN deps : p # d => deps'[p] = deps[p]
  BY DEF Safe, PlatformInv
<1>2. y.env \in Envs /\ Prod \in Envs
  BY DEF AllDeployments, Envs
<1>3. ASSUME NEW e \in Envs, NEW d1 \in InFlight(e)', NEW d2 \in InFlight(e)' PROVE d1 = d2
  <2>1. /\ d1 \in DOMAIN deps /\ deps'[d1].env = e /\ deps'[d1].status \in InSlot
        /\ d2 \in DOMAIN deps /\ deps'[d2].env = e /\ deps'[d2].status \in InSlot
    BY <1>1, <1>3 DEF InFlight, InSlot
  <2>2. CASE deps[d].status \in InSlot \/ y.status \notin InSlot \/ y.env # e
    <3>1. d1 \in InFlight(e) /\ d2 \in InFlight(e)
      BY <1>1, <2>1, <2>2 DEF InFlight, InSlot
    <3>2. QED
      BY <3>1 DEF SlotInv, OneInFlight
  <2>3. CASE InFlight(e) \subseteq {d}
    <3>1. \A p \in DOMAIN deps : deps'[p].env = e /\ deps'[p].status \in InSlot => p = d
      BY <1>1, <2>3 DEF InFlight, InSlot
    <3>2. QED
      BY <2>1, <3>1
  <2>4. QED
    BY <2>2, <2>3
<1>4. OneInFlight'
  BY <1>3 DEF OneInFlight
<1>5. DeployedIsHead'
  <2> SUFFICES ASSUME NEW p \in DOMAIN deps, deps'[p].env = Prod, deps'[p].status = "deployed"
               PROVE  head'[Prod] = p
    BY <1>1 DEF DeployedIsHead
  <2>1. CASE p = d
    BY <1>1, <2>1
  <2>2. CASE p # d
    <3>1. deps[p].env = Prod /\ deps[p].status = "deployed"
      BY <1>1, <2>2
    <3>2. p \in InFlight(Prod) /\ head[Prod] = p
      BY <3>1 DEF InFlight, SlotInv, DeployedIsHead
    <3>3. ~(y.env = Prod /\ deps[d].status \in InSlot)
      BY <1>2, <2>2, <3>2 DEF InFlight, InSlot, SlotInv, OneInFlight
    <3>4. QED
      BY <3>2, <3>3
  <2>3. QED
    BY <2>1, <2>2
<1>6. PublishRuns'
  <2> SUFFICES ASSUME NEW o \in Commands, cmd'[o].pc = "publish", cmd'[o].env = Prod
               PROVE  deps'[cmd'[o].dep].status = "running"
    BY DEF PublishRuns, At
  <2>1. cmd[o].pc = "publish" /\ cmd[o].env = Prod /\ cmd'[o].dep = cmd[o].dep
    BY DEF OwnersKept, Owning
  <2>2. deps[cmd[o].dep].status = "running" /\ cmd[o].dep \in DOMAIN deps
    BY <2>1, CommandFacts DEF SlotInv, PublishRuns, At, BoundsOK, Working, PlatformInv
  <2>3. QED
    BY <1>1, <2>1, <2>2
<1>7. OwnersDiffer'
  BY DEF SlotInv, OwnersDiffer, OwnersKept
<1>8. QED
  BY <1>4, <1>5, <1>6, <1>7 DEF SlotInv

(* A deployment is created in a free slot, and its id is new.               *)
LEMMA SlotCreated ==
    ASSUME Safe, SlotInv, NEW e \in Envs, NEW k \in DOMAIN cands, Admitted(e, k),
           deps' = Append(deps, NewDeployment(e, k)), UNCHANGED <<cands, head>>,
           OwnersKept \/ (\E c \in Commands : \E y : /\ Become(c, y)
                                                     /\ y.pc = "publish"
                                                     /\ y.env = e
                                                     /\ y.dep = Len(deps) + 1)
    PROVE  SlotInv'
<1>1. PlatformInv
  BY DEF Safe
<1>2. /\ Len(deps') = Len(deps) + 1 /\ deps'[Len(deps) + 1] = NewDeployment(e, k)
      /\ \A d \in DOMAIN deps : deps'[d] = deps[d]
  BY <1>1, DeploymentAdded
<1>3. /\ Len(deps) \in Nat /\ DOMAIN deps = 1..Len(deps) /\ PlatformInv'
      /\ DOMAIN deps' = 1..(Len(deps) + 1)
  <2>1. PlatformInv'
    BY <1>1, DeploymentAdded
  <2>2. QED
    BY <1>1, <1>2, <2>1 DEF PlatformInv
<1>4. PICK n : n = Len(deps) + 1
  OBVIOUS
<1>5. /\ deps'[n].env = e /\ deps'[n].status = "running" /\ n \notin DOMAIN deps
      /\ \A p \in DOMAIN deps' : p = n \/ p \in DOMAIN deps
  BY <1>2, <1>3, <1>4 DEF NewDeployment
<1>6. \A f \in Envs : InFlight(f)' \subseteq InFlight(f) \cup (IF f = e THEN {n} ELSE {})
  BY <1>2, <1>5 DEF InFlight
<1>7. OneInFlight'
  BY <1>6 DEF SlotInv, OneInFlight, Admitted
<1>8. DeployedIsHead'
  BY <1>2, <1>5 DEF SlotInv, DeployedIsHead
<1>9. \A o \in Commands : cmd[o].pc \in Owning => cmd[o].dep \in DOMAIN deps
  BY <1>3, CommandFacts DEF BoundsOK, Owning, Working
<1>10. CASE OwnersKept
  <2>1. PublishRuns'
    BY <1>2, <1>9, <1>10 DEF SlotInv, PublishRuns, OwnersKept, At, Owning
  <2>2. OwnersDiffer'
    BY <1>10 DEF SlotInv, OwnersDiffer, OwnersKept
  <2>3. QED
    BY <1>7, <1>8, <2>1, <2>2 DEF SlotInv
<1>11. ASSUME NEW c \in Commands, NEW y, Become(c, y), y.pc = "publish", y.env = e, y.dep = n
       PROVE  SlotInv'
  <2>1. cmd'[c] = y /\ \A o \in Commands : o # c => cmd'[o] = cmd[o]
    BY <1>11 DEF Safe, CommandInv, Become
  <2>2. PublishRuns'
    <3> SUFFICES ASSUME NEW o \in Commands, cmd'[o].pc = "publish", cmd'[o].env = Prod
                 PROVE  deps'[cmd'[o].dep].status = "running"
      BY DEF PublishRuns, At
    <3>1. CASE o = c
      BY <1>5, <1>11, <2>1, <3>1
    <3>2. CASE o # c
      BY <1>2, <1>9, <2>1, <3>2 DEF SlotInv, PublishRuns, At, Owning
    <3>3. QED
      BY <3>1, <3>2
  <2>3. OwnersDiffer'
    BY <1>5, <1>9, <1>11, <2>1 DEF SlotInv, OwnersDiffer
  <2>4. QED
    BY <1>7, <1>8, <2>2, <2>3 DEF SlotInv
<1>12. QED
  BY <1>4, <1>10, <1>11

(* No command publishes deployment d in production after the step.          *)
Unpublished(d) ==
    \A o \in Commands :
        ~(cmd'[o].pc = "publish" /\ cmd'[o].env = Prod /\ cmd'[o].dep = d)

(* A deployment that no longer runs is not being published in production.   *)
LEMMA NotRunningUnpublished ==
    ASSUME SlotInv, OwnersKept, NEW d, deps[d].status # "running"
    PROVE  Unpublished(d)
  BY DEF SlotInv, PublishRuns, At, OwnersKept, Owning, Unpublished

LEMMA SlotFailed ==
    ASSUME Safe, SlotInv, OwnersKept, NEW d \in DOMAIN deps, Unpublished(d),
           deps' = Failed(d), head' = head
    PROVE  SlotInv'
<1>1. CASE deps[d].status = "succeeded"
  BY <1>1, SlotSame DEF Failed
<1>2. CASE deps[d].status # "succeeded"
  <2>1. PICK y : y = [deps[d] EXCEPT !.status = "failed"]
    OBVIOUS
  <2>2. y \in AllDeployments /\ y.env = deps[d].env /\ y.status = "failed"
    BY <2>1, DeploymentFields DEF AllDeployments, Safe
  <2>3. deps' = [deps EXCEPT ![d] = y]
    BY <1>2, <2>1 DEF Failed
  <2>4. QED
    BY <2>2, <2>3, SlotChanged DEF Unpublished, InSlot
<1>3. QED
  BY <1>1, <1>2

LEMMA SlotReconciled ==
    ASSUME Safe, SlotInv, OwnersKept, NEW d \in DOMAIN deps, Reconcilable(d),
           deps' = Reconciled(d), head' = head
    PROVE  SlotInv'
<1>1. PICK y : y = [deps[d] EXCEPT !.status = "deployed"]
  OBVIOUS
<1>2. y \in AllDeployments /\ y.env = deps[d].env /\ y.status = "deployed"
  BY <1>1, DeploymentFields DEF AllDeployments, Safe
<1>3. deps' = [deps EXCEPT ![d] = y]
  BY <1>1 DEF Reconciled
<1>4. /\ deps[d].status # "running" /\ head[y.env] = d /\ InFlight(y.env) \subseteq {d}
  BY <1>2 DEF Reconcilable
<1>5. \A o \in Commands :
         cmd'[o].pc = "publish" /\ cmd'[o].env = Prod /\ cmd'[o].dep = d
         => y.status = "running"
  BY <1>4, NotRunningUnpublished DEF Unpublished
<1>6. y.status = "deployed" /\ y.env = Prod => head'[Prod] = d
  BY <1>4
<1>7. head'[Prod] = head[Prod]
  OBVIOUS
<1>8. QED
  BY <1>2, <1>3, <1>4, <1>5, <1>6, <1>7, SlotChanged

LEMMA SlotSucceeded ==
    ASSUME Safe, SlotInv, OwnersKept, NEW d \in DOMAIN deps, deps[d].status = "deployed",
           deps' = [deps EXCEPT ![d].status = "succeeded", ![d].evidence = "fresh"],
           head' = head
    PROVE  SlotInv'
<1>1. PICK y : y = [deps[d] EXCEPT !.status = "succeeded", !.evidence = "fresh"]
  OBVIOUS
<1>2. y \in AllDeployments /\ y.env = deps[d].env /\ y.status = "succeeded"
  BY <1>1, DeploymentFields DEF AllDeployments, Safe
<1>3. deps' = [deps EXCEPT ![d] = y]
  BY <1>1
<1>4. \A o \in Commands :
         cmd'[o].pc = "publish" /\ cmd'[o].env = Prod /\ cmd'[o].dep = d
         => y.status = "running"
  BY NotRunningUnpublished DEF Unpublished
<1>5. y.status \notin InSlot /\ y.status # "deployed" /\ head'[Prod] = head[Prod]
  BY <1>2 DEF InSlot
<1>6. QED
  BY <1>2, <1>3, <1>4, <1>5, SlotChanged

LEMMA SlotExpired ==
    ASSUME Safe, SlotInv, NEW d \in DOMAIN deps, ExpireEvidence(d)
    PROVE  SlotInv'
<1>1. PICK y : y = [deps[d] EXCEPT !.evidence = "stale"]
  OBVIOUS
<1>2. y \in AllDeployments /\ y.env = deps[d].env /\ y.status = deps[d].status
  BY <1>1, DeploymentFields DEF AllDeployments, Safe
<1>3. deps' = [deps EXCEPT ![d] = y] /\ head' = head /\ OwnersKept
  BY <1>1, OwnersSame DEF ExpireEvidence
<1>4. y.status = "deployed" /\ y.env = Prod => head'[Prod] = d
  BY <1>2, <1>3 DEF SlotInv, DeployedIsHead
<1>5. ASSUME NEW o \in Commands, cmd'[o].pc = "publish", cmd'[o].env = Prod, cmd'[o].dep = d
      PROVE  y.status = "running"
  BY <1>2, <1>3, <1>5 DEF ExpireEvidence, SlotInv, PublishRuns, At
<1>6. QED
  BY <1>2, <1>3, <1>4, <1>5, SlotChanged

(* What command c alone has to publish, nobody else publishes.              *)
LEMMA SoleOwner ==
    ASSUME SlotInv, OwnersKept, NEW c \in Commands, cmd[c].pc \in Owning,
           cmd'[c].pc # "publish"
    PROVE  Unpublished(cmd[c].dep)
<1> SUFFICES ASSUME NEW o \in Commands, cmd'[o].pc = "publish", cmd'[o].dep = cmd[c].dep
             PROVE  FALSE
  BY DEF Unpublished
<1>1. cmd[o].pc \in Owning /\ cmd'[o].dep = cmd[o].dep
  BY DEF OwnersKept, Owning
<1>2. o = c
  BY <1>1 DEF SlotInv, OwnersDiffer
<1>3. QED
  BY <1>2

LEMMA SlotActivated ==
    ASSUME Safe, SlotInv, NEW c \in Commands, Activate(c)
    PROVE  SlotInv'
<1>1. PICK d : d = cmd[c].dep
  OBVIOUS
<1>2. /\ d \in DOMAIN deps /\ deps[d].env = cmd[c].env /\ cmd[c].pc = "publish"
      /\ cmd[c].env \in Envs /\ PlatformInv /\ CommandInv
  BY <1>1, CommandFacts DEF Activate, At, CommandOK, BoundsOK, OwnOK, OwnDeployment, Working,
                           PlatformInv, AllCommands
<1>3. PICK y : y = [deps[d] EXCEPT !.live = TRUE,
                                   !.status = IF @ = "running" THEN "deployed" ELSE @]
  OBVIOUS
<1>4. /\ y \in AllDeployments /\ y.env = deps[d].env
      /\ y.status = IF deps[d].status = "running" THEN "deployed" ELSE deps[d].status
  BY <1>2, <1>3, DeploymentFields DEF AllDeployments
<1>5. deps' = [deps EXCEPT ![d] = y] /\ head' = [head EXCEPT ![y.env] = d]
  BY <1>1, <1>2, <1>3, <1>4 DEF Activate
<1>6. OwnersKept /\ cmd'[c].pc = "activated"
  BY <1>2, OwnersMove DEF Activate, CommandInv, AllCommands, Goto, Owning
<1>7. Unpublished(d)
  BY <1>1, <1>2, <1>6, SoleOwner DEF Owning
<1>8. y.status = "deployed" /\ y.env = Prod => head'[Prod] = d
  BY <1>2, <1>4, <1>5 DEF PlatformInv
<1>9. head'[Prod] = head[Prod] \/ (y.env = Prod /\ deps[d].status \in InSlot)
  <2>1. CASE y.env = Prod
    BY <1>1, <1>2, <1>4, <2>1 DEF SlotInv, PublishRuns, At, InSlot
  <2>2. CASE y.env # Prod
    BY <1>5, <2>2 DEF PlatformInv
  <2>3. QED
    BY <2>1, <2>2
<1>10. y.status \in InSlot => deps[d].status \in InSlot
  BY <1>4 DEF InSlot
<1>11. QED
  BY <1>2, <1>4, <1>5, <1>6, <1>7, <1>8, <1>9, <1>10, SlotChanged DEF Unpublished

LEMMA StepSlot ==
    ASSUME Safe, SlotInv, NEW c \in Commands, Step(c)
    PROVE  SlotInv'
<1>0. cmd[c] \in AllCommands /\ CommandInv /\ PlatformInv /\ BoundsOK(cmd[c])
  BY CommandFacts
<1>1. ASSUME NEW pc, pc \notin Owning, Goto(c, pc) PROVE OwnersKept
  BY <1>0, <1>1, OwnersMove DEF Owning
<1>2. ASSUME Stop(c) PROVE OwnersKept
  BY <1>0, <1>2, OwnersLeave DEF Stop, Idle, Owning
<1>3. ASSUME NEW y, y.pc \notin Owning, Become(c, y) PROVE OwnersKept
  BY <1>0, <1>3, OwnersLeave
<1>4. cmd[c].dep # 0 => cmd[c].dep \in DOMAIN deps
  BY <1>0 DEF BoundsOK, PlatformInv
<1>5. CASE RecordCandidate(c)
  BY <1>1, <1>5, SlotSame DEF RecordCandidate, Owning
<1>6. CASE RecordAwaiting(c)
  BY <1>1, <1>2, <1>6, SlotSame DEF RecordAwaiting, Owning
<1>7. CASE \/ RecordFailure(c) \/ RecordProductionFailure(c)
           \/ RecordEvidenceFailure(c) \/ RecordCompleted(c)
  BY <1>2, <1>7, SlotSame DEF RecordFailure, RecordProductionFailure,
                             RecordEvidenceFailure, RecordCompleted
<1>8. CASE RecordRecovered(c)
  BY <1>1, <1>8, SlotSame DEF RecordRecovered, Owning
<1>9. CASE RecordConfirmed(c)
  <2>1. PICK y : y = [cmd[c] EXCEPT !.env = Prod, !.dep = 0, !.pc = "create"]
    OBVIOUS
  <2>2. y.pc = "create" /\ Become(c, y)
    BY <1>0, <1>9, <2>1 DEF AllCommands, Become, RecordConfirmed
  <2>3. QED
    BY <1>3, <1>9, <2>2, SlotSame DEF RecordConfirmed, Owning
<1>10. CASE Seal(c)
  <2>1. PICK y : y = [cmd[c] EXCEPT !.cand = Len(cands) + 1, !.pc = "sealed"]
    OBVIOUS
  <2>2. y.pc = "sealed" /\ Become(c, y)
    BY <1>0, <1>10, <2>1 DEF AllCommands, Become, Seal
  <2>3. QED
    BY <1>3, <1>10, <2>2, SlotSame DEF Seal, Owning
<1>11. CASE Inspect(c)
  <2>1. PICK y : y = [cmd[c] EXCEPT !.dep = cmd[c].pre, !.pc = "await"]
    OBVIOUS
  <2>2. y.pc = "await"
    BY <1>0, <2>1 DEF AllCommands
  <2>3. Become(c, y) \/ Goto(c, "create")
    BY <1>11, <2>1 DEF Become, Inspect
  <2>4. QED
    BY <1>1, <1>3, <1>11, <2>2, <2>3, SlotSame DEF Inspect, Owning
<1>12. CASE Reread(c)
  <2>1. PICK s : s = ship[cmd[c].change]
    OBVIOUS
  <2>2. PICK y : y = [cmd[c] EXCEPT !.cand = s.cand, !.pre = s.pre, !.pc = "resolve"]
    OBVIOUS
  <2>3. y.pc = "resolve"
    BY <1>0, <2>2 DEF AllCommands
  <2>4. Become(c, y) \/ Stop(c)
    BY <1>12, <2>1, <2>2 DEF Reread
  <2>5. QED
    BY <1>2, <1>3, <1>12, <2>3, <2>4, SlotSame DEF Reread, Owning
<1>13. CASE Create(c)
  <2>1. PICK x : x = cmd[c]
    OBVIOUS
  <2>2. PICK y : y = [x EXCEPT !.dep = Len(deps) + 1, !.pc = "publish"]
    OBVIOUS
  <2>3. y.pc = "publish" /\ y.env = x.env /\ y.dep = Len(deps) + 1
    BY <1>0, <2>1, <2>2 DEF AllCommands
  <2>4. x.env \in Envs /\ x.cand \in DOMAIN cands /\ Admitted(x.env, x.cand)
    BY <1>0, <1>13, <2>1 DEF Create, At, BoundsOK, AllCommands, PlatformInv
  <2>5. /\ deps' = Append(deps, NewDeployment(x.env, x.cand)) /\ UNCHANGED <<cands, head>>
        /\ Become(c, y)
    BY <1>13, <2>1, <2>2 DEF Create
  <2>6. QED
    BY <2>3, <2>4, <2>5, SlotCreated
<1>14. CASE CreateRefused(c)
  BY <1>0, <1>3, <1>14, ThrownLeaves, SlotSame DEF CreateRefused
<1>15. CASE Activate(c)
  BY <1>15, SlotActivated
<1>16. CASE ReturnDeployment(c)
  BY <1>0, <1>3, <1>16, AfterDeployLeaves, SlotSame DEF ReturnDeployment
<1>17. CASE PublishFails(c)
  <2>1. OwnersKept
    BY <1>0, <1>17, OwnersMove DEF PublishFails, Owning
  <2>2. QED
    BY <1>17, <2>1, SlotSame DEF PublishFails
<1>18. CASE MarkFailed(c)
  <2>1. PICK y : y = IF Shipping(cmd[c]) THEN [cmd[c] EXCEPT !.pc = "failed"] ELSE Idle
    OBVIOUS
  <2>2. y.pc \in {"failed", "idle"} /\ Become(c, y)
    BY <1>0, <1>18, <2>1 DEF AllCommands, Idle, MarkFailed
  <2>3. OwnersKept /\ cmd'[c].pc # "publish"
    BY <1>0, <2>2, OwnersLeave DEF Owning
  <2>4. cmd[c].dep \in DOMAIN deps /\ cmd[c].pc = "settle"
    BY <1>0, <1>4, <1>18 DEF MarkFailed, At, BoundsOK, Working
  <2>5. Unpublished(cmd[c].dep)
    BY <2>3, <2>4, SoleOwner DEF Owning
  <2>6. QED
    BY <1>18, <2>3, <2>4, <2>5, SlotFailed DEF MarkFailed
<1>19. CASE ReadHead(c)
  <2>1. PICK y : y = [cmd[c] EXCEPT !.cur = head[Pre], !.pc = "original"]
    OBVIOUS
  <2>2. y.pc = "original"
    BY <1>0, <2>1 DEF AllCommands
  <2>3. Become(c, y) \/ Stop(c)
    BY <1>19, <2>1 DEF ReadHead, Become
  <2>4. QED
    BY <1>2, <1>3, <1>19, <2>2, <2>3, SlotSame DEF ReadHead, Owning
<1>20. CASE ReadOriginal(c)
  <2>1. PICK x : x = cmd[c]
    OBVIOUS
  <2>2. PICK y : /\ Become(c, y)
                 /\ \/ y = [x EXCEPT !.dep = x.pre, !.env = Pre, !.pc = "reconcile"]
                    \/ y = [x EXCEPT !.dep = x.pre, !.pc = "confirm"]
                    \/ y = [x EXCEPT !.pc = "history"]
    BY <1>20, <2>1 DEF ReadOriginal
  <2>3. y.pc \in {"reconcile", "confirm", "history"}
    BY <1>0, <2>1, <2>2 DEF AllCommands
  <2>4. QED
    BY <1>3, <1>20, <2>2, <2>3, SlotSame DEF ReadOriginal, Owning
<1>21. CASE FindReplacement(c)
  <2>1. PICK x : x = cmd[c]
    OBVIOUS
  <2>2. \/ Stop(c)
        \/ \E d \in DOMAIN deps : Become(c, [x EXCEPT !.dep = d, !.pre = d, !.pc = "recovered"])
    BY <1>21, <2>1 DEF FindReplacement
  <2>3. ASSUME NEW d \in DOMAIN deps,
               Become(c, [x EXCEPT !.dep = d, !.pre = d, !.pc = "recovered"])
        PROVE  OwnersKept
    <3>1. PICK y : y = [x EXCEPT !.dep = d, !.pre = d, !.pc = "recovered"]
      OBVIOUS
    <3>2. y.pc = "recovered"
      BY <1>0, <2>1, <3>1 DEF AllCommands
    <3>3. QED
      BY <1>3, <2>3, <3>1, <3>2 DEF Owning
  <2>4. QED
    BY <1>2, <1>21, <2>2, <2>3, SlotSame DEF FindReplacement
<1>22. CASE Reconcile(c)
  <2>1. cmd[c].dep \in DOMAIN deps
    BY <1>0, <1>4, <1>22 DEF Reconcile, At, BoundsOK, Working
  <2>2. CASE Goto(c, "complete")  /\ Reconcilable(cmd[c].dep) /\ deps' = Reconciled(cmd[c].dep)
    BY <1>1, <1>22, <2>1, <2>2, SlotReconciled DEF Reconcile, Owning
  <2>3. CASE (Become(c, AfterEvidence(cmd[c])) \/ Become(c, Thrown(cmd[c]))) /\ UNCHANGED deps
    BY <1>0, <1>3, <1>22, <2>3, AfterEvidenceLeaves, ThrownLeaves, SlotSame DEF Reconcile
  <2>4. QED
    BY <1>22, <2>2, <2>3 DEF Reconcile
<1>23. CASE Complete(c)
  <2>1. cmd[c].dep \in DOMAIN deps
    BY <1>0, <1>4, <1>23 DEF Complete, At, BoundsOK, Working
  <2>2. OwnersKept
    BY <1>0, <1>3, <1>23, AfterEvidenceLeaves, ThrownLeaves DEF Complete
  <2>3. QED
    BY <1>23, <2>1, <2>2, SlotSucceeded, SlotSame DEF Complete
<1>24. QED
  BY <1>5, <1>6, <1>7, <1>8, <1>9, <1>10, <1>11, <1>12, <1>13, <1>14, <1>15, <1>16, <1>17,
     <1>18, <1>19, <1>20, <1>21, <1>22, <1>23 DEF Step

LEMMA BeginSlot ==
    ASSUME Safe, SlotInv, NEW c \in Commands, NEW x, Begin(c, x), x.pc \notin Owning
    PROVE  SlotInv'
  BY CommandFacts, OwnersLeave, SlotSame DEF Begin

LEMMA CommandSlot ==
    ASSUME Safe, SlotInv, NEW c \in Commands,
           \/ \E ch \in Changes, op \in {"ship", "confirm"} : ShipCommand(c, ch, op)
           \/ \E k \in DOMAIN cands, e \in Envs : DeployCommand(c, k, e)
           \/ \E d \in DOMAIN deps : TestCommand(c, d)
    PROVE  SlotInv'
<1>1. ASSUME NEW ch \in Changes, NEW op \in {"ship", "confirm"}, ShipCommand(c, ch, op)
      PROVE  SlotInv'
  <2>1. PICK x : x = [Idle EXCEPT
          !.op = op, !.change = ch, !.cand = ship[ch].cand, !.pre = ship[ch].pre,
          !.pc = IF op = "confirm" /\ ship[ch].pre # 0 THEN "resolve"
                 ELSE IF ship[ch].cand = 0 THEN "seal" ELSE "inspect"]
    OBVIOUS
  <2>2. x.pc \in {"resolve", "seal", "inspect"}
    BY <2>1 DEF Idle
  <2>3. QED
    BY <1>1, <2>1, <2>2, BeginSlot DEF ShipCommand, Owning
<1>2. ASSUME NEW k, NEW e, DeployCommand(c, k, e) PROVE SlotInv'
  <2>1. PICK x : x = [Idle EXCEPT !.op = "deploy", !.env = e, !.cand = k, !.pc = "create"]
    OBVIOUS
  <2>2. x.pc = "create"
    BY <2>1 DEF Idle
  <2>3. QED
    BY <1>2, <2>1, <2>2, BeginSlot DEF DeployCommand, Owning
<1>3. ASSUME NEW d, TestCommand(c, d) PROVE SlotInv'
  <2>1. PICK x : x = [Idle EXCEPT !.op = "test", !.env = deps[d].env,
                                  !.cand = deps[d].cand, !.dep = d, !.pc = "reconcile"]
    OBVIOUS
  <2>2. x.pc = "reconcile"
    BY <2>1 DEF Idle
  <2>3. QED
    BY <1>3, <2>1, <2>2, BeginSlot DEF TestCommand, Owning
<1>4. QED
  BY <1>1, <1>2, <1>3

LEMMA FaultSlot ==
    ASSUME Safe, SlotInv, NEW c \in Commands, Crash(c) \/ RequestLost(c) \/ AnswerLost(c)
    PROVE  SlotInv'
<1>0. cmd[c] \in AllCommands /\ CommandInv /\ PlatformInv /\ BoundsOK(cmd[c])
  BY CommandFacts
<1>1. cmd[c].dep # 0 => cmd[c].dep \in DOMAIN deps
  BY <1>0 DEF BoundsOK, PlatformInv
<1>2. ASSUME Become(c, Thrown(cmd[c])) PROVE OwnersKept
  BY <1>0, <1>2, ThrownLeaves, OwnersLeave
<1>3. CASE Crash(c)
  <2>1. OwnersKept
    BY <1>0, <1>3, OwnersLeave DEF Crash, Stop, Idle, Owning
  <2>2. QED
    BY <1>3, <2>1, SlotSame DEF Crash
<1>4. CASE RequestLost(c)
  <2>1. CASE cmd[c].pc = "original" /\ Goto(c, "history")
    BY <1>0, <1>4, <2>1, OwnersMove, SlotSame DEF RequestLost, Owning
  <2>2. CASE Become(c, IF Shipping(cmd[c]) THEN [cmd[c] EXCEPT !.pc = "failed"] ELSE Idle)
    <3>1. PICK y : y = IF Shipping(cmd[c]) THEN [cmd[c] EXCEPT !.pc = "failed"] ELSE Idle
      OBVIOUS
    <3>2. y.pc \in {"failed", "idle"} /\ Become(c, y)
      BY <1>0, <2>2, <3>1 DEF AllCommands, Idle
    <3>3. QED
      BY <1>0, <1>4, <3>2, OwnersLeave, SlotSame DEF RequestLost, Owning
  <2>3. QED
    BY <1>2, <1>4, <2>1, <2>2, SlotSame DEF RequestLost
<1>5. CASE AnswerLost(c)
  <2>0. OwnersKept /\ head' = head /\ cands' = cands
    BY <1>2, <1>5 DEF AnswerLost
  <2>1. CASE /\ cmd[c].pc = "create" /\ Admitted(cmd[c].env, cmd[c].cand)
             /\ deps' = Append(deps, NewDeployment(cmd[c].env, cmd[c].cand))
    <3>1. cmd[c].env \in Envs /\ cmd[c].cand \in DOMAIN cands
      BY <1>0, <2>1 DEF BoundsOK, AllCommands, PlatformInv
    <3>2. QED
      BY <2>0, <2>1, <3>1, SlotCreated
  <2>2. CASE /\ cmd[c].pc = "reconcile" /\ Reconcilable(cmd[c].dep)
             /\ deps' = Reconciled(cmd[c].dep)
    <3>1. cmd[c].dep \in DOMAIN deps
      BY <1>0, <1>1, <2>2 DEF BoundsOK, Working
    <3>2. QED
      BY <2>0, <2>2, <3>1, SlotReconciled
  <2>3. CASE /\ cmd[c].pc = "complete" /\ deps[cmd[c].dep].status = "deployed"
             /\ deps' = [deps EXCEPT ![cmd[c].dep].status = "succeeded",
                                     ![cmd[c].dep].evidence = "fresh"]
    <3>1. cmd[c].dep \in DOMAIN deps
      BY <1>0, <1>1, <2>3 DEF BoundsOK, Working
    <3>2. QED
      BY <2>0, <2>3, <3>1, SlotSucceeded
  <2>4. QED
    BY <1>5, <2>1, <2>2, <2>3 DEF AnswerLost
<1>6. QED
  BY <1>3, <1>4, <1>5

LEMMA NextSlot ==
    ASSUME Safe, SlotInv, Next
    PROVE  SlotInv'
<1>1. ASSUME NEW d \in DOMAIN deps, FailCommand(d)
      PROVE  SlotInv'
  <2>1. OwnersKept /\ deps' = Failed(d) /\ head' = head
    BY <1>1, OwnersSame DEF FailCommand
  <2>2. Unpublished(d)
    <3> SUFFICES ASSUME NEW o \in Commands, cmd[o].pc = "publish", cmd[o].env = Prod,
                        cmd[o].dep = d
                 PROVE  FALSE
      BY <1>1 DEF FailCommand, Unpublished
    <3>1. deps[d].env = Prod
      BY CommandFacts DEF CommandOK, OwnOK, OwnDeployment, Working
    <3>2. QED
      BY <1>1, <3>1 DEF FailCommand, Pre, Prod
  <2>3. QED
    BY <2>1, <2>2, SlotFailed
<1>2. ASSUME NEW d \in DOMAIN deps, ReconcileCommand(d)
      PROVE  SlotInv'
  BY <1>2, OwnersSame, SlotReconciled DEF ReconcileCommand
<1>3. ASSUME NEW d \in DOMAIN deps, ExpireEvidence(d)
      PROVE  SlotInv'
  BY <1>3, SlotExpired
<1>4. QED
  BY <1>1, <1>2, <1>3, StepSlot, CommandSlot, FaultSlot DEF Next

LEMMA SlotInvariant == Spec => [](Safe /\ Counts /\ SlotInv)
<1>1. Init => SlotInv
  BY DEF Init, SlotInv, OneInFlight, InFlight, DeployedIsHead, PublishRuns, OwnersDiffer,
         At, Idle, Owning
<1>2. Safe /\ SlotInv /\ [Next]_vars => SlotInv'
  <2> SUFFICES ASSUME Safe, SlotInv, [Next]_vars PROVE SlotInv'
    OBVIOUS
  <2>1. CASE UNCHANGED vars
    BY <2>1, OwnersSame, SlotSame DEF vars
  <2>2. QED
    BY <2>1, NextSlot
<1>3. QED
  BY <1>1, <1>2, SafeInvariant, PTL DEF Spec

-----------------------------------------------------------------------------
(* What a step without faults leaves behind, and what one with a fault.     *)

Released(c) ==
    /\ deps'[cmd[c].dep].status # "running"
    /\ Shipping(cmd[c]) /\ cmd[c].env = Prod => deps'[cmd[c].dep].status # "deployed"

LeftByFault(c) ==
    /\ deps'[cmd[c].dep].status = "running" => cmd[c].pc \in {"publish", "settle"}
    /\ Shipping(cmd[c]) /\ cmd[c].env = Prod =>
          \/ Crash(c)
          \/ cmd'[c].pc \in {"failed", "evidence_failed"} /\ cmd'[c].dep = cmd[c].dep

LEMMA OtherCommands ==
    ASSUME CommandInv, NEW c \in Commands, NEW o \in Commands, o # c,
           NEW y, Become(o, y)
    PROVE  cmd'[c] = cmd[c]
  BY DEF CommandInv, Become

(* Every step of a command is a step of its own state.                      *)
LEMMA StepBecomes ==
    ASSUME NEW o \in Commands, Step(o)
    PROVE  \E y : Become(o, y)
<1>1. CASE \/ Seal(o) \/ RecordCandidate(o) \/ Inspect(o) \/ RecordAwaiting(o) \/ Reread(o)
           \/ Create(o) \/ CreateRefused(o) \/ Activate(o) \/ ReturnDeployment(o)
  BY <1>1 DEF Seal, RecordCandidate, Inspect, RecordAwaiting, Reread, Create, CreateRefused,
              Activate, ReturnDeployment, Become, Goto, Stop
<1>2. CASE \/ PublishFails(o) \/ MarkFailed(o) \/ RecordFailure(o) \/ RecordProductionFailure(o)
           \/ ReadHead(o) \/ ReadOriginal(o) \/ FindReplacement(o)
  BY <1>2 DEF PublishFails, MarkFailed, RecordFailure, RecordProductionFailure,
              ReadHead, ReadOriginal, FindReplacement, Become, Goto, Stop
<1>3. CASE \/ RecordRecovered(o) \/ RecordConfirmed(o)
           \/ Reconcile(o) \/ Complete(o) \/ RecordEvidenceFailure(o) \/ RecordCompleted(o)
  BY <1>3 DEF RecordRecovered, RecordConfirmed, Reconcile, Complete,
              RecordEvidenceFailure, RecordCompleted, Become, Goto, Stop
<1>4. QED
  BY <1>1, <1>2, <1>3 DEF Step

LEMMA StepReleases ==
    ASSUME Safe, SlotInv, NEW c \in Commands, Step(c),
           cmd[c].pc \in Holding, cmd'[c].pc \notin Holding
    PROVE  Released(c)
<1>1. PICK x : x = cmd[c]
  OBVIOUS
<1>2. /\ x \in AllCommands /\ CommandOK(x) /\ BoundsOK(x) /\ OwnOK(x)
      /\ PlatformInv /\ CommandInv /\ x.env \in Envs
  BY <1>1, CommandFacts DEF CommandOK, AllCommands
<1>3. /\ x.dep \in DOMAIN deps /\ deps[x.dep].env = x.env
      /\ x.pc \in {"activated", "reconcile", "complete"} => deps[x.dep].status # "running"
  BY <1>1, <1>2 DEF BoundsOK, OwnOK, OwnDeployment, NotRunning, Working, Holding, PlatformInv
<1>4. \/ Activate(c) \/ ReturnDeployment(c) \/ PublishFails(c) \/ MarkFailed(c)
      \/ Reconcile(c) \/ Complete(c)
  <2>1. x.pc \notin {"seal", "sealed", "inspect", "await", "reread", "create", "failed",
                     "resolve", "original", "history", "recovered", "confirm",
                     "evidence_failed", "completed"}
    BY <1>1 DEF Holding
  <2>2. QED
    BY <1>1, <2>1 DEF Step, At, Seal, RecordCandidate, Inspect, RecordAwaiting, Reread, Create,
       CreateRefused, RecordFailure, RecordProductionFailure, ReadHead, ReadOriginal,
       FindReplacement, RecordRecovered, RecordConfirmed, RecordEvidenceFailure, RecordCompleted
<1>5. CASE Activate(c) \/ PublishFails(c)
  BY <1>2, <1>5 DEF Activate, PublishFails, Goto, CommandInv, AllCommands, Holding
<1>6. CASE ReturnDeployment(c)
  <2>1. deps' = deps /\ cmd'[c] = AfterDeploy(x) /\ x.pc = "activated"
    BY <1>1, <1>2, <1>6 DEF ReturnDeployment, Become, CommandInv, At
  <2>2. ~(Shipping(x) /\ x.env = Prod)
    BY <1>2, <2>1 DEF AfterDeploy, AllCommands, Holding, Pre, Prod
  <2>3. QED
    BY <1>1, <1>3, <2>1, <2>2 DEF Released
<1>7. CASE MarkFailed(c)
  <2>1. deps' = Failed(x.dep)
    BY <1>1, <1>7 DEF MarkFailed
  <2>2. deps'[x.dep].status \in {"succeeded", "failed"}
    BY <1>2, <1>3, <2>1 DEF Failed, PlatformInv, AllDeployments
  <2>3. QED
    BY <1>1, <2>2 DEF Released
<1>8. CASE Reconcile(c)
  <2>1. x.pc = "reconcile"
    BY <1>1, <1>8 DEF Reconcile, At
  <2>2. CASE deps[x.dep].status = "succeeded" /\ deps' = deps
    BY <1>1, <2>2 DEF Released
  <2>3. CASE Goto(c, "complete")
    BY <1>2, <2>3 DEF Goto, CommandInv, AllCommands, Holding
  <2>4. CASE deps[x.dep].status # "succeeded" /\ ~Reconcilable(x.dep) /\ deps' = deps
    <3>1. ASSUME x.env = Prod PROVE deps[x.dep].status # "deployed"
      <4> SUFFICES ASSUME deps[x.dep].status = "deployed" PROVE FALSE
        OBVIOUS
      <4>1. deps[x.dep].live /\ head[Prod] = x.dep
        BY <1>2, <1>3, <3>1 DEF PlatformInv, DeploymentsOK, SlotInv, DeployedIsHead
      <4>2. x.dep \in InFlight(Prod)
        BY <1>3, <3>1 DEF InFlight
      <4>3. InFlight(Prod) \subseteq {x.dep}
        BY <1>2, <3>1, <4>2 DEF SlotInv, OneInFlight
      <4>4. QED
        BY <1>3, <2>4, <3>1, <4>1, <4>3 DEF Reconcilable
    <3>2. QED
      BY <1>1, <1>3, <2>1, <2>4, <3>1 DEF Released
  <2>5. QED
    BY <1>1, <1>8, <2>2, <2>3, <2>4 DEF Reconcile
<1>9. CASE Complete(c)
  <2>1. x.pc = "complete"
    BY <1>1, <1>9 DEF Complete, At
  <2>2. CASE deps[x.dep].status = "deployed"
    <3>1. deps'[x.dep].status = "succeeded"
      BY <1>1, <1>2, <1>3, <1>9, <2>2, SucceededGrows DEF Complete
    <3>2. QED
      BY <1>1, <3>1 DEF Released
  <2>3. CASE deps[x.dep].status # "deployed"
    BY <1>1, <1>3, <1>9, <2>1, <2>3 DEF Complete, Released
  <2>4. QED
    BY <2>2, <2>3
<1>10. QED
  BY <1>4, <1>5, <1>6, <1>7, <1>8, <1>9

(* A command that is killed or loses a request of its own.                  *)
LEMMA FaultReleases ==
    ASSUME Safe, NEW c \in Commands, Crash(c) \/ RequestLost(c) \/ AnswerLost(c),
           cmd[c].pc \in Holding
    PROVE  LeftByFault(c)
<1>1. PICK x : x = cmd[c]
  OBVIOUS
<1>2. /\ x \in AllCommands /\ BoundsOK(x) /\ OwnOK(x) /\ CommandInv /\ PlatformInv
  BY <1>1, CommandFacts DEF CommandOK
<1>3. /\ x.dep \in DOMAIN deps
      /\ x.pc \in {"activated", "reconcile", "complete"} => deps[x.dep].status # "running"
  BY <1>1, <1>2 DEF BoundsOK, OwnOK, NotRunning, Working, Holding, PlatformInv
<1>4. ASSUME Become(c, Thrown(x)), x.pc \in {"reconcile", "complete"}, Shipping(x), x.env = Prod
      PROVE  cmd'[c].pc = "evidence_failed" /\ cmd'[c].dep = x.dep
  BY <1>2, <1>4 DEF Thrown, Become, CommandInv, AllCommands
<1>5. CASE Crash(c)
  <2>1. deps' = deps
    BY <1>5 DEF Crash
  <2>2. QED
    BY <1>1, <1>3, <1>5, <2>1 DEF LeftByFault, Holding
<1>6. CASE RequestLost(c)
  <2>1. deps' = deps
    BY <1>6 DEF RequestLost
  <2>2. CASE x.pc \in {"reconcile", "complete"} /\ Become(c, Thrown(x))
    BY <1>1, <1>3, <1>4, <2>1, <2>2 DEF LeftByFault
  <2>3. CASE /\ x.pc = "settle"
             /\ Become(c, IF Shipping(x) THEN [x EXCEPT !.pc = "failed"] ELSE Idle)
    <3>1. Shipping(x) => cmd'[c].pc = "failed" /\ cmd'[c].dep = x.dep
      BY <1>2, <2>3 DEF Become, CommandInv, AllCommands
    <3>2. QED
      BY <1>1, <2>3, <3>1 DEF LeftByFault
  <2>4. QED
    BY <1>1, <1>6, <2>2, <2>3 DEF RequestLost, Holding
<1>7. CASE AnswerLost(c)
  <2>1. x.pc \in {"reconcile", "complete"} /\ Become(c, Thrown(x))
    BY <1>1, <1>7 DEF AnswerLost, Holding
  <2>2. \/ deps' = Reconciled(x.dep)
        \/ deps' = [deps EXCEPT ![x.dep].status = "succeeded", ![x.dep].evidence = "fresh"]
    BY <1>1, <1>7, <2>1 DEF AnswerLost
  <2>3. deps \in Seq(AllDeployments) /\ deps[x.dep] \in AllDeployments
    BY <1>2, <1>3 DEF PlatformInv
  <2>4. deps'[x.dep].status \in {"deployed", "succeeded"}
    BY <1>3, <2>2, <2>3 DEF Reconciled, AllDeployments
  <2>5. QED
    BY <1>1, <1>4, <2>1, <2>4 DEF LeftByFault
<1>8. QED
  BY <1>5, <1>6, <1>7

LEMMA SameEnvironment ==
    ASSUME Safe, NEW c \in Commands, cmd[c].pc \in Holding,
           Step(c) \/ Crash(c) \/ RequestLost(c) \/ AnswerLost(c),
           NEW d, d = cmd[c].dep
    PROVE  d \in DOMAIN deps' /\ deps'[d].env = deps[d].env
<1>1. d \in DOMAIN deps /\ deps[d] \in AllDeployments /\ deps \in Seq(AllDeployments)
  BY CommandFacts, DeploymentFields DEF BoundsOK, Working, Holding, PlatformInv
<1>2. /\ d \in DOMAIN Failed(d) /\ Failed(d)[d].env = deps[d].env
      /\ d \in DOMAIN Reconciled(d) /\ Reconciled(d)[d].env = deps[d].env
  BY <1>1 DEF Failed, Reconciled, AllDeployments
<1>3. CASE deps' = deps \/ deps' = Failed(d) \/ deps' = Reconciled(d)
  BY <1>1, <1>2, <1>3
<1>4. CASE deps' = [deps EXCEPT ![d].status = "succeeded", ![d].evidence = "fresh"]
  BY <1>1, <1>4 DEF AllDeployments
<1>5. CASE Activate(c)
  BY <1>1, <1>5 DEF Activate, AllDeployments
<1>6. CASE Step(c)
  <2>1. cmd[c].pc \notin
          {"seal", "sealed", "inspect", "await", "reread", "create", "failed", "resolve",
           "original", "history", "recovered", "confirm", "evidence_failed", "completed"}
    BY DEF Holding
  <2>2. \/ Activate(c) \/ ReturnDeployment(c) \/ PublishFails(c) \/ MarkFailed(c)
        \/ Reconcile(c) \/ Complete(c)
    BY <1>6, <2>1 DEF Step, At, Seal, RecordCandidate, Inspect, RecordAwaiting, Reread, Create,
       CreateRefused, RecordFailure, RecordProductionFailure, ReadHead, ReadOriginal,
       FindReplacement, RecordRecovered, RecordConfirmed, RecordEvidenceFailure, RecordCompleted
  <2>3. QED
    BY <1>3, <1>4, <1>5, <2>2 DEF ReturnDeployment, PublishFails, MarkFailed, Reconcile, Complete
<1>7. CASE Crash(c) \/ RequestLost(c) \/ AnswerLost(c)
  BY <1>3, <1>4, <1>7 DEF Crash, RequestLost, AnswerLost, Holding
<1>8. QED
  BY <1>6, <1>7

(* After a step: the production deployment that waits for evidence is the   *)
(* active release, and has the slot for itself.                             *)
LEMMA WaitingReconcilable ==
    ASSUME PlatformInv', SlotInv', NEW d, d \in DOMAIN deps',
           deps'[d].env = Prod, deps'[d].status = "deployed"
    PROVE  Reconcilable(d)'
<1>1. deps'[d].live /\ head'[Prod] = d
  BY DEF PlatformInv, DeploymentsOK, SlotInv, DeployedIsHead
<1>2. d \in InFlight(Prod)' /\ Prod \in Envs
  BY DEF InFlight, Envs
<1>3. InFlight(Prod)' \subseteq {d}
  BY <1>2 DEF SlotInv, OneInFlight
<1>4. QED
  BY <1>1, <1>3 DEF Reconcilable

(* Whatever failed before, and in any number of commands: a command leaves  *)
(* a running deployment, or as a ship command a production deployment       *)
(* without its evidence, only if it is killed or loses a request in that    *)
(* very step; and then a deployed one can be completed, and ship.json will  *)
(* name it unless the command was killed.                                   *)
THEOREM SlotReleased == Spec => ReleasesItsSlot
<1> DEFINE Left(c, d) ==
      /\ deps'[d].status = "running" => Lost /\ cmd[c].pc \in {"publish", "settle"}
      /\ cmd[c].env = Prod /\ deps'[d].status = "deployed" =>
            Reconcilable(d)' /\ (Shipping(cmd[c]) => Lost)
      /\ Lost /\ Shipping(cmd[c]) /\ cmd[c].env = Prod =>
            \/ Crash(c)
            \/ cmd'[c].pc \in {"failed", "evidence_failed"} /\ cmd'[c].dep = d
<1>1. /\ Safe /\ Counts /\ SlotInv /\ (Safe /\ Counts /\ SlotInv)' /\ [Next]_vars
      => [\A c \in Commands : \A d \in DOMAIN deps :
            d = cmd[c].dep /\ cmd[c].pc \in Holding /\ cmd'[c].pc \notin Holding => Left(c, d)]_vars
  <2> SUFFICES ASSUME Safe, Counts, SlotInv, Safe', SlotInv', Next,
                      NEW c \in Commands, NEW d \in DOMAIN deps, d = cmd[c].dep,
                      cmd[c].pc \in Holding, cmd'[c].pc \notin Holding
               PROVE  Left(c, d)
    OBVIOUS
  <2>1. CommandInv /\ cmd'[c] # cmd[c]
    BY DEF Safe
  <2> DEFINE Same == d \in DOMAIN deps' /\ deps'[d].env = deps[d].env
  <2>2. ASSUME NEW o \in Commands, Step(o) PROVE Released(c) /\ ~Lost /\ Same
    <3>1. o = c
      BY <2>1, <2>2, StepBecomes, OtherCommands
    <3>2. ~Lost
      BY <2>2, StepCounts DEF Lost
    <3>3. QED
      BY <2>2, <3>1, <3>2, StepReleases, SameEnvironment
  <2>3. ASSUME NEW o \in Commands, Crash(o) \/ RequestLost(o) \/ AnswerLost(o)
        PROVE  LeftByFault(c) /\ Lost /\ Same
    <3>1. \E y : Become(o, y)
      BY <2>3 DEF Crash, RequestLost, AnswerLost, Stop, Goto, Become
    <3>2. o = c
      BY <2>1, <3>1, OtherCommands
    <3>3. Lost
      BY <2>3 DEF Crash, RequestLost, AnswerLost, Fault, Counts, Lost
    <3>4. QED
      BY <2>3, <3>2, <3>3, FaultReleases, SameEnvironment
  <2>4. ASSUME NEW o \in Commands,
               \/ \E ch \in Changes, op \in {"ship", "confirm"} : ShipCommand(o, ch, op)
               \/ \E k \in DOMAIN cands, e \in Envs : DeployCommand(o, k, e)
               \/ \E p \in DOMAIN deps : TestCommand(o, p)
        PROVE  FALSE
    <3>1. \E y : Become(o, y) /\ cmd[o].pc = "idle"
      BY <2>4 DEF ShipCommand, DeployCommand, TestCommand, Begin, At
    <3>2. o = c
      BY <2>1, <3>1, OtherCommands
    <3>3. QED
      BY <3>1, <3>2 DEF Holding
  <2>5. ASSUME NEW p \in DOMAIN deps, FailCommand(p) \/ ReconcileCommand(p) \/ ExpireEvidence(p)
        PROVE  FALSE
    BY <2>1, <2>5 DEF FailCommand, ReconcileCommand, ExpireEvidence
  <2>6. Same /\ ((Released(c) /\ ~Lost) \/ (LeftByFault(c) /\ Lost))
    BY <2>2, <2>3, <2>4, <2>5 DEF Next
  <2>7. ASSUME cmd[c].env = Prod, deps'[d].status = "deployed" PROVE Reconcilable(d)'
    <3>1. deps[d].env = Prod
      BY <2>7, CommandFacts DEF CommandOK, OwnOK, OwnDeployment, Working, Holding
    <3>2. PlatformInv'
      BY DEF Safe
    <3>3. QED
      BY <2>6, <2>7, <3>1, <3>2, WaitingReconcilable
  <2>8. QED
    BY <2>6, <2>7 DEF Released, LeftByFault
<1>2. QED
  BY <1>1, SlotInvariant, PTL DEF Spec, ReleasesItsSlot
=============================================================================
