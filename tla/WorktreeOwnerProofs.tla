------------------------ MODULE WorktreeOwnerProofs ------------------------
(* Theorems about WorktreeOwner: as long as the lock file excludes and      *)
(* every process belongs to a task, a claim is honoured, and cleanup takes  *)
(* no work along.                                                           *)
EXTENDS WorktreeOwner, LockFileProofs

Undisturbed ==
    /\ MaxCrashes = 0
    /\ MaxStalls = 0
    /\ \A p \in Processes : TaskOf[p] \in Tasks

(* The owner that was read is still the owner, though its time may have     *)
(* come.                                                                    *)
SeenOwner(p) ==
    /\ seen[p].task = owner.task
    /\ seen[p].change = owner.change
    /\ owner.active => seen[p].active

Inside == {"read", "write", "release", "removed"}

Inv ==
    /\ TypeOK
    /\ LockInv
    /\ \A p \in Processes : step[p] \in Inside <=> phase[p] = "in"
    /\ \A p \in Processes : step[p] # "idle" => command[p] \in Commands
    /\ \A p \in Processes : step[p] = "write" => SeenOwner(p) /\ Allowed(p, seen[p])
    /\ ClaimsHonoured

WorkTyped ==
    /\ branch \in [exists : BOOLEAN, head : Nat, merged : Nat]
    /\ dirty \in BOOLEAN
    /\ releasing \in BOOLEAN
    /\ planned \in [Processes -> Nat]

Branches == [exists : BOOLEAN, head : Nat, merged : Nat]

LEMMA BranchTypes ==
    ASSUME NEW b \in Branches
    PROVE  /\ b.head \in Nat /\ b.merged \in Nat /\ b.exists \in BOOLEAN
           /\ [b EXCEPT !.head = b.head + 1] \in Branches
           /\ [b EXCEPT !.head = b.head + 1].head = b.head + 1
           /\ [b EXCEPT !.head = b.head + 1].exists = b.exists
           /\ [b EXCEPT !.merged = b.head] \in Branches
           /\ [b EXCEPT !.merged = b.head].exists = b.exists
           /\ [b EXCEPT !.exists = FALSE] \in Branches
<1>1. b.head \in Nat /\ b.head + 1 \in Nat
  BY DEF Branches
<1>2. QED
  BY <1>1 DEF Branches

LEMMA WorkTypes ==
    ASSUME TypeOK, [Next]_vars
    PROVE  WorkTyped'
<1>0. WorkTyped /\ branch \in Branches
  BY DEF TypeOK, WorkTyped, Branches
<1>1. CASE Commit \/ Integrate
  <2>1. branch' \in Branches
    BY <1>0, <1>1, BranchTypes DEF Commit, Integrate
  <2>2. QED
    BY <1>0, <1>1, <2>1 DEF WorkTyped, Branches, Commit, Integrate
<1>8. CASE Edit \/ StartRelease \/ EndRelease
  BY <1>0, <1>8 DEF WorkTyped, Edit, StartRelease, EndRelease
<1>2. ASSUME NEW p \in Processes, NEW cmd \in Commands, Start(p, cmd) PROVE WorkTyped'
  BY <1>0, <1>2 DEF WorkTyped, Start
<1>3. ASSUME NEW p \in Processes,
             LockTimeout(p) \/ ReleaseLock(p) \/ DeleteBranch(p)
      PROVE  WorkTyped'
  <2>1. branch' \in Branches
    BY <1>0, <1>3, BranchTypes DEF LockTimeout, ReleaseLock, DeleteBranch
  <2>2. QED
    BY <1>0, <1>3, <2>1 DEF WorkTyped, Branches, LockTimeout, ReleaseLock, DeleteBranch, Leave
<1>4. ASSUME NEW p \in Processes, AcquireLock(p) \/ Read(p) \/ Crash(p) PROVE WorkTyped'
  BY <1>0, <1>4 DEF WorkTyped, AcquireLock, Read, Crash, workVars
<1>5. ASSUME NEW p \in Processes, Write(p) PROVE WorkTyped'
  BY <1>0, <1>5 DEF WorkTyped, Write, Cleanup
<1>6. CASE Expire \/ LockGrowsOld \/ UNCHANGED vars
  BY <1>0, <1>6 DEF WorkTyped, Expire, LockGrowsOld, vars, workVars
<1>7. QED
  BY <1>1, <1>2, <1>3, <1>4, <1>5, <1>6, <1>8 DEF Next

LEMMA OneWriter ==
    ASSUME Inv, NEW p \in Processes, NEW q \in Processes,
           step[p] \in Inside, step[q] = "write"
    PROVE  p = q
  BY LockInvOneInside DEF Inv, OneInside, Inside

LEMMA InvInit == Init => Inv
<1> SUFFICES ASSUME Init PROVE Inv
  OBVIOUS
<1>1. WorkTyped
  <2>1. branch \in Branches
    BY DEF Init, Branches
  <2>2. QED
    BY <2>1 DEF Init, WorkTyped, Branches
<1>2. QED
  BY <1>1, LockInitInv, WorktreeOwnerAssumption
  DEF Init, LockInit, Inv, TypeOK, WorkTyped, LockInv, Owners, Steps, Inside, ClaimsHonoured

-----------------------------------------------------------------------------
(* Types, with killed and suspended processes and processes of no task.     *)

Typed ==
    /\ TypeOK
    /\ \A p \in Processes : Is(p, {"claim", "take over", "ready"}) => TaskOf[p] \in Tasks

LEMMA OwnerTypes ==
    ASSUME NEW t \in Tasks, NEW c \in ChangesOrNone
    PROVE  /\ Owner(t, c) \in Owners
           /\ ClaimOf(Owner(t, c)) \in [task : Tasks, change : ChangesOrNone]
  BY DEF Owner, Owners, ClaimOf

LEMMA TypedStep ==
    ASSUME Typed, [Next]_vars
    PROVE  Typed'
<1>1. LockTypeOK'
  <2>1. \/ \E p \in Processes : Wait(p) \/ Acquiring(p) \/ GiveUp(p) \/ Release(p) \/ Kill(p)
        \/ GrowOld
        \/ UNCHANGED lockVars
    BY DEF Next, Start, AcquireLock, LockTimeout, Read, Write, ReleaseLock, DeleteBranch, Crash,
       Expire, LockGrowsOld, Edit, Commit, Integrate, StartRelease, EndRelease, vars
  <2>2. QED
    BY <2>1, LockTypeStep DEF Typed, TypeOK
<1>2. WorkTyped'
  BY WorkTypes DEF Typed
<1>3. ASSUME NEW p \in Processes
      PROVE  command[p].change \in ChangesOrNone /\ seen[p].change \in ChangesOrNone
  <2>1. command[p] \in Commands \cup {NoCommand} /\ seen[p] \in Owners
    BY DEF Typed, TypeOK
  <2>2. NoChange \in ChangesOrNone
    BY DEF ChangesOrNone
  <2>3. command[p].change \in ChangesOrNone
    BY <2>1, <2>2 DEF Commands, NoCommand
  <2>4. seen[p].change \in ChangesOrNone
    BY <2>1, <2>2 DEF Owners, NoOwner
  <2>5. QED
    BY <2>3, <2>4
<1>4. NoOwner \in Owners /\ NoCommand \in Commands \cup {NoCommand}
  BY DEF Owners
<1>5. ASSUME NEW p \in Processes, NEW cmd \in Commands, Start(p, cmd) PROVE Typed'
  <2>1. TaskOf[p] # NoTask => TaskOf[p] \in Tasks
    BY WorktreeOwnerAssumption
  <2>2. commands' \in Nat
    <3>1. commands \in Nat /\ commands' = commands + 1
      BY <1>5 DEF Start, Typed, TypeOK
    <3>2. QED
      BY <3>1
  <2>3. TypeOK'
    BY <1>1, <1>2, <1>5, <2>2 DEF Start, Typed, TypeOK, WorkTyped, Steps
  <2>4. QED
    BY <1>5, <2>1, <2>3 DEF Start, Typed, TypeOK, Is
<1>6. ASSUME NEW p \in Processes,
             LockTimeout(p) \/ ReleaseLock(p) \/ DeleteBranch(p) \/ Crash(p)
      PROVE  Typed'
  <2>1. UNCHANGED <<owner, worktree, commands, claims>>
    BY <1>6 DEF LockTimeout, ReleaseLock, DeleteBranch, Crash
  <2>2. \/ command' = [command EXCEPT ![p] = NoCommand] /\ seen' = [seen EXCEPT ![p] = NoOwner]
        \/ UNCHANGED <<command, seen>>
    BY <1>6 DEF LockTimeout, ReleaseLock, DeleteBranch, Crash, Leave
  <2>3. \E s \in Steps : step' = [step EXCEPT ![p] = s]
    BY <1>6 DEF LockTimeout, ReleaseLock, DeleteBranch, Crash, Leave, Steps
  <2>4. TypeOK'
    BY <1>1, <1>2, <1>4, <2>1, <2>2, <2>3 DEF Typed, TypeOK, WorkTyped
  <2>5. ASSUME NEW q \in Processes, NEW k \in {"claim", "take over", "ready"},
               command'[q].kind = k
        PROVE  command[q].kind = k
    <3>1. NoCommand.kind # k
      BY DEF NoCommand
    <3>2. command'[q] \in {NoCommand, command[q]}
      BY <2>2 DEF Typed, TypeOK
    <3>3. QED
      BY <2>5, <3>1, <3>2
  <2>6. QED
    BY <2>4, <2>5 DEF Typed, Is
<1>7. ASSUME NEW p \in Processes, AcquireLock(p) \/ Read(p) PROVE Typed'
  <2>1. UNCHANGED <<owner, worktree, command, commands, claims>>
    BY <1>7 DEF AcquireLock, Read
  <2>2. seen' = seen \/ seen' = [seen EXCEPT ![p] = owner]
    BY <1>7 DEF AcquireLock, Read
  <2>3. \E s \in Steps : step' = [step EXCEPT ![p] = s]
    BY <1>7 DEF AcquireLock, Read, Steps, Typed, TypeOK
  <2>4. TypeOK'
    BY <1>1, <1>2, <2>1, <2>2, <2>3 DEF Typed, TypeOK, WorkTyped
  <2>5. QED
    BY <2>1, <2>4 DEF Typed, Is
<1>8. ASSUME NEW p \in Processes, Write(p) PROVE Typed'
  <2>1. owner' \in Owners /\ claims' \subseteq [task : Tasks, change : ChangesOrNone]
    <3>1. CASE Claim(p)
      <4>1. PICK o : o = NewOwner(p)
        OBVIOUS
      <4>2. TaskOf[p] \in Tasks
        BY <3>1 DEF Claim, Typed, Is
      <4>3. o \in Owners /\ ClaimOf(o) \in [task : Tasks, change : ChangesOrNone]
        BY <1>3, <4>1, <4>2, OwnerTypes DEF NewOwner
      <4>4. QED
        BY <3>1, <4>1, <4>3 DEF Claim, Typed, TypeOK
    <3>2. CASE ReleaseOwner(p) \/ CleanupFails(p) \/ Cleanup(p)
      BY <1>4, <3>2 DEF ReleaseOwner, CleanupFails, Cleanup, Typed, TypeOK
    <3>3. QED
      BY <1>8, <3>1, <3>2 DEF Write
  <2>2. worktree' \in BOOLEAN
    BY <1>8 DEF Write, Claim, ReleaseOwner, CleanupFails, Cleanup, Typed, TypeOK
  <2>3. \E s \in Steps : step' = [step EXCEPT ![p] = s]
    BY <1>8 DEF Write, Steps
  <2>4. UNCHANGED <<command, seen, commands>>
    BY <1>8 DEF Write
  <2>5. TypeOK'
    BY <1>1, <1>2, <2>1, <2>2, <2>3, <2>4 DEF Typed, TypeOK, WorkTyped
  <2>6. QED
    BY <2>4, <2>5 DEF Typed, Is
<1>9. CASE Expire
  <2>1. [owner EXCEPT !.active = FALSE] \in Owners
    <3>1. owner \in Owners /\ owner # NoOwner
      <4>1. owner \in Owners /\ owner.active
        BY <1>9 DEF Expire, Typed, TypeOK
      <4>2. NoOwner.active = FALSE
        BY DEF NoOwner
      <4>3. owner # NoOwner
        BY <4>1, <4>2
      <4>4. QED
        BY <4>1, <4>3
    <3>2. owner \in [task : Tasks, change : ChangesOrNone, active : BOOLEAN]
      BY <3>1 DEF Owners
    <3>3. [owner EXCEPT !.active = FALSE] \in [task : Tasks, change : ChangesOrNone, active : BOOLEAN]
      BY <3>2
    <3>4. QED
      BY <3>3 DEF Owners
  <2>2. QED
    BY <1>1, <1>2, <1>9, <2>1 DEF Expire, Typed, TypeOK, WorkTyped, Is
<1>10. CASE LockGrowsOld \/ Edit \/ Commit \/ Integrate \/ StartRelease \/ EndRelease \/ UNCHANGED vars
  <2>1. UNCHANGED ownerVars
    BY <1>10 DEF LockGrowsOld, Edit, Commit, Integrate, StartRelease, EndRelease, vars
  <2>2. QED
    BY <1>1, <1>2, <2>1 DEF ownerVars, Typed, TypeOK, WorkTyped, Is
<1>11. QED
  BY <1>5, <1>6, <1>7, <1>8, <1>9, <1>10 DEF Next

(* Whatever is killed, suspended or started, the owner file names a task,   *)
(* never a process that has none, and the commands are of their types.      *)
THEOREM OwnersTyped == Spec => []TypeOK
<1>1. Init => Typed
  <2> SUFFICES ASSUME Init PROVE Typed
    OBVIOUS
  <2>1. NoCommand.kind \notin {"claim", "take over", "ready"}
    BY DEF NoCommand
  <2>2. \A p \in Processes : command[p] = NoCommand
    BY DEF Init
  <2>3. QED
    BY <2>1, <2>2, InvInit DEF Inv, Typed, Is
<1>2. QED
  BY <1>1, TypedStep, PTL DEF Spec, Typed

-----------------------------------------------------------------------------
(* A step that leaves the owner, the claims and all commands but p's alone. *)
LEMMA StepOfOne ==
    ASSUME Undisturbed, Inv, NEW p \in Processes,
           Wait(p) \/ Acquiring(p) \/ GiveUp(p) \/ Release(p) \/ UNCHANGED lockVars,
           UNCHANGED <<owner, claims>>,
           commands' \in Nat,
           worktree' \in BOOLEAN,
           command' \in [Processes -> Commands \cup {NoCommand}],
           seen' \in [Processes -> Owners],
           step' \in [Processes -> Steps],
           \A q \in Processes \ {p} :
              command'[q] = command[q] /\ seen'[q] = seen[q] /\ step'[q] = step[q],
           WorkTyped',
           step'[p] \in Inside <=> phase'[p] = "in",
           step'[p] # "idle" => command'[p] \in Commands,
           step'[p] = "write" => SeenOwner(p)' /\ Allowed(p, seen[p])'
    PROVE  Inv'
<1>1. LockInv'
  BY LockStep DEF Undisturbed, Inv
<1>2. TypeOK'
  BY <1>1 DEF Inv, TypeOK, LockInv, WorkTyped
<1>3. \A q \in Processes \ {p} : phase'[q] = phase[q]
  BY DEF Wait, Acquiring, Acquire, FindOld, RemoveOld, GiveUp, Release, lockVars, Inv, LockInv,
     LockTypeOK
<1>4. \A q \in Processes \ {p} : step'[q] = "write" => SeenOwner(q)' /\ Allowed(q, seen[q])'
  BY DEF Inv, SeenOwner, Allowed, Is, Foreign
<1>5. ClaimsHonoured'
  BY DEF Inv, ClaimsHonoured
<1>6. QED
  BY <1>1, <1>2, <1>3, <1>4, <1>5 DEF Inv

LEMMA InvStep ==
    ASSUME Undisturbed, Inv, [Next]_vars
    PROVE  Inv'
<1>0. /\ command \in [Processes -> Commands \cup {NoCommand}]
      /\ seen \in [Processes -> Owners]
      /\ step \in [Processes -> Steps]
      /\ phase \in [Processes -> Phases]
      /\ owner \in Owners
      /\ NoOwner \in Owners
  BY DEF Inv, TypeOK, LockTypeOK, Owners
<1>w. WorkTyped'
  BY WorkTypes DEF Inv
<1>1. ASSUME NEW p \in Processes, NEW cmd \in Commands, Start(p, cmd) PROVE Inv'
  <2>1. phase'[p] = "waiting" /\ step'[p] = "acquire"
    BY <1>0, <1>1 DEF Start, Wait
  <2>2. command' \in [Processes -> Commands \cup {NoCommand}] /\ step' \in [Processes -> Steps]
    BY <1>0, <1>1 DEF Start, Steps
  <2>3. /\ command' = [command EXCEPT ![p] = cmd] /\ commands' = commands + 1
        /\ DOMAIN command = Processes /\ commands \in Nat
    BY <1>0, <1>1 DEF Start, Inv, TypeOK
  <2>7. command'[p] \in Commands /\ commands' \in Nat
    BY <2>3, <1>1
  <2>4. Wait(p) /\ UNCHANGED <<owner, claims, worktree, seen>>
    BY <1>1 DEF Start
  <2>5. \A q \in Processes \ {p} : command'[q] = command[q] /\ step'[q] = step[q]
    BY <1>0, <1>1 DEF Start
  <2>6. QED
    BY <1>0, <1>w, <2>1, <2>2, <2>7, <2>4, <2>5, StepOfOne DEF Inv, TypeOK, Inside
<1>2. ASSUME NEW p \in Processes, AcquireLock(p) PROVE Inv'
  <2>1. phase'[p] # "in" => phase[p] = "waiting" \/ phase[p] = "removing"
    BY <1>2 DEF AcquireLock, Acquiring, Acquire, FindOld, RemoveOld
  <2>2. step'[p] \in {"read", "acquire"} /\ (step'[p] = "read" <=> phase'[p] = "in")
    BY <1>0, <1>2 DEF AcquireLock
  <2>3. QED
    BY <1>0, <1>w, <1>2, <2>1, <2>2, StepOfOne DEF AcquireLock, Inv, TypeOK, Steps, Inside
<1>3. ASSUME NEW p \in Processes, LockTimeout(p) \/ ReleaseLock(p) \/ DeleteBranch(p)
      PROVE  Inv'
  <2>1. phase'[p] # "in" /\ step'[p] \in {"idle", "branch"}
    BY <1>0, <1>3 DEF LockTimeout, ReleaseLock, DeleteBranch, GiveUp, Release, Leave, Inv, Inside,
       lockVars
  <2>2. step'[p] # "idle" => step[p] # "idle" /\ UNCHANGED command
    BY <1>0, <1>3 DEF LockTimeout, ReleaseLock, DeleteBranch, Leave
  <2>3. step'[p] # "idle" => command'[p] \in Commands
    BY <2>2 DEF Inv
  <2>4. /\ step' \in [Processes -> Steps]
        /\ command' \in [Processes -> Commands \cup {NoCommand}]
        /\ seen' \in [Processes -> Owners]
        /\ \A q \in Processes \ {p} :
              command'[q] = command[q] /\ seen'[q] = seen[q] /\ step'[q] = step[q]
        /\ UNCHANGED <<owner, claims, worktree, commands>>
        /\ GiveUp(p) \/ Release(p) \/ UNCHANGED lockVars
    BY <1>0, <1>3 DEF LockTimeout, ReleaseLock, DeleteBranch, Leave, Steps
  <2>5. QED
    BY <1>w, <2>1, <2>3, <2>4, StepOfOne DEF Inv, TypeOK, Inside
<1>4. ASSUME NEW p \in Processes, Read(p) PROVE Inv'
  <2>1. seen'[p] = owner /\ step'[p] \in {"write", "release"} /\ UNCHANGED lockVars
    BY <1>0, <1>4 DEF Read
  <2>2. phase'[p] = "in"
    BY <1>4, <2>1 DEF Read, Inv, Inside, lockVars
  <2>3. SeenOwner(p)'
    BY <1>4, <2>1 DEF Read, SeenOwner
  <2>4. step'[p] = "write" => Allowed(p, seen[p])'
    BY <1>0, <1>4, <2>1 DEF Read, Allowed, Is, Foreign
  <2>5. QED
    BY <1>0, <1>w, <1>4, <2>1, <2>2, <2>3, <2>4, StepOfOne DEF Read, Inv, TypeOK, Steps, Inside
<1>5. ASSUME NEW p \in Processes, Write(p) PROVE Inv'
  <2>1. /\ step[p] = "write"
        /\ \E to \in {"release", "removed"} : step' = [step EXCEPT ![p] = to]
        /\ UNCHANGED <<command, seen, commands, lock, phase, crashes, stalls>>
        /\ UNCHANGED lockVars
    BY <1>5 DEF Write, lockVars
  <2>2. LockInv'
    BY <2>1, LockStep DEF Undisturbed, Inv
  <2>3. /\ \A q \in Processes : step'[q] # "write"
        /\ step' \in [Processes -> Steps]
        /\ \A q \in Processes : step'[q] \in Inside <=> phase'[q] = "in"
        /\ \A q \in Processes : step'[q] # "idle" => command'[q] \in Commands
    <3>1. \A q \in Processes : q # p => step'[q] = step[q] /\ step[q] # "write"
      BY <1>0, <2>1, OneWriter DEF Inside
    <3>2. step'[p] \in {"release", "removed"} /\ step' \in [Processes -> Steps]
      BY <1>0, <2>1 DEF Steps
    <3>3. QED
      BY <2>1, <3>1, <3>2 DEF Inv, Inside
  <2>4. /\ TaskOf[p] \in Tasks
        /\ command[p] \in Commands
        /\ SeenOwner(p) /\ Allowed(p, seen[p])
        /\ \A c \in claims : c.task = owner.task /\ owner.active
        /\ claims \subseteq [task : Tasks, change : ChangesOrNone]
    BY <2>1 DEF Undisturbed, Inv, ClaimsHonoured, Owner, TypeOK
  <2>5. ClaimsOf(owner.task) = claims
    BY <2>4 DEF ClaimsOf
  <2>6. CASE Claim(p)
    <3>0. command[p].change \in ChangesOrNone /\ seen[p].change \in ChangesOrNone
      BY <1>0, <2>4 DEF Owners, NoOwner, Commands, ChangesOrNone
    <3>1. owner' = NewOwner(p) /\ owner' \in Owners
      BY <2>4, <2>6, <3>0 DEF Claim, NewOwner, Owner, Owners
    <3>2. claims \ (ClaimsOf(TaskOf[p]) \cup (IF Forced(p) THEN ClaimsOf(seen[p].task) ELSE {})) = {}
      <4>1. CASE Forced(p)
        BY <2>4, <2>5, <4>1 DEF SeenOwner
      <4>2. CASE ~Forced(p)
        <5>1. ~Foreign(p, seen[p])
          BY <2>4, <2>6, <4>2 DEF Claim, Forced, Is, Allowed
        <5>2. owner.active => owner.task = TaskOf[p]
          BY <2>4, <5>1, WorktreeOwnerAssumption DEF Foreign, SeenOwner
        <5>3. QED
          BY <2>4, <2>5, <4>2, <5>2
      <4>3. QED
        BY <4>1, <4>2
    <3>3. claims' = {ClaimOf(NewOwner(p))}
      BY <2>6, <3>2 DEF Claim
    <3>4. /\ claims' \subseteq [task : Tasks, change : ChangesOrNone]
          /\ ClaimsHonoured'
      BY <2>4, <3>0, <3>1, <3>3 DEF ClaimOf, NewOwner, Owner, ClaimsHonoured
    <3>5. worktree' = worktree
      BY <2>6 DEF Claim
    <3>6. QED
      BY <1>0, <1>w, <2>1, <2>2, <2>3, <3>1, <3>4, <3>5 DEF Inv, TypeOK, WorkTyped, LockInv
  <2>7. CASE ReleaseOwner(p)
    <3>1. claims' = {}
      <4>1. CASE Forced(p)
        BY <2>4, <2>5, <2>7, <4>1 DEF ReleaseOwner, SeenOwner, Forced, Is
      <4>2. CASE Is(p, {"release"})
        <5>1. ~Foreign(p, seen[p])
          BY <2>4, <4>2 DEF Allowed, Is
        <5>2. owner.active => owner.task = TaskOf[p]
          BY <2>4, <5>1, WorktreeOwnerAssumption DEF Foreign, SeenOwner
        <5>3. claims' = claims \ ClaimsOf(TaskOf[p])
          BY <2>7, <4>2 DEF ReleaseOwner, Forced, Is
        <5>4. QED
          BY <2>4, <2>5, <5>2, <5>3
      <4>3. CASE Is(p, {"ready"})
        <5>1. owner.task = TaskOf[p] /\ owner.change = command[p].change
          BY <2>4, <4>3 DEF Allowed, Is, SeenOwner
        <5>2. claims \subseteq {[task |-> TaskOf[p], change |-> command[p].change]}
          BY <2>4, <5>1 DEF Inv, ClaimsHonoured, Owner
        <5>3. QED
          BY <2>7, <4>3, <5>2 DEF ReleaseOwner
      <4>4. QED
        BY <2>7, <4>1, <4>2, <4>3 DEF ReleaseOwner, Forced, Is
    <3>2. owner' = NoOwner /\ worktree' = worktree
      BY <2>7 DEF ReleaseOwner
    <3>3. QED
      BY <1>0, <1>w, <2>1, <2>2, <2>3, <3>1, <3>2 DEF Inv, TypeOK, WorkTyped, LockInv, ClaimsHonoured
  <2>8. CASE Cleanup(p)
    <3>1. claims = {}
      BY <2>4, <2>8 DEF Cleanup, Allowed, Is, SeenOwner
    <3>2. claims' = {} /\ owner' = NoOwner /\ worktree' \in BOOLEAN
      BY <2>8, <3>1 DEF Cleanup
    <3>3. QED
      BY <1>0, <1>w, <2>1, <2>2, <2>3, <3>2 DEF Inv, TypeOK, WorkTyped, LockInv, ClaimsHonoured
  <2>9. CASE CleanupFails(p)
    BY <1>0, <1>w, <2>1, <2>2, <2>3, <2>9
    DEF Inv, TypeOK, WorkTyped, LockInv, ClaimsHonoured, CleanupFails
  <2>10. QED
    BY <1>5, <2>6, <2>7, <2>8, <2>9 DEF Write
<1>6. ASSUME NEW p \in Processes, Crash(p) PROVE Inv'
  BY <1>6 DEF Crash, Kill, Undisturbed, Inv, LockInv, LockTypeOK
<1>7. CASE Expire
  <2>0. owner' \in Owners
    <3>1. owner \in [task : Tasks, change : ChangesOrNone, active : BOOLEAN]
      BY <1>0, <1>7 DEF Expire, Owners, NoOwner
    <3>2. QED
      BY <1>7, <3>1 DEF Expire, Owners
  <2>1. /\ owner' = [owner EXCEPT !.active = FALSE] /\ owner.active
        /\ claims' = claims \ ClaimsOf(owner.task)
        /\ UNCHANGED <<worktree, command, seen, step, commands, lock, phase, crashes, stalls>>
        /\ UNCHANGED lockVars
    BY <1>7 DEF Expire, lockVars
  <2>2. claims' = {}
    BY <2>1 DEF ClaimsOf, Inv, ClaimsHonoured, Owner
  <2>3. LockInv'
    BY <2>1, LockStep DEF Undisturbed, Inv
  <2>4. \A p \in Processes : step'[p] = "write" => SeenOwner(p)' /\ Allowed(p, seen[p])'
    BY <1>0, <2>1 DEF Inv, SeenOwner, Allowed, Is, Foreign, Owners, NoOwner
  <2>5. QED
    BY <1>0, <1>w, <2>0, <2>1, <2>2, <2>3, <2>4 DEF Inv, TypeOK, WorkTyped, LockInv, ClaimsHonoured
<1>8. CASE LockGrowsOld
  BY <1>8 DEF LockGrowsOld, GrowOld, Undisturbed, Inv, LockInv, LockTypeOK
<1>9. CASE \/ Edit \/ Commit \/ Integrate \/ StartRelease \/ EndRelease
           \/ UNCHANGED vars
  <2>1. UNCHANGED <<ownerVars, lockVars>>
    BY <1>9 DEF Edit, Commit, Integrate, StartRelease, EndRelease, vars
  <2>2. LockInv'
    BY <2>1, LockStep DEF Undisturbed, Inv
  <2>3. QED
    BY <1>w, <2>1, <2>2 DEF ownerVars, lockVars, Inv, TypeOK, WorkTyped, LockInv, SeenOwner,
       Allowed, Is, Foreign, ClaimsHonoured
<1>10. QED
  BY <1>1, <1>2, <1>3, <1>4, <1>5, <1>6, <1>7, <1>8, <1>9 DEF Next

LEMMA InvAlways ==
    ASSUME Undisturbed
    PROVE  Spec => []Inv
<1>1. Inv /\ [Next]_vars => Inv'
  BY InvStep
<1>2. QED
  BY <1>1, InvInit, PTL DEF Spec

(* For any number of tasks, processes and changes: who has claimed the      *)
(* worktree keeps it until the claim expires, is given up by its task or is *)
(* taken by force; there is never a second task with a claim.               *)
THEOREM ClaimsAreHonoured ==
    ASSUME Undisturbed
    PROVE  Spec => []ClaimsHonoured
<1>1. Inv => ClaimsHonoured
  BY DEF Inv
<1>2. QED
  BY <1>1, InvAlways, PTL

(* What cleanup relies on outside the lock, or when it has given it back:   *)
(* no release has left a record since it looked, which needs a claim, and   *)
(* the head that it planned with is in main.                                *)
CleanupInv ==
    \A p \in Processes :
       /\ planned[p] <= branch.head
       /\ step[p] = "write" /\ Is(p, {"cleanup"}) => ~releasing
       /\ \/ step[p] \in {"removed", "branch"}
          \/ step[p] = "write" /\ Is(p, {"cleanup"})
          => (branch.head = planned[p] => branch.merged = branch.head)

LEMMA CleanupInvInit == Init => CleanupInv
<1> SUFFICES ASSUME Init PROVE CleanupInv
  OBVIOUS
<1>1. branch.head = 0 /\ 0 <= 0
  BY DEF Init
<1>2. \A p \in Processes : planned[p] = 0 /\ step[p] = "idle"
  BY DEF Init
<1>3. QED
  BY <1>1, <1>2 DEF CleanupInv

LEMMA NoClaimWhileCleaning ==
    ASSUME Inv, NEW p \in Processes, step[p] = "write", Is(p, {"cleanup"})
    PROVE  claims = {}
  BY DEF Inv, ClaimsHonoured, Owner, Allowed, Is, SeenOwner

LEMMA CleanupInvStep ==
    ASSUME Inv, CleanupInv, [Next]_vars
    PROVE  CleanupInv'
<1>0. /\ command \in [Processes -> Commands \cup {NoCommand}]
      /\ step \in [Processes -> Steps]
      /\ branch \in [exists : BOOLEAN, head : Nat, merged : Nat]
      /\ planned \in [Processes -> Nat]
      /\ releasing \in BOOLEAN
  BY DEF Inv, TypeOK
<1>1. ASSUME NEW p \in Processes, NEW cmd \in Commands, Start(p, cmd) PROVE CleanupInv'
  <2>1. UNCHANGED <<branch, releasing>> /\ branch.head \in Nat
    BY <1>0, <1>1 DEF Start
  <2>2. \A q \in Processes : planned'[q] \in {planned[q], branch.head, 0}
    BY <1>0, <1>1 DEF Start
  <2>3. step'[p] = "acquire"
    BY <1>0, <1>1 DEF Start
  <2>4. \A q \in Processes \ {p} :
           step'[q] = step[q] /\ planned'[q] = planned[q] /\ command'[q] = command[q]
    BY <1>0, <1>1 DEF Start
  <2>5. \A q \in Processes : planned'[q] <= branch.head
    BY <1>0, <2>1, <2>2 DEF CleanupInv
  <2>6. QED
    BY <2>1, <2>3, <2>4, <2>5 DEF CleanupInv, Is
<1>2. ASSUME NEW p \in Processes, AcquireLock(p) PROVE CleanupInv'
  BY <1>0, <1>2 DEF AcquireLock, workVars, CleanupInv, Is
<1>3. ASSUME NEW p \in Processes, LockTimeout(p) PROVE CleanupInv'
  BY <1>0, <1>3 DEF LockTimeout, Leave, CleanupInv, Is
<1>4. ASSUME NEW p \in Processes, Read(p) PROVE CleanupInv'
  BY <1>0, <1>4 DEF Read, workVars, Removable, StillRemovable, CleanupInv, Is
<1>5. ASSUME NEW p \in Processes, Write(p) PROVE CleanupInv'
  BY <1>0, <1>5 DEF Write, Cleanup, CleanupInv, Is
<1>6. ASSUME NEW p \in Processes, ReleaseLock(p) PROVE CleanupInv'
  BY <1>0, <1>6 DEF ReleaseLock, Leave, CleanupInv, Is
<1>7. ASSUME NEW p \in Processes, DeleteBranch(p) PROVE CleanupInv'
  BY <1>0, <1>7 DEF DeleteBranch, Leave, CleanupInv, Is
<1>8. ASSUME NEW p \in Processes, Crash(p) PROVE CleanupInv'
  BY <1>0, <1>8 DEF Crash, workVars, CleanupInv, Is
<1>9. CASE Commit
  <2>1. branch'.head = branch.head + 1 /\ branch.head \in Nat
    BY <1>0, <1>9, BranchTypes DEF Commit, Branches
  <2>2. \A p \in Processes : planned[p] <= branch'.head /\ branch'.head # planned[p]
    BY <1>0, <2>1 DEF CleanupInv
  <2>3. QED
    BY <1>9, <2>2 DEF Commit, ownerVars, CleanupInv, Is
<1>10. CASE Integrate
  BY <1>0, <1>10 DEF Integrate, ownerVars, CleanupInv, Is
<1>11. CASE StartRelease
  <2>1. \A p \in Processes : ~(step[p] = "write" /\ Is(p, {"cleanup"}))
    BY <1>11, NoClaimWhileCleaning DEF StartRelease
  <2>2. QED
    BY <1>11, <2>1 DEF StartRelease, ownerVars, CleanupInv, Is
<1>12. CASE Edit \/ EndRelease \/ Expire \/ LockGrowsOld \/ UNCHANGED vars
  BY <1>0, <1>12
  DEF Edit, EndRelease, Expire, LockGrowsOld, vars, workVars, ownerVars, CleanupInv, Is
<1>13. QED
  BY <1>1, <1>2, <1>3, <1>4, <1>5, <1>6, <1>7, <1>8, <1>9, <1>10, <1>11, <1>12 DEF Next

(* Under the same condition cleanup never removes a claimed worktree, or    *)
(* one with records of a release or files that are not committed, nor a     *)
(* branch with commits of its own: what it saw under the lock is still so   *)
(* when it removes, and the branch is compared once more.                   *)
THEOREM CleanupIsSafe ==
    ASSUME Undisturbed
    PROVE  Spec => CleanupSparesWork
<1>1. ASSUME Inv, CleanupInv, [Next]_vars, worktree, ~worktree'
      PROVE  claims = {} /\ ~releasing /\ ~dirty
  <2>1. PICK p \in Processes : Write(p) /\ Cleanup(p)
    BY <1>1
    DEF Next, vars, ownerVars, Start, AcquireLock, LockTimeout, Read, Write, Claim, ReleaseOwner,
        CleanupFails, ReleaseLock, DeleteBranch, Crash, Expire, LockGrowsOld, Edit, Commit,
        Integrate, StartRelease, EndRelease
  <2>2. step[p] = "write" /\ Is(p, {"cleanup"}) /\ ~dirty
    BY <2>1 DEF Write, Cleanup
  <2>3. QED
    BY <1>1, <2>2, NoClaimWhileCleaning DEF CleanupInv
<1>2. ASSUME Inv, CleanupInv, [Next]_vars, branch.exists, ~branch'.exists
      PROVE  branch.head = branch.merged
  <2>1. branch \in [exists : BOOLEAN, head : Nat, merged : Nat]
    BY <1>2 DEF Inv, TypeOK
  <2>2. PICK p \in Processes : DeleteBranch(p)
    BY <1>2, <2>1
    DEF Next, vars, workVars, Start, AcquireLock, LockTimeout, Read, Write, ReleaseLock, Crash,
        Expire, LockGrowsOld, Edit, Commit, Integrate, StartRelease, EndRelease
  <2>3. QED
    BY <1>2, <2>1, <2>2 DEF DeleteBranch, CleanupInv
<1>3. Inv /\ CleanupInv /\ [Next]_vars
        => [/\ worktree /\ ~worktree' => claims = {} /\ ~releasing /\ ~dirty
            /\ branch.exists /\ ~branch'.exists => branch.head = branch.merged]_vars
  BY <1>1, <1>2
<1>4. Inv /\ CleanupInv /\ [Next]_vars => CleanupInv'
  BY CleanupInvStep
<1>5. QED
  BY <1>3, <1>4, CleanupInvInit, InvAlways, PTL DEF Spec, CleanupSparesWork
=============================================================================
