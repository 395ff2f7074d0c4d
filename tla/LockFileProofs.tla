--------------------------- MODULE LockFileProofs ---------------------------
(* The lock file excludes, as long as no process is killed while it waits   *)
(* for or holds the lock, and none is suspended for 30 s while it holds it. *)
EXTENDS LockFile, TLAPS

LockInv ==
    /\ LockTypeOK
    /\ crashes = 0
    /\ stalls = 0
    /\ ~lock.old
    /\ \A p \in Processes : phase[p] # "removing"
    /\ \A p \in Processes : phase[p] = "in" => lock # NoLock /\ lock.by = p
    /\ lock # NoLock => lock.by \in Processes /\ phase[lock.by] = "in"

LEMMA LockMaker ==
    ASSUME NEW p \in Processes
    PROVE  [by |-> p, old |-> FALSE] # NoLock
  BY LockFileAssumption DEF NoLock

LEMMA LockInitInv == LockInit => LockInv
  BY LockFileAssumption DEF LockInit, LockInv, LockTypeOK, NoLock, Phases

LEMMA LockStep ==
    ASSUME MaxCrashes = 0, MaxStalls = 0, LockInv,
           \/ \E p \in Processes : Wait(p) \/ Acquiring(p) \/ GiveUp(p) \/ Release(p) \/ Kill(p)
           \/ GrowOld
           \/ UNCHANGED lockVars
    PROVE  LockInv'
<1>1. ASSUME NEW p \in Processes, Wait(p) PROVE LockInv'
  BY <1>1 DEF Wait, LockInv, LockTypeOK, Phases
<1>2. ASSUME NEW p \in Processes, Acquire(p) PROVE LockInv'
  <2>1. lock' = [by |-> p, old |-> FALSE] /\ lock' # NoLock
    BY <1>2, LockMaker DEF Acquire
  <2>2. \A q \in Processes : phase[q] # "in"
    BY <1>2 DEF Acquire, LockInv
  <2>3. QED
    BY <1>2, <2>1, <2>2 DEF Acquire, LockInv, LockTypeOK, Phases
<1>3. ASSUME NEW p \in Processes, FindOld(p) \/ RemoveOld(p) \/ Kill(p) PROVE FALSE
  BY <1>3 DEF FindOld, RemoveOld, Kill, LockInv
<1>4. ASSUME NEW p \in Processes, GiveUp(p) PROVE LockInv'
  BY <1>4 DEF GiveUp, LockInv, LockTypeOK, Phases
<1>5. ASSUME NEW p \in Processes, Release(p) PROVE LockInv'
  <2>1. \A q \in Processes : q # p => phase[q] # "in"
    BY <1>5 DEF Release, LockInv
  <2>2. lock' = NoLock /\ ~NoLock.old
    BY <1>5 DEF Release, NoLock
  <2>3. QED
    BY <1>5, <2>1, <2>2 DEF Release, LockInv, LockTypeOK, Phases
<1>6. CASE UNCHANGED lockVars
  BY <1>6 DEF lockVars, LockInv, LockTypeOK
<1>7. ASSUME GrowOld PROVE FALSE
  BY <1>7 DEF GrowOld, LockInv
<1>8. QED
  BY <1>1, <1>2, <1>3, <1>4, <1>5, <1>6, <1>7 DEF Acquiring

(* The lock keeps its type also when processes are killed or suspended.     *)
LEMMA LockTypeStep ==
    ASSUME LockTypeOK,
           \/ \E p \in Processes : Wait(p) \/ Acquiring(p) \/ GiveUp(p) \/ Release(p) \/ Kill(p)
           \/ GrowOld
           \/ UNCHANGED lockVars
    PROVE  LockTypeOK'
<1>1. ASSUME NEW p \in Processes,
             Wait(p) \/ Acquiring(p) \/ GiveUp(p) \/ Release(p) \/ Kill(p)
      PROVE  LockTypeOK'
  <2>1. lock' \in {lock, NoLock, [by |-> p, old |-> FALSE]}
    BY <1>1 DEF Wait, Acquiring, Acquire, FindOld, RemoveOld, GiveUp, Release, Kill
  <2>2. \E f \in Phases : phase' = [phase EXCEPT ![p] = f]
    BY <1>1 DEF Wait, Acquiring, Acquire, FindOld, RemoveOld, GiveUp, Release, Kill, Phases
  <2>3. crashes' \in Nat /\ stalls' \in Nat
    BY <1>1 DEF LockTypeOK, Wait, Acquiring, Acquire, FindOld, RemoveOld, GiveUp, Release, Kill
  <2>4. lock' \in {NoLock} \cup [by : Processes, old : BOOLEAN]
    <3>1. [by |-> p, old |-> FALSE] \in [by : Processes, old : BOOLEAN]
      OBVIOUS
    <3>2. QED
      BY <2>1, <3>1 DEF LockTypeOK
  <2>5. phase' \in [Processes -> Phases]
    BY <2>2 DEF LockTypeOK
  <2>6. QED
    BY <2>3, <2>4, <2>5 DEF LockTypeOK
<1>2. CASE GrowOld
  <2>1. lock \in [by : Processes, old : BOOLEAN] /\ lock' = [lock EXCEPT !.old = TRUE]
    BY <1>2 DEF GrowOld, LockTypeOK
  <2>2. lock' \in [by : Processes, old : BOOLEAN]
    BY <2>1
  <2>3. QED
    BY <1>2, <2>2 DEF GrowOld, LockTypeOK
<1>3. CASE UNCHANGED lockVars
  BY <1>3 DEF lockVars, LockTypeOK
<1>4. QED
  BY <1>1, <1>2, <1>3

LEMMA LockInvOneInside == LockInv => OneInside
  BY DEF LockInv, OneInside
=============================================================================
