------------------------------ MODULE LockFile ------------------------------
(***************************************************************************)
(* The lock file with which processes of one machine take turns at a file  *)
(* of the workspace (lib/config.js; lib/worktree-owner.js has the same     *)
(* protocol).  The lock is the existence of the file.  A process that      *)
(* finds it older than 30 s removes it, whoever made it: looking at its    *)
(* age and removing it are two system calls, and both a removal and the    *)
(* release name the file by its path.                                      *)
(***************************************************************************)
EXTENDS Naturals

CONSTANTS
    Processes,
    MaxCrashes,    \* bound: processes killed
    MaxStalls      \* bound: lock holders suspended for 30 s

ASSUME LockFileAssumption ==
    /\ MaxCrashes \in Nat
    /\ MaxStalls \in Nat
    /\ "none" \notin Processes

VARIABLES
    lock,      \* NoLock, or who made the lock file and whether it is old
    phase,     \* phase[p]: where p is in acquire and release
    crashes,
    stalls

lockVars == <<lock, phase, crashes, stalls>>

NoLock == [by |-> "none", old |-> FALSE]
Phases == {"out", "waiting", "removing", "in"}

LockTypeOK ==
    /\ lock \in {NoLock} \cup [by : Processes, old : BOOLEAN]
    /\ phase \in [Processes -> Phases]
    /\ crashes \in Nat
    /\ stalls \in Nat

LockInit ==
    /\ lock = NoLock
    /\ phase = [p \in Processes |-> "out"]
    /\ crashes = 0
    /\ stalls = 0

Wait(p) ==
    /\ phase[p] = "out"
    /\ phase' = [phase EXCEPT ![p] = "waiting"]
    /\ UNCHANGED <<lock, crashes, stalls>>

(* openSync(lockFile, 'wx').                                                *)
AcquireWithoutExcl(p) ==
    /\ phase[p] = "waiting"
    /\ lock' = [by |-> p, old |-> FALSE]
    /\ phase' = [phase EXCEPT ![p] = "in"]
    /\ UNCHANGED <<crashes, stalls>>

Acquire(p) ==
    /\ phase[p] = "waiting"
    /\ lock = NoLock
    /\ lock' = [by |-> p, old |-> FALSE]
    /\ phase' = [phase EXCEPT ![p] = "in"]
    /\ UNCHANGED <<crashes, stalls>>

FindOldNever(p) == FALSE

(* EEXIST, and statSync shows a lock file older than 30 s.                  *)
FindOld(p) ==
    /\ phase[p] = "waiting"
    /\ lock.old
    /\ phase' = [phase EXCEPT ![p] = "removing"]
    /\ UNCHANGED <<lock, crashes, stalls>>

(* unlinkSync removes the lock file that is there by then, if any.          *)
RemoveOld(p) ==
    /\ phase[p] = "removing"
    /\ lock' = NoLock
    /\ phase' = [phase EXCEPT ![p] = "waiting"]
    /\ UNCHANGED <<crashes, stalls>>

(* 15 s of EEXIST.                                                          *)
GiveUp(p) ==
    /\ phase[p] = "waiting"
    /\ lock # NoLock
    /\ phase' = [phase EXCEPT ![p] = "out"]
    /\ UNCHANGED <<lock, crashes, stalls>>

Release(p) ==
    /\ phase[p] = "in"
    /\ lock' = NoLock
    /\ phase' = [phase EXCEPT ![p] = "out"]
    /\ UNCHANGED <<crashes, stalls>>

(* A lock grows old when its maker is gone, or was suspended meanwhile.     *)
GrowOld ==
    /\ lock # NoLock
    /\ ~lock.old
    /\ phase[lock.by] # "in" \/ stalls < MaxStalls
    /\ lock' = [lock EXCEPT !.old = TRUE]
    /\ stalls' = IF phase[lock.by] = "in" THEN stalls + 1 ELSE stalls
    /\ UNCHANGED <<phase, crashes>>

Kill(p) ==
    /\ phase[p] # "out"
    /\ crashes < MaxCrashes
    /\ phase' = [phase EXCEPT ![p] = "out"]
    /\ crashes' = crashes + 1
    /\ UNCHANGED <<lock, stalls>>

Acquiring(p) == Acquire(p) \/ FindOld(p) \/ RemoveOld(p)

(* Two processes are never between acquire and release at once, as long as  *)
(* no lock is left behind.                                                  *)
OneInside == \A p, q \in Processes : phase[p] = "in" /\ phase[q] = "in" => p = q
=============================================================================
