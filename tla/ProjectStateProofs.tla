------------------------- MODULE ProjectStateProofs -------------------------
(* Theorems about ProjectState: as long as no process is killed inside a    *)
(* save and none is suspended there for 30 s, the lock file works and the   *)
(* three-way merge loses nothing.                                           *)
EXTENDS ProjectState, LockFileProofs

-----------------------------------------------------------------------------
(* The merge.                                                               *)

LEMMA RecordPaths ==
    ASSUME NEW x \in Records
    PROVE  Record(x) \subseteq Paths
<1>1. ASSUME NEW q \in Record(x) PROVE q \in Paths
  <2>1. PICK f \in Fields : q = <<x, f>>
    BY DEF Record
  <2>2. QED
    BY <2>1 DEF Paths
<1>2. QED
  BY <1>1

LEMMA OperationsOfPaths ==
    ASSUME NEW from \in Tree, NEW to \in Tree
    PROVE  /\ \A G \in Operations(from, to) : G \subseteq Paths
           /\ Changed(from, to) \subseteq Paths
           /\ \A q \in Paths : from[q] # to[q] => q \in Changed(from, to)
<1>1. \A G \in Operations(from, to) : G \subseteq Paths
  BY RecordPaths DEF Operations, Deleted
<1>2. ASSUME NEW q \in Paths, from[q] # to[q] PROVE q \in Changed(from, to)
  <2>1. CASE q[1] \in Deleted(from, to)
    <3>1. q \in Record(q[1]) /\ Record(q[1]) \in Operations(from, to)
      BY <2>1 DEF Operations, Record, Paths
    <3>2. QED
      BY <3>1 DEF Changed
  <2>2. CASE q[1] \notin Deleted(from, to)
    <3>1. {q} \in Operations(from, to)
      BY <1>2, <2>2 DEF Operations
    <3>2. QED
      BY <3>1 DEF Changed
  <2>3. QED
    BY <2>1, <2>2
<1>3. QED
  BY <1>1, <1>2 DEF Changed

(* Without a conflict a merge changes the leaves that differ between the    *)
(* two trees, and, updatedAt aside, only where the file still has the value *)
(* of the first.                                                            *)
LEMMA MergeWithoutConflict ==
    ASSUME NEW current \in Tree, NEW from \in Tree, NEW to \in Tree,
           ~Conflict(current, from, to), NEW q \in Paths
    PROVE  /\ Merge(current, from, to)[q] = IF from[q] # to[q] THEN to[q] ELSE current[q]
           /\ Merge(current, from, to)[q] # current[q] /\ q[2] # Stamp => current[q] = from[q]
<1>1. CASE q \notin Changed(from, to)
  <2>1. from[q] = to[q]
    BY <1>1, OperationsOfPaths
  <2>2. QED
    BY <1>1, <2>1 DEF Merge
<1>2. CASE q \in Changed(from, to)
  <2>1. PICK G \in Operations(from, to) : q \in G
    BY <1>2 DEF Changed
  <2>2. \/ Agree(current, from, G)
        \/ Agree(current, to, G)
        \/ IsTimestamp(G)
    BY <2>1 DEF Conflict
  <2>3. Merge(current, from, to)[q] = to[q]
    BY <1>2 DEF Merge
  <2>4. CASE Agree(current, from, G)
    BY <2>1, <2>3, <2>4 DEF Agree
  <2>5. CASE Agree(current, to, G)
    BY <2>1, <2>3, <2>5 DEF Agree
  <2>6. CASE IsTimestamp(G)
    <3>1. PICK x \in Records : G = {<<x, Stamp>>} /\ q = <<x, Stamp>>
      BY <2>1, <2>6 DEF IsTimestamp
    <3>2. from[q] # to[q]
      <4>1. CASE x \in Deleted(from, to)
        BY <3>1, <4>1 DEF Deleted
      <4>2. CASE x \notin Deleted(from, to)
        <5>1. \A y : <<x, Stamp>> \in Record(y) => x = y
          BY DEF Record
        <5>2. ASSUME NEW y \in Deleted(from, to), G = Record(y) PROVE FALSE
          BY <3>1, <4>2, <5>1, <5>2
        <5>3. PICK r \in Paths : from[r] # to[r] /\ G = {r}
          BY <2>1, <5>2 DEF Operations
        <5>4. QED
          BY <2>1, <5>3
      <4>3. QED
        BY <4>1, <4>2
    <3>3. q[2] = Stamp
      BY <3>1
    <3>4. QED
      BY <2>3, <3>2, <3>3
  <2>7. QED
    BY <2>2, <2>4, <2>5, <2>6
<1>3. QED
  BY <1>1, <1>2

LEMMA MergeType ==
    ASSUME NEW current \in Tree, NEW from \in Tree, NEW to \in Tree
    PROVE  Merge(current, from, to) \in Tree
  BY DEF Merge, Tree

-----------------------------------------------------------------------------
(* The commands.                                                            *)

InsideSteps == {"read", "write", "release"}

StateInv ==
    /\ TypeOK
    /\ LockInv
    /\ \A p \in Processes : step[p] \in InsideSteps <=> phase[p] = "in"
    /\ \A p \in Processes : edited[p] = { q \in Paths : base[p][q] # mine[p][q] }
    /\ \A p \in Processes :
          step[p] = "write" =>
             /\ ~Conflict(file, base[p], mine[p])
             /\ merged[p] = Merge(file, base[p], mine[p])
    /\ NoLostUpdate

LEMMA InitStateInv == Init => StateInv
<1> SUFFICES ASSUME Init PROVE StateInv
  OBVIOUS
<1>1. Empty \in Tree
  BY DEF Empty, Tree, Leaves
<1>2. TypeOK
  BY <1>1, LockInitInv DEF Init, TypeOK, LockInv, Steps
<1>3. QED
  BY <1>2, LockInitInv DEF Init, StateInv, NoLostUpdate, InsideSteps, LockInit

(* What the steps of a process do to the others: nothing, while it is not   *)
(* inside the lock.                                                         *)
LEMMA StateStep ==
    ASSUME MaxCrashes = 0, MaxStalls = 0, StateInv, [Next]_vars
    PROVE  StateInv'
<1> USE DEF StateInv, InsideSteps
<1>1. TypeOK /\ LockInv /\ NoLostUpdate
  OBVIOUS
<1>2. LockInv'
  <2>1. \/ \E p \in Processes : Wait(p) \/ Acquiring(p) \/ GiveUp(p) \/ Release(p) \/ Kill(p)
        \/ GrowOld
        \/ UNCHANGED lockVars
    BY DEF Next, Load, SetField, RemoveRecord, Edit, Finish, Save, AcquireLock, LockTimeout,
       Read, Write, ReleaseLock, Crash, LockGrowsOld, vars
  <2>2. QED
    BY <2>1, LockStep
<1>3. ASSUME NEW p \in Processes, Load(p) PROVE StateInv'
  <2>1. /\ base' = [base EXCEPT ![p] = file] /\ mine' = [mine EXCEPT ![p] = file]
        /\ edited' = [edited EXCEPT ![p] = {}] /\ step' = [step EXCEPT ![p] = "loaded"]
        /\ step[p] = "idle" /\ UNCHANGED <<file, merged, saves, kept, lockVars>>
    BY <1>3 DEF Load
  <2>2. TypeOK'
    BY <1>2, <2>1 DEF TypeOK, Steps, LockInv
  <2>3. phase[p] # "in"
    BY <2>1
  <2>4. QED
    BY <1>2, <2>1, <2>2, <2>3 DEF TypeOK, NoLostUpdate, lockVars
<1>4. ASSUME NEW p \in Processes, NEW Q \in SUBSET Paths, NEW v \in Leaves, Edit(p, Q, v)
      PROVE  StateInv'
  <2> DEFINE changed == { q \in Q : mine[p][q] # v }
             next == [q \in Paths |-> IF q \in Q THEN v ELSE mine[p][q]]
  <2>1. /\ mine' = [mine EXCEPT ![p] = next] /\ edited' = [edited EXCEPT ![p] = changed]
        /\ step[p] = "loaded" /\ edited[p] = {}
        /\ UNCHANGED <<file, base, merged, step, saves, kept, lockVars>>
    BY <1>4 DEF Edit
  <2>2. next \in Tree /\ changed \in SUBSET Paths
    BY DEF Tree, TypeOK
  <2>3. changed = { q \in Paths : base[p][q] # next[q] }
    BY <2>1
  <2> HIDE DEF next, changed
  <2>4. TypeOK'
    BY <1>2, <2>1, <2>2 DEF TypeOK, LockInv
  <2>5. QED
    BY <1>2, <2>1, <2>3, <2>4 DEF TypeOK, NoLostUpdate, lockVars
<1>5. ASSUME NEW p \in Processes, SetField(p) \/ RemoveRecord(p) PROVE StateInv'
  <2>1. \A x \in Records, f \in Attributes : {<<x, f>>, <<x, Stamp>>} \in SUBSET Paths
    BY DEF Paths, Fields
  <2>2. \A x \in Records : Record(x) \in SUBSET Paths
    BY RecordPaths
  <2>3. p \in Leaves /\ Absent \in Leaves
    BY DEF Leaves
  <2>4. QED
    BY <1>4, <1>5, <2>1, <2>2, <2>3 DEF SetField, RemoveRecord
<1>6. ASSUME NEW p \in Processes, Save(p) \/ AcquireLock(p) \/ LockTimeout(p) \/ Finish(p)
      PROVE  StateInv'
  <2>1. UNCHANGED <<file, base, mine, merged, edited, kept>>
    BY <1>6 DEF Save, AcquireLock, LockTimeout, Finish
  <2>2. PICK s \in Steps : step' = [step EXCEPT ![p] = s]
    BY <1>6 DEF Save, AcquireLock, LockTimeout, Finish, Steps, TypeOK
  <2>3. TypeOK'
    BY <1>2, <1>6, <2>1, <2>2 DEF TypeOK, LockInv, Save, AcquireLock, LockTimeout, Finish
  <2>4. step'[p] # "write" /\ (step'[p] \in InsideSteps <=> phase'[p] = "in")
    BY <1>6, <2>2 DEF Save, AcquireLock, LockTimeout, Finish, TypeOK, LockInv, LockTypeOK,
       Wait, Acquiring, Acquire, FindOld, RemoveOld, GiveUp, lockVars
  <2>5. \A q \in Processes : q # p => phase'[q] = phase[q]
    BY <1>6 DEF Save, AcquireLock, LockTimeout, Finish, TypeOK, LockInv, LockTypeOK,
       Wait, Acquiring, Acquire, FindOld, RemoveOld, GiveUp, lockVars
  <2>6. QED
    BY <1>2, <2>1, <2>2, <2>3, <2>4, <2>5 DEF TypeOK, NoLostUpdate
<1>7. ASSUME NEW p \in Processes, Read(p) PROVE StateInv'
  <2> DEFINE conflict == Conflict(file, base[p], mine[p])
             m == Merge(file, base[p], mine[p])
  <2>1. /\ step' = [step EXCEPT ![p] = IF conflict THEN "release" ELSE "write"]
        /\ merged' = IF conflict THEN merged ELSE [merged EXCEPT ![p] = m]
        /\ step[p] = "read"
        /\ UNCHANGED <<file, base, mine, saves, edited, kept, lockVars>>
    BY <1>7 DEF Read
  <2>2. m \in Tree
    BY MergeType DEF TypeOK
  <2> HIDE DEF m
  <2>3. TypeOK'
    BY <1>2, <2>1, <2>2 DEF TypeOK, Steps, LockInv
  <2>4. ASSUME NEW q \in Processes, step'[q] = "write"
        PROVE  ~Conflict(file, base[q], mine[q]) /\ merged'[q] = Merge(file, base[q], mine[q])
    BY <2>1, <2>4 DEF TypeOK, m
  <2>5. QED
    BY <1>2, <2>1, <2>3, <2>4 DEF TypeOK, NoLostUpdate, lockVars
<1>8. ASSUME NEW p \in Processes, Write(p) PROVE StateInv'
  <2> DEFINE next == [q \in Paths |-> IF q \in edited[p] THEN mine[p][q] ELSE kept[q]]
  <2>1. /\ file' = merged[p] /\ kept' = next
        /\ base' = [base EXCEPT ![p] = mine[p]]
        /\ edited' = [edited EXCEPT ![p] = {}] /\ step' = [step EXCEPT ![p] = "release"]
        /\ step[p] = "write" /\ UNCHANGED <<mine, merged, saves, lockVars>>
    BY <1>8 DEF Write, Rebase
  <2>2. next \in Tree /\ merged[p] \in Tree
    BY DEF Tree, TypeOK
  <2>3. merged[p] = next
    <3>1. \A q \in Paths : merged[p][q] = next[q]
      BY <2>1, MergeWithoutConflict DEF TypeOK, NoLostUpdate
    <3>2. QED
      BY <2>2, <3>1 DEF Tree
  <2> HIDE DEF next
  <2>4. TypeOK'
    BY <1>2, <2>1, <2>2 DEF TypeOK, Steps, LockInv
  <2>5. \A q \in Processes : step'[q] # "write"
    BY <2>1 DEF LockInv, TypeOK
  <2>6. QED
    BY <1>2, <2>1, <2>3, <2>4, <2>5 DEF TypeOK, NoLostUpdate, lockVars
<1>9. ASSUME NEW p \in Processes, ReleaseLock(p) PROVE StateInv'
  <2>1. /\ UNCHANGED <<file, base, mine, merged, edited, kept>>
        /\ saves' = [saves EXCEPT ![p] = @ + 1] /\ phase' = [phase EXCEPT ![p] = "out"]
    BY <1>9 DEF ReleaseLock, Release
  <2>2. PICK s \in {"loaded", "idle"} : step' = [step EXCEPT ![p] = s]
    BY <1>9 DEF ReleaseLock
  <2>3. TypeOK'
    BY <1>2, <2>1, <2>2 DEF TypeOK, Steps, LockInv
  <2>4. QED
    BY <1>2, <2>1, <2>2, <2>3 DEF TypeOK, LockInv, LockTypeOK, NoLostUpdate
<1>10. ASSUME NEW p \in Processes, Crash(p) PROVE FALSE
  BY <1>10 DEF Crash, Kill, LockInv
<1>11. CASE LockGrowsOld \/ UNCHANGED vars
  <2>1. UNCHANGED <<stateVars, phase>>
    BY <1>11 DEF LockGrowsOld, GrowOld, vars, lockVars
  <2>2. QED
    BY <1>2, <2>1 DEF stateVars, TypeOK, LockInv, NoLostUpdate
<1>12. QED
  BY <1>3, <1>5, <1>6, <1>7, <1>8, <1>9, <1>10, <1>11 DEF Next

LEMMA StateInvariant ==
    ASSUME MaxCrashes = 0, MaxStalls = 0
    PROVE  Spec => []StateInv
<1>1. QED
  BY InitStateInv, StateStep, PTL DEF Spec

LEMMA WriterMoves ==
    ASSUME TypeOK, NEW p \in Processes, [Next]_vars, step[p] = "write", step'[p] = "release"
    PROVE  file' = merged[p]
<1>1. ASSUME NEW q \in Processes, q # p,
             \/ Load(q) \/ SetField(q) \/ RemoveRecord(q) \/ Finish(q) \/ Save(q)
             \/ AcquireLock(q) \/ LockTimeout(q) \/ Read(q) \/ Write(q) \/ ReleaseLock(q)
             \/ Crash(q)
      PROVE  step'[p] = step[p]
  BY <1>1 DEF Load, SetField, RemoveRecord, Edit, Finish, Save, AcquireLock, LockTimeout,
     Read, Write, ReleaseLock, Crash, TypeOK
<1>2. LockGrowsOld \/ UNCHANGED vars => step'[p] = step[p]
  BY DEF LockGrowsOld, stateVars, vars
<1>3. \/ Load(p) \/ SetField(p) \/ RemoveRecord(p) \/ Finish(p) \/ Save(p)
      \/ AcquireLock(p) \/ LockTimeout(p) \/ Read(p) \/ Write(p) \/ ReleaseLock(p)
      \/ Crash(p)
  BY <1>1, <1>2 DEF Next
<1>4. ~Crash(p)
  BY DEF Crash, TypeOK
<1>5. QED
  BY <1>3, <1>4 DEF Load, SetField, RemoveRecord, Edit, Finish, Save, AcquireLock, LockTimeout,
     Read, Write, ReleaseLock

(* A merge, and with it every save, keeps the trees typed, also in a        *)
(* process that is inside the lock together with another one.               *)
LEMMA TypeStep ==
    ASSUME TypeOK, [Next]_vars
    PROVE  TypeOK'
<1>1. LockTypeOK'
  <2>1. \/ \E p \in Processes : Wait(p) \/ Acquiring(p) \/ GiveUp(p) \/ Release(p) \/ Kill(p)
        \/ GrowOld
        \/ UNCHANGED lockVars
    BY DEF Next, Load, SetField, RemoveRecord, Edit, Finish, Save, AcquireLock, LockTimeout,
       Read, Write, ReleaseLock, Crash, LockGrowsOld, vars
  <2>2. QED
    BY <2>1, LockTypeStep DEF TypeOK
<1>2. ASSUME NEW p \in Processes, Load(p) PROVE TypeOK'
  BY <1>1, <1>2 DEF TypeOK, Load, Steps
<1>3. ASSUME NEW p \in Processes, NEW Q \in SUBSET Paths, NEW v \in Leaves, Edit(p, Q, v)
      PROVE  TypeOK'
  <2>1. PICK next, changed :
           /\ next = [q \in Paths |-> IF q \in Q THEN v ELSE mine[p][q]]
           /\ changed = { q \in Q : mine[p][q] # v }
    OBVIOUS
  <2>2. next \in Tree /\ changed \in SUBSET Paths
    BY <2>1 DEF Tree, TypeOK
  <2>3. mine' = [mine EXCEPT ![p] = next] /\ edited' = [edited EXCEPT ![p] = changed]
    BY <1>3, <2>1 DEF Edit
  <2>4. mine' \in [Processes -> Tree] /\ edited' \in [Processes -> SUBSET Paths]
    BY <2>2, <2>3 DEF TypeOK
  <2>5. QED
    BY <1>1, <1>3, <2>4 DEF TypeOK, Edit
<1>4. ASSUME NEW p \in Processes, SetField(p) \/ RemoveRecord(p) PROVE TypeOK'
  <2>1. \A x \in Records, f \in Attributes : {<<x, f>>, <<x, Stamp>>} \in SUBSET Paths
    BY DEF Paths, Fields
  <2>2. \A x \in Records : Record(x) \in SUBSET Paths
    BY RecordPaths
  <2>3. p \in Leaves /\ Absent \in Leaves
    BY DEF Leaves
  <2>4. QED
    BY <1>3, <1>4, <2>1, <2>2, <2>3 DEF SetField, RemoveRecord
<1>5. ASSUME NEW p \in Processes,
             Save(p) \/ AcquireLock(p) \/ LockTimeout(p) \/ ReleaseLock(p) \/ Finish(p) \/ Crash(p)
      PROVE  TypeOK'
  <2>1. UNCHANGED <<file, base, mine, merged, edited, kept>>
    BY <1>5 DEF Save, AcquireLock, LockTimeout, ReleaseLock, Finish, Crash
  <2>2. \E s \in Steps : step' = [step EXCEPT ![p] = s]
    BY <1>5 DEF Save, AcquireLock, LockTimeout, ReleaseLock, Finish, Crash, Steps, TypeOK
  <2>3. \E n \in Nat : saves' = [saves EXCEPT ![p] = n] \/ saves' = saves
    <3>1. saves[p] + 1 \in Nat /\ MaxSaves \in Nat
      BY ProjectStateAssumption DEF TypeOK
    <3>2. QED
      BY <1>5, <3>1 DEF Save, AcquireLock, LockTimeout, ReleaseLock, Finish, Crash
  <2>4. QED
    BY <1>1, <2>1, <2>2, <2>3 DEF TypeOK
<1>6. ASSUME NEW p \in Processes, Read(p) PROVE TypeOK'
  <2>1. Merge(file, base[p], mine[p]) \in Tree
    BY MergeType DEF TypeOK
  <2>2. QED
    BY <1>1, <1>6, <2>1 DEF TypeOK, Read, Steps
<1>7. ASSUME NEW p \in Processes, Write(p) PROVE TypeOK'
  <2>1. [q \in Paths |-> IF q \in edited[p] THEN mine[p][q] ELSE kept[q]] \in Tree
    BY DEF Tree, TypeOK
  <2>2. merged[p] \in Tree /\ mine[p] \in Tree
    BY DEF TypeOK
  <2>3. QED
    BY <1>1, <1>7, <2>1, <2>2 DEF TypeOK, Write, Rebase, Steps
<1>8. CASE LockGrowsOld \/ UNCHANGED vars
  BY <1>1, <1>8 DEF TypeOK, LockGrowsOld, vars, stateVars
<1>9. QED
  BY <1>2, <1>4, <1>5, <1>6, <1>7, <1>8 DEF Next

(* Whatever is killed, suspended or run into each other, state.json and the *)
(* snapshots hold a value for every leaf that some process wrote, or none.  *)
THEOREM StateTyped == Spec => []TypeOK
<1>1. Init => TypeOK
  BY InitStateInv DEF StateInv
<1>2. QED
  BY <1>1, TypeStep, PTL DEF Spec

(* While no process dies or is suspended inside a save, however many save   *)
(* at the same time, every leaf of state.json has the value saved last.     *)
THEOREM NothingLost ==
    ASSUME MaxCrashes = 0, MaxStalls = 0
    PROVE  Spec => []NoLostUpdate
<1>1. StateInv => NoLostUpdate
  BY DEF StateInv
<1>2. QED
  BY <1>1, StateInvariant, PTL

(* Under the same condition a save changes only what its command edited,    *)
(* also when it is not the first save of its state object.                  *)
THEOREM OnlyEditsSaved ==
    ASSUME MaxCrashes = 0, MaxStalls = 0
    PROVE  Spec => SavesOnlyEdits
<1>1. ASSUME StateInv, NEW p \in Processes, NEW q \in Paths, [Next]_vars,
             step[p] = "write", step'[p] = "release", file'[q] # file[q]
      PROVE  q \in edited[p]
  <2>1. file' = merged[p]
    BY <1>1, WriterMoves DEF StateInv
  <2>2. QED
    BY <1>1, <2>1, MergeWithoutConflict DEF StateInv, TypeOK
<1>2. StateInv /\ [Next]_vars =>
        [ \A p \in Processes :
           step[p] = "write" /\ step'[p] = "release"
           => \A q \in Paths : file'[q] # file[q] => q \in edited[p] ]_vars
  BY <1>1
<1>3. QED
  BY <1>2, StateInvariant, PTL DEF Spec, SavesOnlyEdits

(* And it replaces, updatedAt aside, only values that the command had seen. *)
THEOREM OnlySeenOverwritten ==
    ASSUME MaxCrashes = 0, MaxStalls = 0
    PROVE  Spec => OverwritesOnlySeen
<1>1. ASSUME StateInv, NEW p \in Processes, NEW q \in Paths, [Next]_vars,
             step[p] = "write", step'[p] = "release", file'[q] # file[q], q[2] # Stamp
      PROVE  file[q] = base[p][q]
  <2>1. file' = merged[p]
    BY <1>1, WriterMoves DEF StateInv
  <2>2. QED
    BY <1>1, <2>1, MergeWithoutConflict DEF StateInv, TypeOK
<1>2. StateInv /\ [Next]_vars =>
        [ \A p \in Processes :
           step[p] = "write" /\ step'[p] = "release"
           => \A q \in Paths : file'[q] # file[q] /\ q[2] # Stamp => file[q] = base[p][q] ]_vars
  BY <1>1
<1>3. QED
  BY <1>2, StateInvariant, PTL DEF Spec, OverwritesOnlySeen
=============================================================================
