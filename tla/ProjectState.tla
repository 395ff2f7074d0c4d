---------------------------- MODULE ProjectState ----------------------------
(***************************************************************************)
(* .openxiangda/state.json (lib/config.js): every command loads it, edits  *)
(* its own copy, and saves by merging, under the lock file, the difference *)
(* to what it loaded into what the file holds by then.                     *)
(*                                                                         *)
(* The file is a tree whose inner objects are records, such as that of a   *)
(* function, {functionId, updatedAt, ...}, under the name of the function. *)
(* It is abstracted to its leaves, every record having some attributes and *)
(* updatedAt, which is there whenever the record is.  The value of a leaf  *)
(* is the process that wrote it.                                           *)
(***************************************************************************)
EXTENDS LockFile

CONSTANTS
    Records,
    Attributes,    \* fields of a record other than updatedAt
    MaxSaves       \* bound: saves of one process

VARIABLES
    file,      \* state.json
    base,      \* base[p]: projectStateBaselines, the snapshot p diffs against
    mine,      \* mine[p]: the state object of p
    merged,    \* merged[p]: what p is about to write
    step,      \* step[p]: where p is in its command
    saves,     \* saves[p]: saves so far
    edited,    \* history: the leaves that p edited since its last save
    kept       \* history: the last value saved for every leaf

stateVars == <<file, base, mine, merged, step, saves, edited, kept>>
vars == <<lockVars, stateVars>>

Stamp == "updatedAt"
Fields == Attributes \cup {Stamp}
Paths == Records \X Fields
Absent == "absent"
Leaves == Processes \cup {Absent}
Tree == [Paths -> Leaves]
Empty == [q \in Paths |-> Absent]

ASSUME ProjectStateAssumption ==
    /\ Stamp \notin Attributes
    /\ Absent \notin Processes
    /\ MaxSaves \in Nat

Record(x) == {x} \X Fields
Steps == {"idle", "loaded", "acquire", "read", "write", "release"}

TypeOK ==
    /\ LockTypeOK
    /\ {file, kept} \subseteq Tree
    /\ {base, mine, merged} \subseteq [Processes -> Tree]
    /\ step \in [Processes -> Steps]
    /\ saves \in [Processes -> Nat]
    /\ edited \in [Processes -> SUBSET Paths]

Init ==
    /\ LockInit
    /\ file = Empty
    /\ kept = Empty
    /\ base = [p \in Processes |-> Empty]
    /\ mine = [p \in Processes |-> Empty]
    /\ merged = [p \in Processes |-> Empty]
    /\ step = [p \in Processes |-> "idle"]
    /\ saves = [p \in Processes |-> 0]
    /\ edited = [p \in Processes |-> {}]

-----------------------------------------------------------------------------
(* The difference between two trees, as sets of leaves that change together: *)
(* a record that is deleted is one operation, a leaf that is set another.   *)
Deleted(from, to) ==
    { x \in Records : from[<<x, Stamp>>] # Absent /\ to[<<x, Stamp>>] = Absent }

Operations(from, to) ==
    { Record(x) : x \in Deleted(from, to) }
      \cup { {q} : q \in { r \in Paths : r[1] \notin Deleted(from, to) /\ from[r] # to[r] } }

Changed(from, to) == UNION Operations(from, to)

Agree(a, b, G) == \A q \in G : a[q] = b[q]
IsTimestamp(G) == \E x \in Records : G = {<<x, Stamp>>}

(* applyProjectStateOperations.                                             *)
ConflictIgnored(current, from, to) == FALSE
Conflict(current, from, to) ==
    \E G \in Operations(from, to) :
        /\ ~Agree(current, from, G)
        /\ ~Agree(current, to, G)
        /\ ~IsTimestamp(G)

WriteDesired(current, from, to) == to
WriteOperationsOnly(current, from, to) == [q \in Changed(from, to) |-> to[q]]
Merge(current, from, to) ==
    [q \in Paths |-> IF q \in Changed(from, to) THEN to[q] ELSE current[q]]

(* The next baseline is the caller's own snapshot, not the merged file.     *)
RebaseOnMerged(p) == merged[p]
Rebase(p) == mine[p]

-----------------------------------------------------------------------------
Load(p) ==
    /\ step[p] = "idle"
    /\ saves[p] < MaxSaves
    /\ base' = [base EXCEPT ![p] = file]
    /\ mine' = [mine EXCEPT ![p] = file]
    /\ edited' = [edited EXCEPT ![p] = {}]
    /\ step' = [step EXCEPT ![p] = "loaded"]
    /\ UNCHANGED <<file, merged, saves, kept, lockVars>>

(* Between two saves a command sets an attribute, and with it updatedAt, or *)
(* removes a record.                                                        *)
Edit(p, Q, v) ==
    LET changed == { q \in Q : mine[p][q] # v }
    IN  /\ step[p] = "loaded"
        /\ edited[p] = {}
        /\ changed # {}
        /\ mine' = [mine EXCEPT ![p] = [q \in Paths |-> IF q \in Q THEN v ELSE @[q]]]
        /\ edited' = [edited EXCEPT ![p] = changed]
        /\ UNCHANGED <<file, base, merged, step, saves, kept, lockVars>>

SetField(p) == \E x \in Records, f \in Attributes : Edit(p, {<<x, f>>, <<x, Stamp>>}, p)
RemoveRecord(p) == \E x \in Records : Edit(p, Record(x), Absent)

(* saveProjectState.                                                        *)
Save(p) ==
    /\ step[p] = "loaded"
    /\ edited[p] # {}
    /\ Wait(p)
    /\ step' = [step EXCEPT ![p] = "acquire"]
    /\ UNCHANGED <<file, base, mine, merged, saves, edited, kept>>

AcquireLock(p) ==
    /\ step[p] = "acquire"
    /\ Acquiring(p)
    /\ step' = [step EXCEPT ![p] = IF phase'[p] = "in" THEN "read" ELSE @]
    /\ UNCHANGED <<file, base, mine, merged, saves, edited, kept>>

(* OPENXIANGDA_STATE_LOCK_TIMEOUT ends the command.                         *)
LockTimeout(p) ==
    /\ step[p] = "acquire"
    /\ GiveUp(p)
    /\ step' = [step EXCEPT ![p] = "idle"]
    /\ saves' = [saves EXCEPT ![p] = @ + 1]
    /\ UNCHANGED <<file, base, mine, merged, edited, kept>>

Read(p) ==
    /\ step[p] = "read"
    /\ IF Conflict(file, base[p], mine[p])
       THEN /\ step' = [step EXCEPT ![p] = "release"]
            /\ UNCHANGED merged
       ELSE /\ step' = [step EXCEPT ![p] = "write"]
            /\ merged' = [merged EXCEPT ![p] = Merge(file, base[p], mine[p])]
    /\ UNCHANGED <<file, base, mine, saves, edited, kept, lockVars>>

(* atomicWriteJson renames a complete file over state.json.                 *)
Write(p) ==
    /\ step[p] = "write"
    /\ file' = merged[p]
    /\ kept' = [q \in Paths |-> IF q \in edited[p] THEN mine[p][q] ELSE kept[q]]
    /\ base' = [base EXCEPT ![p] = Rebase(p)]
    /\ edited' = [edited EXCEPT ![p] = {}]
    /\ step' = [step EXCEPT ![p] = "release"]
    /\ UNCHANGED <<mine, merged, saves, lockVars>>

(* After a save the command may go on to edit and save again; a conflict    *)
(* (nothing written, so the edit is still there) ends it.                   *)
ReleaseLock(p) ==
    /\ step[p] = "release"
    /\ Release(p)
    /\ saves' = [saves EXCEPT ![p] = @ + 1]
    /\ step' = [step EXCEPT ![p] =
                  IF edited[p] = {} /\ saves[p] + 1 < MaxSaves THEN "loaded" ELSE "idle"]
    /\ UNCHANGED <<file, base, mine, merged, edited, kept>>

(* The command ends without another save.                                   *)
Finish(p) ==
    /\ step[p] = "loaded"
    /\ step' = [step EXCEPT ![p] = "idle"]
    /\ UNCHANGED <<file, base, mine, merged, saves, edited, kept, lockVars>>

(* A killed command is not started again.                                   *)
Crash(p) ==
    /\ Kill(p)
    /\ step' = [step EXCEPT ![p] = "idle"]
    /\ saves' = [saves EXCEPT ![p] = MaxSaves]
    /\ UNCHANGED <<file, base, mine, merged, edited, kept>>

LockGrowsOld == GrowOld /\ UNCHANGED stateVars

Next ==
    \/ \E p \in Processes :
          \/ Load(p) \/ SetField(p) \/ RemoveRecord(p) \/ Finish(p)
          \/ Save(p) \/ AcquireLock(p) \/ LockTimeout(p)
          \/ Read(p) \/ Write(p) \/ ReleaseLock(p) \/ Crash(p)
    \/ LockGrowsOld

Spec == Init /\ [][Next]_vars

(* A running process goes on with its save, and time passes for a lock      *)
(* file.  The time-out of acquire is not relied on.                         *)
FairSpec ==
    /\ Spec
    /\ WF_vars(LockGrowsOld)
    /\ \A p \in Processes :
          WF_vars(AcquireLock(p) \/ Read(p) \/ Write(p) \/ ReleaseLock(p))

-----------------------------------------------------------------------------
(* No save undoes another: every leaf of the file has the value that was    *)
(* saved for it last.                                                       *)
NoLostUpdate == file = kept

(* A save changes what its command edited and nothing else; what others     *)
(* added since it loaded does not look deleted, at its first save or at a   *)
(* later one.                                                               *)
SavesOnlyEdits ==
    [][ \A p \in Processes :
          step[p] = "write" /\ step'[p] = "release"
          => \A q \in Paths : file'[q] # file[q] => q \in edited[p] ]_vars

(* A save replaces, updatedAt aside, only values that its command had seen. *)
OverwritesOnlySeen ==
    [][ \A p \in Processes :
          step[p] = "write" /\ step'[p] = "release"
          => \A q \in Paths : file'[q] # file[q] /\ q[2] # Stamp => file[q] = base[p][q] ]_vars

(* A command that was killed inside its save keeps nobody waiting: its lock *)
(* file is recognized as stale and removed.                                 *)
NobodyWaitsForever == \A p \in Processes : step[p] = "acquire" ~> step[p] # "acquire"
=============================================================================
