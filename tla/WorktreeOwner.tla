---------------------------- MODULE WorktreeOwner ----------------------------
(***************************************************************************)
(* Who may edit a worktree (lib/worktree-owner.js).  The file              *)
(* worktree-owner.json names one Codex task, the change it works on and    *)
(* when its ownership ends; it is read and replaced under the owner lock.  *)
(* workspace cleanup (lib/worktree-cleanup.js) removes a worktree, and the *)
(* file in it, under the same lock, and its branch after it.               *)
(*                                                                         *)
(* The worktree is one that cleanup is made for: it is linked, unlocked    *)
(* and marked as managed, and has a branch of its own.  Who edits files    *)
(* and commits need not have claimed it.                                   *)
(***************************************************************************)
EXTENDS LockFile

CONSTANTS
    Tasks,         \* CODEX_THREAD_IDs
    NoTask,        \* a process that has none
    TaskOf,        \* the task of a process
    Changes,
    MaxCommands,   \* bound: commands of all processes
    MaxCommits     \* bound: commits on the branch of the worktree

ASSUME WorktreeOwnerAssumption ==
    /\ NoTask \notin Tasks
    /\ TaskOf \in [Processes -> Tasks \cup {NoTask}]
    /\ MaxCommands \in Nat
    /\ MaxCommits \in Nat

VARIABLES
    owner,      \* worktree-owner.json, and whether its expiresAt is to come
    worktree,   \* the worktree is there
    command,    \* command[p]: what p was started for
    seen,       \* seen[p]: the owner that p has read
    step,       \* step[p]: where p is in its command
    commands,   \* commands so far
    claims,     \* history: the claims that a task may still rely on
    branch,     \* its branch: whether it exists, its head, what main has of it
    dirty,      \* there are files in the worktree that are not committed
    releasing,  \* the worktree has a release journal, a lease or a baseline
    planned     \* planned[p]: the head of the branch when p planned to clean up

ownerVars == <<owner, worktree, command, seen, step, commands, claims>>
workVars == <<branch, dirty, releasing, planned>>
vars == <<lockVars, ownerVars, workVars>>

NoChange == "none"
ChangesOrNone == Changes \cup {NoChange}
Owner(t, c) == [task |-> t, change |-> c, active |-> TRUE]
NoOwner == [task |-> NoTask, change |-> NoChange, active |-> FALSE]
Owners == {NoOwner} \cup [task : Tasks, change : ChangesOrNone, active : BOOLEAN]
Kinds == {"claim", "take over", "release", "force release", "ready", "cleanup"}
Commands == [kind : Kinds, change : ChangesOrNone]
NoCommand == [kind |-> "none", change |-> NoChange]
Steps == {"idle", "acquire", "read", "write", "release", "removed", "branch", "killed"}

TypeOK ==
    /\ LockTypeOK
    /\ owner \in Owners
    /\ worktree \in BOOLEAN
    /\ command \in [Processes -> Commands \cup {NoCommand}]
    /\ seen \in [Processes -> Owners]
    /\ step \in [Processes -> Steps]
    /\ commands \in Nat
    /\ claims \subseteq [task : Tasks, change : ChangesOrNone]
    /\ branch \in [exists : BOOLEAN, head : Nat, merged : Nat]
    /\ dirty \in BOOLEAN
    /\ releasing \in BOOLEAN
    /\ planned \in [Processes -> Nat]

Init ==
    /\ LockInit
    /\ owner = NoOwner
    /\ worktree = TRUE
    /\ command = [p \in Processes |-> NoCommand]
    /\ seen = [p \in Processes |-> NoOwner]
    /\ step = [p \in Processes |-> "idle"]
    /\ commands = 0
    /\ claims = {}
    /\ branch = [exists |-> TRUE, head |-> 0, merged |-> 0]
    /\ dirty = FALSE
    /\ releasing = FALSE
    /\ planned = [p \in Processes |-> 0]

-----------------------------------------------------------------------------
Is(p, kinds) == command[p].kind \in kinds
Forced(p) == Is(p, {"take over", "force release"})
ClaimOf(o) == [task |-> o.task, change |-> o.change]
ClaimsOf(t) == { c \in claims : c.task = t }

(* Another task owns the worktree.  A process without a task is not held to *)
(* be another one when it releases.                                         *)
ForeignIgnored(p, o) == FALSE
Foreign(p, o) == o.active /\ TaskOf[p] # NoTask /\ o.task # TaskOf[p]

(* sdd ready releases exactly what it has seen, cleanup removes what nobody *)
(* owns, also when it looks again under the lock.                           *)
AllowedOutside(p, o) ==
    CASE Is(p, {"claim", "release"}) -> ~Foreign(p, o)
      [] OTHER -> TRUE
Allowed(p, o) ==
    CASE Is(p, {"claim", "release"}) -> ~Foreign(p, o)
      [] Is(p, {"ready"}) -> o.task = TaskOf[p] /\ o.change = command[p].change
      [] Is(p, {"cleanup"}) -> ~o.active
      [] OTHER -> TRUE

(* What inspectWorktree asks of git and of the files of the worktree.       *)
RemovableDespiteRelease == worktree /\ ~dirty /\ branch.head = branch.merged
Removable == worktree /\ ~dirty /\ ~releasing /\ branch.head = branch.merged

(* Under the lock cleanup looks once more, at the worktree that it planned  *)
(* to remove.                                                               *)
StillRemovable(p) == Removable /\ branch.head = planned[p]

-----------------------------------------------------------------------------
(* A command is started.  claim does nothing without a task, ready and      *)
(* cleanup first look at the owner without the lock, and release looks      *)
(* whether there is one.                                                    *)
Start(p, cmd) ==
    /\ step[p] = "idle"
    /\ worktree
    /\ commands < MaxCommands
    /\ cmd.kind \in {"claim", "take over", "ready"} => TaskOf[p] # NoTask
    /\ cmd.kind \in {"release", "force release"} => owner # NoOwner
    /\ cmd.kind = "ready" => cmd.change \in Changes /\ owner = Owner(TaskOf[p], cmd.change)
    /\ cmd.kind = "cleanup" => ~owner.active /\ Removable
    /\ planned' = [planned EXCEPT ![p] = IF cmd.kind = "cleanup" THEN branch.head ELSE 0]
    /\ command' = [command EXCEPT ![p] = cmd]
    /\ commands' = commands + 1
    /\ step' = [step EXCEPT ![p] = "acquire"]
    /\ Wait(p)
    /\ UNCHANGED <<owner, worktree, seen, claims, branch, dirty, releasing>>

AcquireLock(p) ==
    /\ step[p] = "acquire"
    /\ Acquiring(p)
    /\ step' = [step EXCEPT ![p] = IF phase'[p] = "in" THEN "read" ELSE @]
    /\ UNCHANGED <<owner, worktree, command, seen, commands, claims, workVars>>

(* The command of p is over.                                                *)
Leave(p) ==
    /\ step' = [step EXCEPT ![p] = "idle"]
    /\ command' = [command EXCEPT ![p] = NoCommand]
    /\ seen' = [seen EXCEPT ![p] = NoOwner]
    /\ planned' = [planned EXCEPT ![p] = 0]

(* 80 attempts.                                                             *)
LockTimeout(p) ==
    /\ step[p] = "acquire"
    /\ GiveUp(p)
    /\ Leave(p)
    /\ UNCHANGED <<owner, worktree, commands, claims, branch, dirty, releasing>>

(* A command that is not allowed, or finds nothing to release, ends; so     *)
(* does cleanup if the worktree is not the one that it planned to remove.   *)
Read(p) ==
    /\ step[p] = "read"
    /\ seen' = [seen EXCEPT ![p] = owner]
    /\ LET nothing == \/ owner = NoOwner /\ Is(p, {"release", "force release"})
                      \/ Is(p, {"cleanup"}) /\ ~StillRemovable(p)
       IN  step' = [step EXCEPT ![p] =
                      IF Allowed(p, owner) /\ ~nothing THEN "write" ELSE "release"]
    /\ UNCHANGED <<owner, worktree, command, commands, claims, lockVars, workVars>>

NewOwnerAsSeen(p) == Owner(seen[p].task, command[p].change)

(* A claim that names no change takes over the one in the file.             *)
NewOwner(p) ==
    Owner(TaskOf[p], IF command[p].change = NoChange THEN seen[p].change ELSE command[p].change)

(* claimWorktreeOwner: a claim of one's own task is renewed, a forced one   *)
(* ends the claim of the task that was seen.                                *)
Claim(p) ==
    /\ Is(p, {"claim", "take over"})
    /\ owner' = NewOwner(p)
    /\ claims' = (claims \ (ClaimsOf(TaskOf[p])
                              \cup (IF Forced(p) THEN ClaimsOf(seen[p].task) ELSE {})))
                    \cup {ClaimOf(NewOwner(p))}
    /\ UNCHANGED worktree

ReleaseOwner(p) ==
    /\ Is(p, {"release", "force release", "ready"})
    /\ owner' = NoOwner
    /\ claims' = claims \
         (IF Is(p, {"ready"})
          THEN {[task |-> TaskOf[p], change |-> command[p].change]}
          ELSE ClaimsOf(TaskOf[p]) \cup (IF Forced(p) THEN ClaimsOf(seen[p].task) ELSE {}))
    /\ UNCHANGED worktree

(* git worktree remove takes the owner file, and all that git ignores,      *)
(* along, and refuses files that are not committed.                         *)
Cleanup(p) ==
    /\ Is(p, {"cleanup"})
    /\ worktree /\ ~dirty
    /\ worktree' = FALSE
    /\ owner' = NoOwner
    /\ releasing' = FALSE
    /\ UNCHANGED claims

CleanupFails(p) ==
    /\ Is(p, {"cleanup"})
    /\ ~worktree \/ dirty
    /\ UNCHANGED <<owner, worktree, claims>>

Write(p) ==
    /\ step[p] = "write"
    /\ \/ /\ Claim(p) \/ ReleaseOwner(p) \/ CleanupFails(p)
          /\ step' = [step EXCEPT ![p] = "release"]
          /\ UNCHANGED releasing
       \/ Cleanup(p) /\ step' = [step EXCEPT ![p] = "removed"]
    /\ UNCHANGED <<command, seen, commands, branch, dirty, planned, lockVars>>

ReleaseLock(p) ==
    /\ Release(p)
    /\ \/ step[p] = "release" /\ Leave(p)
       \/ /\ step[p] = "removed"
          /\ step' = [step EXCEPT ![p] = "branch"]
          /\ UNCHANGED <<command, seen, planned>>
    /\ UNCHANGED <<owner, worktree, commands, claims, branch, dirty, releasing>>

(* Mutant of DeleteBranch: whatever the head of the branch is by then.      *)
DeleteBranchAnyhow(p) ==
    /\ step[p] = "branch"
    /\ branch' = [branch EXCEPT !.exists = FALSE]
    /\ Leave(p)
    /\ UNCHANGED <<owner, worktree, commands, claims, dirty, releasing, lockVars>>

(* The branch of a removed worktree goes too, unless it has moved.  Git     *)
(* itself is content if it was pushed.                                      *)
DeleteBranch(p) ==
    /\ step[p] = "branch"
    /\ branch' = IF branch.head = planned[p] THEN [branch EXCEPT !.exists = FALSE] ELSE branch
    /\ Leave(p)
    /\ UNCHANGED <<owner, worktree, commands, claims, dirty, releasing, lockVars>>

(* A killed process leaves its lock file behind and runs no more commands.  *)
Crash(p) ==
    /\ Kill(p)
    /\ step' = [step EXCEPT ![p] = "killed"]
    /\ command' = [command EXCEPT ![p] = NoCommand]
    /\ seen' = [seen EXCEPT ![p] = NoOwner]
    /\ UNCHANGED <<owner, worktree, commands, claims, workVars>>

(* Its expiresAt has come.                                                  *)
Expire ==
    /\ owner.active
    /\ owner' = [owner EXCEPT !.active = FALSE]
    /\ claims' = claims \ ClaimsOf(owner.task)
    /\ UNCHANGED <<worktree, command, seen, step, commands, lockVars, workVars>>

LockGrowsOld == GrowOld /\ UNCHANGED <<ownerVars, workVars>>

-----------------------------------------------------------------------------
(* Work in the worktree.                                                    *)

Edit ==
    /\ worktree /\ ~dirty
    /\ dirty' = TRUE
    /\ UNCHANGED <<branch, releasing, planned, ownerVars, lockVars>>

(* Once the worktree is gone its branch may be worked on elsewhere.         *)
Commit ==
    /\ branch.exists /\ branch.head < MaxCommits
    /\ worktree => dirty
    /\ branch' = [branch EXCEPT !.head = @ + 1]
    /\ dirty' = FALSE
    /\ UNCHANGED <<releasing, planned, ownerVars, lockVars>>

(* The branch is merged, and the workspace that cleans up has pulled main.  *)
Integrate ==
    /\ branch.exists
    /\ branch' = [branch EXCEPT !.merged = branch.head]
    /\ UNCHANGED <<dirty, releasing, planned, ownerVars, lockVars>>

(* A release claims the worktree before it leaves a record in it.           *)
StartRelease ==
    /\ worktree /\ claims # {}
    /\ releasing' = TRUE
    /\ UNCHANGED <<branch, dirty, planned, ownerVars, lockVars>>

EndRelease ==
    /\ releasing' = FALSE
    /\ UNCHANGED <<branch, dirty, planned, ownerVars, lockVars>>

Next ==
    \/ \E p \in Processes :
          \/ \E cmd \in Commands : Start(p, cmd)
          \/ AcquireLock(p) \/ LockTimeout(p) \/ Read(p) \/ Write(p) \/ ReleaseLock(p)
          \/ DeleteBranch(p) \/ Crash(p)
    \/ Expire
    \/ LockGrowsOld
    \/ Edit \/ Commit \/ Integrate \/ StartRelease \/ EndRelease

Spec == Init /\ [][Next]_vars

-----------------------------------------------------------------------------
(* A task whose claim has succeeded owns the worktree, for that change,     *)
(* until the claim expires, the task itself gives it up or another one      *)
(* takes it by force: nobody else claims or releases it meanwhile.          *)
ClaimsHonoured == \A c \in claims : owner = Owner(c.task, c.change)

(* Cleanup never removes the worktree from under a task that claimed it     *)
(* after cleanup had planned, and takes neither the records of a release    *)
(* nor work with it: files that are not committed, or commits that were     *)
(* made meanwhile and are only on the branch (worktree-cleanup.js:173).     *)
CleanupSparesWork ==
    [][/\ worktree /\ ~worktree' => claims = {} /\ ~releasing /\ ~dirty
       /\ branch.exists /\ ~branch'.exists => branch.head = branch.merged]_vars
=============================================================================
