-------------------------- MODULE ReleaseExecution --------------------------
(***************************************************************************)
(* `release publish` of one change in one worktree (publishWorkspaceRelease*)
(* in lib/cli.js).  Its steps are recorded in the private execution.json:  *)
(* first lease-and-capture, then the release steps, app-finalize, and      *)
(* release-lease.  A command that fails or is killed is followed by        *)
(* another one, which skips the completed steps.  Between two commands the *)
(* lease runs out and other workspaces release the same application.       *)
(***************************************************************************)
EXTENDS Naturals, Sequences

CONSTANTS
    NumSteps,       \* release steps 1..NumSteps, in the order of the plan
    StagedSteps,    \* those that stage a child release, the others write in place
    ReusableSteps,  \* staged steps whose child a new lifecycle verifies and reuses
    MaxCommands,    \* bound: commands
    MaxFaults,      \* bound: failures and kills
    MaxOthers       \* bound: releases by other workspaces

ASSUME ReleaseExecutionAssumption ==
    /\ NumSteps \in Nat
    /\ StagedSteps \subseteq 1..NumSteps
    /\ ReusableSteps \subseteq StagedSteps
    /\ {MaxCommands, MaxFaults, MaxOthers} \subseteq Nat

Begin == 0                     \* lease-and-capture
Writes == 1..NumSteps
Finalize == NumSteps + 1       \* app-finalize
End == NumSteps + 2            \* release-lease
Steps == 0..(NumSteps + 2)

VARIABLES
    journal,   \* execution.json
    lease,     \* who holds the publish lease at the platform
    stored,    \* the lease record in state.json: before or after its expiresAt
    baseline,  \* state.json has a change baseline
    staged,    \* staged-resources.json
    capture,   \* the App Release of the frozen capture in release-session.json
    head,      \* the active App Release
    roots,     \* the staged children of each App Release activated by the change
    applied,   \* history: the steps that took effect at the platform
    unclear,   \* history: failed steps that may have written, not reviewed since
    cmd,       \* the running command
    commands, faults, others

files == <<journal, stored, baseline, staged, capture>>
platform == <<lease, head, roots, applied>>
bounds == <<commands, faults, others>>
vars == <<files, platform, unclear, cmd, bounds>>

Statuses == {"none", "running", "completed", "failed", "staged-resumable",
             "write-review-required"}
StepStatuses == {"pending", "running", "completed", "failed"}
NoJournal == [status |-> "none", step |-> [s \in Steps |-> "pending"],
              staged |-> FALSE, written |-> FALSE]

(* scoped: the command acquired the lease itself, in a later step than      *)
(* lease-and-capture (activeCommandScopedPublishLease); wrote and retain    *)
(* are its writeAttempted and retain.  children are the staged resources    *)
(* that app-finalize has read.                                              *)
PCs == {"idle", "loop", "lease", "write", "done", "catch", "undo", "exit"}
Idle == [pc |-> "idle", at |-> 0, clear |-> FALSE, ok |-> FALSE, scoped |-> FALSE,
         wrote |-> FALSE, retain |-> FALSE, children |-> {}]

Journals == [status : Statuses, step : [Steps -> StepStatuses],
             staged : BOOLEAN, written : BOOLEAN]
Cmds == [pc : PCs, at : Steps, clear : BOOLEAN, ok : BOOLEAN, scoped : BOOLEAN,
         wrote : BOOLEAN, retain : BOOLEAN, children : SUBSET StagedSteps]

TypeOK ==
    /\ journal \in Journals
    /\ lease \in {"free", "own", "other"}
    /\ stored \in {"none", "live", "old"}
    /\ baseline \in BOOLEAN
    /\ staged \subseteq StagedSteps
    /\ capture \in Nat
    /\ head \in Nat
    /\ roots \in Seq(SUBSET StagedSteps)
    /\ applied \subseteq Writes
    /\ unclear \subseteq Steps
    /\ cmd \in Cmds
    /\ commands \in Nat
    /\ faults \in Nat
    /\ others \in Nat

Init ==
    /\ journal = NoJournal
    /\ lease = "free"
    /\ stored = "none"
    /\ baseline = FALSE
    /\ staged = {}
    /\ capture = 0
    /\ head = 0
    /\ roots = <<>>
    /\ applied = {}
    /\ unclear = {}
    /\ cmd = Idle
    /\ commands = 0
    /\ faults = 0
    /\ others = 0

-----------------------------------------------------------------------------
(* getUsableStoredPublishLease looks at the record only; the platform may   *)
(* have released the lease already.                                         *)
Usable == stored = "live"
Held == Usable /\ lease = "own"

(* A lifecycle is new when neither a usable lease nor a baseline is there:  *)
(* then staged-resources.json starts from the forms that can be reused.     *)
StagedFromApplied == IF baseline THEN staged ELSE applied
StagedAfterAcquire == IF baseline THEN staged ELSE staged \cap ReusableSteps

Acquired ==
    /\ lease' = "own"
    /\ stored' = "live"
    /\ baseline' = TRUE
    /\ staged' = StagedAfterAcquire

(* The lease of the record is given back, and record and baseline dropped.  *)
GivenUp ==
    /\ lease' = IF Held THEN "free" ELSE lease
    /\ stored' = "none"
    /\ baseline' = FALSE

Fault == faults < MaxFaults /\ faults' = faults + 1

(* The request for a lease fails, or its answer is lost.                    *)
AcquireFails ==
    /\ Fault
    /\ lease' \in {lease, IF lease = "free" THEN "own" ELSE lease}
    /\ baseline' = TRUE

At(pc) == cmd' = [cmd EXCEPT !.pc = pc]

(* A request to release the lease fails, handled or not.                    *)
ReleaseLost ==
    /\ Fault
    /\ lease' \in {lease, IF Held THEN "free" ELSE lease}
    /\ UNCHANGED <<stored, baseline>>

(* The step fails; clear when its error is one of those that surely come    *)
(* before any write (isDefinitelyPreWriteReleaseError).                     *)
FailStep(clear) == cmd' = [cmd EXCEPT !.pc = "catch", !.clear = clear]

-----------------------------------------------------------------------------
(* A command starts.  reviewed is --resume-after-review, given only to a    *)
(* command that asks for it.                                                *)
MayResumeAnyway(reviewed) == TRUE
MayResume(reviewed) == (journal.status = "write-review-required") <=> reviewed

Publish(reviewed) ==
    /\ cmd.pc = "idle"
    /\ commands < MaxCommands
    /\ journal.status # "completed"
    /\ MayResume(reviewed)
    /\ journal' = [journal EXCEPT !.status = "running"]
    /\ unclear' = IF reviewed THEN {} ELSE unclear
    /\ cmd' = [Idle EXCEPT !.pc = "loop"]
    /\ commands' = commands + 1
    /\ UNCHANGED <<stored, baseline, staged, capture, platform, faults, others>>

Open == { s \in Steps : journal.step[s] # "completed" }
NextStep == CHOOSE s \in Open : \A t \in Open : s <= t

MarkedDone == "completed"
Marked == "running"

(* The next step is marked in the journal; lease-and-capture waits until    *)
(* nobody holds the lease.                                                  *)
StartStep ==
    /\ cmd.pc = "loop"
    /\ Open # {}
    /\ NextStep = Begin => Usable \/ lease = "free"
    /\ journal' = [journal EXCEPT !.step[NextStep] = Marked]
    /\ cmd' = [cmd EXCEPT !.pc = "lease", !.at = NextStep]
    /\ UNCHANGED <<stored, baseline, staged, capture, platform, unclear, bounds>>

(* PUBLISH_LEASE_WAIT_TIMEOUT, with no step marked.                         *)
WaitTimeout ==
    /\ cmd.pc = "loop"
    /\ Open # {}
    /\ NextStep = Begin
    /\ ~Usable
    /\ lease # "free"
    /\ cmd' = [cmd EXCEPT !.pc = "catch", !.at = Begin, !.clear = TRUE]
    /\ UNCHANGED <<files, platform, unclear, bounds>>

-----------------------------------------------------------------------------
(* release begin --freeze-app-capture.                                      *)
BeginRelease ==
    /\ cmd.pc = "lease"
    /\ cmd.at = Begin
    /\ \/ /\ Held
          /\ UNCHANGED <<lease, stored, baseline, staged>>
       \/ /\ ~Usable
          /\ lease = "free"
          /\ Acquired
    /\ capture' = head
    /\ At("done")
    /\ UNCHANGED <<journal, head, roots, applied, unclear, bounds>>

(* It fails: the lease is not to be had (a baseline made for this           *)
(* acquisition is dropped again), a request fails, or the preparation after *)
(* it does, which gives the lease of a new lifecycle back.                  *)
BeginFails ==
    /\ cmd.pc = "lease"
    /\ cmd.at = Begin
    /\ \/ /\ lease # IF Usable THEN "own" ELSE "free"
          /\ UNCHANGED <<lease, stored, baseline, faults>>
       \/ /\ Held
          /\ Fault
          /\ UNCHANGED <<lease, stored, baseline>>
       \/ /\ ~Usable
          /\ AcquireFails
          /\ UNCHANGED stored
       \/ /\ ~Usable
          /\ lease = "free"
          /\ Fault
          /\ IF baseline THEN lease' = "own" /\ stored' = "live" /\ UNCHANGED baseline
             ELSE lease' \in {lease, "own"} /\ stored' = "none" /\ UNCHANGED baseline
    /\ FailStep(TRUE)
    /\ UNCHANGED <<journal, staged, capture, head, roots, applied, unclear, commands, others>>

-----------------------------------------------------------------------------
(* app-finalize reads the staged resources, and assertStagedAppReleaseScope *)
(* compares them with the plan, before it looks at the lease.               *)
ScopeUnchecked == TRUE
ScopeMatches == staged = StagedSteps
ScopeOk == cmd.at = Finalize => ScopeMatches

ScopeRefused ==
    /\ cmd.pc = "lease"
    /\ cmd.at \in Writes \cup {Finalize}
    /\ ~ScopeOk
    /\ FailStep(TRUE)
    /\ UNCHANGED <<files, platform, unclear, bounds>>

(* A release step makes sure of a lease (resolvePublishLeaseForWrite) and   *)
(* acquires one for the command if the stored one has run out.  A new       *)
(* lifecycle then prepares staged-resources.json; if that fails, it ends.   *)
ResolveLease ==
    /\ cmd.pc = "lease"
    /\ cmd.at \in Writes \cup {Finalize}
    /\ ScopeOk
    /\ \/ /\ Held
          /\ cmd' = [cmd EXCEPT !.pc = "write", !.children = staged]
          /\ UNCHANGED <<lease, stored, baseline, staged, faults>>
       \/ /\ ~Usable
          /\ lease = "free"
          /\ Acquired
          /\ cmd' = [cmd EXCEPT !.pc = "write", !.children = staged, !.scoped = TRUE,
                                !.wrote = FALSE, !.retain = FALSE]
          /\ UNCHANGED faults
       \/ /\ ~Usable
          /\ lease = "free"
          /\ ~baseline
          /\ Fault
          /\ lease' \in {lease, "own"}
          /\ stored' = "none"
          /\ FailStep(FALSE)
          /\ UNCHANGED <<baseline, staged>>
       \/ /\ ~Usable
          /\ AcquireFails
          /\ stored' = "none"
          /\ FailStep(FALSE)
          /\ UNCHANGED staged
       \/ /\ lease # IF Usable THEN "own" ELSE "free"
          /\ stored' = IF Usable THEN stored ELSE "none"
          /\ FailStep(FALSE)
          /\ UNCHANGED <<lease, baseline, staged, faults>>
    /\ UNCHANGED <<journal, capture, head, roots, applied, unclear, commands, others>>

(* A step that stages a child records it and keeps the lease of the         *)
(* command; a step that writes in place gives such a lease back.            *)
RunStep ==
    /\ cmd.pc = "write"
    /\ cmd.at \in Writes
    /\ applied' = applied \cup {cmd.at}
    /\ IF cmd.at \in StagedSteps
       THEN /\ staged' = staged \cup {cmd.at}
            /\ cmd' = [cmd EXCEPT !.pc = "done", !.wrote = TRUE, !.retain = TRUE]
            /\ UNCHANGED <<lease, stored, baseline>>
       ELSE /\ UNCHANGED staged
            /\ IF cmd.scoped /\ ~cmd.retain
               THEN /\ GivenUp
                    /\ cmd' = [cmd EXCEPT !.pc = "done", !.scoped = FALSE]
               ELSE /\ cmd' = [cmd EXCEPT !.pc = "done", !.wrote = TRUE]
                    /\ UNCHANGED <<lease, stored, baseline>>
    /\ UNCHANGED <<journal, capture, head, roots, unclear, bounds>>

(* The platform compares the parent of the App Release with its active one. *)
AnyParent == TRUE
OnCapturedParent == capture = head

Activate ==
    /\ roots' = Append(roots, cmd.children)
    /\ head' = head + 1

FinalizeApp ==
    /\ cmd.pc = "write"
    /\ cmd.at = Finalize
    /\ IF OnCapturedParent
       THEN /\ Activate
            /\ cmd' = [cmd EXCEPT !.pc = "done", !.wrote = TRUE]
       ELSE /\ cmd' = [cmd EXCEPT !.pc = "catch", !.clear = FALSE, !.wrote = TRUE]
            /\ UNCHANGED <<roots, head>>
    /\ UNCHANGED <<files, lease, applied, unclear, bounds>>

(* The step fails before its first write (a build, a contract).             *)
StepFailsEarly ==
    /\ cmd.pc = "write"
    /\ Fault
    /\ FailStep(TRUE)
    /\ UNCHANGED <<files, platform, unclear, commands, others>>

(* A write is refused, or its answer is lost, whatever became of it.        *)
Effect(s) ==
    \/ UNCHANGED <<roots, head, applied>>
    \/ /\ s \in Writes
       /\ applied' = applied \cup {s}
       /\ UNCHANGED <<roots, head>>
    \/ /\ s = Finalize
       /\ OnCapturedParent
       /\ Activate
       /\ UNCHANGED applied

WriteFails ==
    /\ cmd.pc = "write"
    /\ Fault
    /\ Effect(cmd.at)
    /\ cmd' = [cmd EXCEPT !.pc = "catch", !.clear = FALSE, !.wrote = TRUE]
    /\ UNCHANGED <<files, lease, unclear, commands, others>>

-----------------------------------------------------------------------------
(* release end.  The record of a lease that has run out is cleared, although*)
(* the command fails.  Without a record the platform must know of no active *)
(* lease: the recovery context names the lease of lease-and-capture, which  *)
(* is over then.                                                            *)
EndAccepted == Held \/ (stored = "none" /\ lease = "free")
LeaseAfterEnd ==
    IF stored # "none" \/ lease = "free" THEN GivenUp
    ELSE UNCHANGED <<lease, stored, baseline>>

EndRelease ==
    /\ cmd.pc = "lease"
    /\ cmd.at = End
    /\ \/ /\ LeaseAfterEnd
          /\ IF EndAccepted THEN At("done") ELSE FailStep(TRUE)
          /\ UNCHANGED faults
       \/ ReleaseLost /\ FailStep(TRUE)
    /\ UNCHANGED <<journal, staged, capture, head, roots, applied, unclear, commands, others>>

-----------------------------------------------------------------------------
Written(s) == s \in Writes \cup {Finalize}

RecordStep ==
    /\ cmd.pc = "done"
    /\ journal' = [journal EXCEPT !.step[cmd.at] = "completed",
                                  !.written = @ \/ Written(cmd.at),
                                  !.staged = @ \/ cmd.at \in StagedSteps]
    /\ At("loop")
    /\ UNCHANGED <<stored, baseline, staged, capture, platform, unclear, bounds>>

Complete ==
    /\ cmd.pc = "loop"
    /\ Open = {}
    /\ journal' = [journal EXCEPT !.status = "completed"]
    /\ cmd' = [cmd EXCEPT !.pc = "exit", !.ok = TRUE]
    /\ UNCHANGED <<stored, baseline, staged, capture, platform, unclear, bounds>>

(* classifyReleaseExecutionFailure.                                         *)
Classify(isStaged, isWritten) ==
    CASE isStaged -> "staged-resumable"
      [] isWritten /\ ~isStaged -> "write-review-required"
      [] OTHER -> "failed"

UncountedAttempt == FALSE
Attempted == Written(cmd.at) /\ ~cmd.clear

(* The catch block; a release that has written nothing is ended.            *)
Catch ==
    /\ cmd.pc = "catch"
    /\ LET written == journal.written \/ Attempted
       IN  /\ journal' = [journal EXCEPT
                            !.step = [s \in Steps |-> IF @[s] = "running" THEN "failed"
                                                      ELSE @[s]],
                            !.written = written,
                            !.status = Classify(journal.staged, written)]
           /\ At(IF written THEN "exit" ELSE "undo")
    /\ unclear' = IF cmd.clear THEN unclear ELSE unclear \cup {cmd.at}
    /\ UNCHANGED <<stored, baseline, staged, capture, platform, bounds>>

Undo ==
    /\ cmd.pc = "undo"
    /\ (LeaseAfterEnd /\ UNCHANGED faults) \/ ReleaseLost
    /\ At("exit")
    /\ UNCHANGED <<journal, staged, capture, head, roots, applied, unclear, commands, others>>

(* finalizeCommandScopedPublishLease.                                       *)
GivesUp == cmd.scoped /\ ~cmd.retain /\ (cmd.ok \/ ~cmd.wrote) /\ Usable

Exit ==
    /\ cmd.pc = "exit"
    /\ \/ GivesUp /\ GivenUp /\ UNCHANGED faults
       \/ GivesUp /\ ReleaseLost
       \/ ~GivesUp /\ UNCHANGED <<lease, stored, baseline, faults>>
    /\ cmd' = Idle
    /\ UNCHANGED <<journal, staged, capture, head, roots, applied, unclear, commands, others>>

(* The process is killed, also with a write on its way.                     *)
Kill ==
    /\ cmd.pc # "idle"
    /\ Fault
    /\ IF cmd.pc = "write" THEN Effect(cmd.at) ELSE UNCHANGED <<head, roots, applied>>
    /\ cmd' = Idle
    /\ UNCHANGED <<files, lease, unclear, commands, others>>

-----------------------------------------------------------------------------
(* Between commands nobody renews the lease.                                *)
LeaseExpires ==
    /\ cmd.pc = "idle"
    /\ lease = "own" \/ Usable
    /\ lease' = IF lease = "own" THEN "free" ELSE lease
    /\ stored' = IF Usable THEN "old" ELSE stored
    /\ UNCHANGED <<journal, baseline, staged, capture, head, roots, applied, unclear, cmd, bounds>>

OtherBegins ==
    /\ lease = "free"
    /\ others < MaxOthers
    /\ lease' = "other"
    /\ others' = others + 1
    /\ UNCHANGED <<files, head, roots, applied, unclear, cmd, commands, faults>>

OtherEnds ==
    /\ lease = "other"
    /\ lease' = "free"
    /\ head' \in {head, head + 1}
    /\ UNCHANGED <<files, roots, applied, unclear, cmd, bounds>>

Next ==
    \/ \E reviewed \in BOOLEAN : Publish(reviewed)
    \/ StartStep \/ WaitTimeout \/ BeginRelease \/ BeginFails
    \/ ScopeRefused \/ ResolveLease \/ RunStep \/ FinalizeApp \/ StepFailsEarly \/ WriteFails
    \/ EndRelease
    \/ RecordStep \/ Complete \/ Catch \/ Undo \/ Exit \/ Kill
    \/ LeaseExpires \/ OtherBegins \/ OtherEnds

Spec == Init /\ [][Next]_vars

-----------------------------------------------------------------------------
(* Properties.                                                              *)

(* An App Release of the change has every child of its plan, although the   *)
(* children were staged by several commands and staged-resources.json may   *)
(* have been started anew between them.                                     *)
RootsCoverPlan == \A i \in DOMAIN roots : roots[i] = StagedSteps

(* A release that execution.json calls completed has released everything    *)
(* and holds no lease any more.                                             *)
CompletedIsReleased ==
    journal.status = "completed" =>
        /\ applied = Writes
        /\ roots # <<>>
        /\ lease # "own"

(* However often app-finalize is sent again, with lost answers and after    *)
(* kills, the change activates one App Release: the capture that it is      *)
(* sent with was frozen before the first attempt.                           *)
OneRoot == Len(roots) <= 1

(* A write in place whose result the command could not tell is sent again   *)
(* only after --resume-after-review.                                        *)
ReviewedBeforeRepeat ==
    cmd.pc = "write" /\ cmd.at \notin StagedSteps \cup {Finalize} => cmd.at \notin unclear

(* Until that review the program does not give the lease back, on whose     *)
(* baseline the result can be compared.                                     *)
LeaseKeptForReview ==
    [][ lease = "own" /\ lease' # "own" /\ unclear \cap (Writes \ StagedSteps) # {}
        => cmd.pc = "idle" ]_vars
=============================================================================
