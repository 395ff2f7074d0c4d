----------------------- MODULE ReleaseExecutionProofs -----------------------
(* Theorems about ReleaseExecution, for any plan and any number of commands,*)
(* failures, kills and other releases.                                      *)
EXTENDS ReleaseExecution, WellFoundedInduction, TLAPS

LEMMA InSteps ==
    /\ {Begin, Finalize, End} \subseteq Steps
    /\ Writes \subseteq Steps
    /\ StagedSteps \subseteq Writes
    /\ Steps \subseteq Nat
  BY ReleaseExecutionAssumption DEF Begin, Finalize, End, Steps, Writes

(* The next step is the first one that is not completed.                    *)
LEMMA FirstOpen ==
    ASSUME Open # {}
    PROVE  NextStep \in Open /\ \A t \in Open : NextStep <= t
<1>1. Open \subseteq Nat
  BY InSteps DEF Open
<1> DEFINE R == OpToRel(<, Nat)
<1> HIDE DEF R
<1>2. IsWellFoundedOn(R, Nat)
  BY NatLessThanWellFounded, Zenon DEF R
<1>3. PICK s \in Open : \A t \in Open : <<t, s>> \notin R
  BY <1>1, <1>2, WFMin, Zenon
<1>4. ASSUME NEW t \in Open
      PROVE  s <= t
  <2>1. s \in Nat /\ t \in Nat /\ <<t, s>> \notin R
    BY <1>1, <1>3
  <2>2. ~(t < s)
    BY <2>1 DEF R, OpToRel
  <2> QED
    BY <2>1, <2>2
<1> QED
  BY <1>3, <1>4, Zenon DEF NextStep

-----------------------------------------------------------------------------
(* Type correctness.                                                        *)
LEMMA CmdStep ==
    ASSUME TypeOK, Next
    PROVE  cmd' \in Cmds
<1>1. cmd \in Cmds /\ staged \subseteq StagedSteps
  BY DEF TypeOK
<1>2. Idle \in Cmds
  BY InSteps DEF Idle, Cmds, PCs, Begin
<1>3. StartStep => NextStep \in Steps
  BY FirstOpen DEF StartStep, Open
<1>4. CASE \E reviewed \in BOOLEAN : Publish(reviewed)
  BY <1>2, <1>4 DEF Publish, Cmds, PCs
<1>5. CASE StartStep \/ WaitTimeout
  BY <1>1, <1>3, <1>5, InSteps DEF StartStep, WaitTimeout, Cmds, PCs
<1>6. CASE BeginRelease \/ BeginFails \/ ScopeRefused
  BY <1>1, <1>6 DEF BeginRelease, BeginFails, ScopeRefused, At, FailStep, Cmds, PCs
<1>7. CASE ResolveLease
  BY <1>1, <1>7 DEF ResolveLease, FailStep, Cmds, PCs
<1>8. CASE RunStep
  BY <1>1, <1>8 DEF RunStep, Cmds, PCs
<1>9. CASE FinalizeApp \/ StepFailsEarly \/ WriteFails
  BY <1>1, <1>9 DEF FinalizeApp, StepFailsEarly, WriteFails, FailStep, Cmds, PCs
<1>10. CASE EndRelease \/ RecordStep \/ Complete
  BY <1>1, <1>10 DEF EndRelease, RecordStep, Complete, At, FailStep, Cmds, PCs
<1>11. CASE Catch \/ Undo
  BY <1>1, <1>11 DEF Catch, Undo, At, Cmds, PCs
<1>12. CASE Exit \/ Kill
  BY <1>2, <1>12 DEF Exit, Kill
<1>13. CASE LeaseExpires \/ OtherBegins \/ OtherEnds
  BY <1>1, <1>13 DEF LeaseExpires, OtherBegins, OtherEnds
<1> QED
  BY <1>4, <1>5, <1>6, <1>7, <1>8, <1>9, <1>10, <1>11, <1>12, <1>13 DEF Next

LEMMA JournalStep ==
    ASSUME TypeOK, Next
    PROVE  journal' \in Journals
<1>1. journal \in Journals /\ cmd \in Cmds
  BY DEF TypeOK
<1>2. CASE UNCHANGED journal
  BY <1>1, <1>2
<1>3. CASE \E reviewed \in BOOLEAN : Publish(reviewed)
  BY <1>1, <1>3 DEF Publish, Journals, Statuses
<1>4. CASE StartStep
  BY <1>1, <1>4 DEF StartStep, Marked, Journals, StepStatuses
<1>5. CASE RecordStep
  BY <1>1, <1>5 DEF RecordStep, Journals, StepStatuses
<1>6. CASE Complete
  BY <1>1, <1>6 DEF Complete, Journals, Statuses
<1>7. CASE Catch
  BY <1>1, <1>7 DEF Catch, Classify, Journals, Statuses, StepStatuses
<1> QED
  BY <1>2, <1>3, <1>4, <1>5, <1>6, <1>7
  DEF Next, WaitTimeout, BeginRelease, BeginFails, ScopeRefused, ResolveLease, RunStep,
      FinalizeApp, StepFailsEarly, WriteFails, EndRelease, Undo, Exit, Kill, LeaseExpires,
      OtherBegins, OtherEnds, files

(* Who changes the record of App Releases.                                  *)
LEMMA ActivateOrNot ==
    ASSUME Next
    PROVE  \/ UNCHANGED <<head, roots>>
           \/ /\ cmd.pc = "write"
              /\ cmd.at = Finalize
              /\ OnCapturedParent
              /\ Activate
           \/ OtherEnds
  BY DEF Next, Publish, StartStep, WaitTimeout, BeginRelease, BeginFails, ScopeRefused, ResolveLease,
         RunStep, FinalizeApp, StepFailsEarly, WriteFails, EndRelease, RecordStep, Complete, Catch,
         Undo, Exit, Kill, LeaseExpires, OtherBegins, Effect, files, platform
LEMMA AppReleaseStep ==
    ASSUME TypeOK, Next
    PROVE  head' \in Nat /\ roots' \in Seq(SUBSET StagedSteps)
<1>1. head \in Nat /\ roots \in Seq(SUBSET StagedSteps) /\ cmd.children \in SUBSET StagedSteps
  BY DEF TypeOK, Cmds
<1>2. CASE Activate
  BY <1>1, <1>2 DEF Activate
<1>3. CASE OtherEnds
  BY <1>1, <1>3 DEF OtherEnds, files
<1>4. CASE UNCHANGED <<head, roots>>
  BY <1>1, <1>4
<1> QED
  BY <1>2, <1>3, <1>4, ActivateOrNot

LEMMA LeaseStep ==
    ASSUME TypeOK, Next
    PROVE  /\ lease' \in {"free", "own", "other"}
           /\ stored' \in {"none", "live", "old"}
           /\ baseline' \in BOOLEAN
           /\ staged' \subseteq StagedSteps
           /\ capture' \in Nat
  BY ReleaseExecutionAssumption
  DEF TypeOK, Next, Publish, StartStep, WaitTimeout, BeginRelease, BeginFails, ScopeRefused,
      ResolveLease, RunStep, FinalizeApp, StepFailsEarly, WriteFails, EndRelease, RecordStep,
      Complete, Catch, Undo, Exit, Kill, LeaseExpires, OtherBegins, OtherEnds, files, platform,
      Acquired, StagedAfterAcquire, AcquireFails, GivenUp, LeaseAfterEnd, ReleaseLost

LEMMA HistoryStep ==
    ASSUME TypeOK, Next
    PROVE  applied' \subseteq Writes /\ unclear' \subseteq Steps
<1>1. cmd.at \in Steps
  BY DEF TypeOK, Cmds
<1> QED
  BY <1>1
  DEF TypeOK, Next, Publish, StartStep, WaitTimeout, BeginRelease, BeginFails, ScopeRefused,
      ResolveLease, RunStep, FinalizeApp, StepFailsEarly, WriteFails, EndRelease, RecordStep,
      Complete, Catch, Undo, Exit, Kill, LeaseExpires, OtherBegins, OtherEnds, platform, Effect

LEMMA BoundsStep ==
    ASSUME TypeOK, Next
    PROVE  commands' \in Nat /\ faults' \in Nat /\ others' \in Nat
<1>1. \/ UNCHANGED commands
      \/ commands' = commands + 1
  BY DEF Next, Publish, StartStep, WaitTimeout, BeginRelease, BeginFails, ScopeRefused,
         ResolveLease, RunStep, FinalizeApp, StepFailsEarly, WriteFails, EndRelease, RecordStep,
         Complete, Catch, Undo, Exit, Kill, LeaseExpires, OtherBegins, OtherEnds, bounds
<1>2. \/ UNCHANGED faults
      \/ faults' = faults + 1
  BY DEF Next, Publish, StartStep, WaitTimeout, BeginRelease, BeginFails, ScopeRefused,
         ResolveLease, RunStep, FinalizeApp, StepFailsEarly, WriteFails, EndRelease, RecordStep,
         Complete, Catch, Undo, Exit, Kill, LeaseExpires, OtherBegins, OtherEnds, bounds,
         Fault, AcquireFails, ReleaseLost
<1>3. \/ UNCHANGED others
      \/ others' = others + 1
  BY DEF Next, Publish, StartStep, WaitTimeout, BeginRelease, BeginFails, ScopeRefused,
         ResolveLease, RunStep, FinalizeApp, StepFailsEarly, WriteFails, EndRelease, RecordStep,
         Complete, Catch, Undo, Exit, Kill, LeaseExpires, OtherBegins, OtherEnds, bounds
<1> QED
  BY <1>1, <1>2, <1>3 DEF TypeOK

LEMMA TypeInit == Init => TypeOK
<1> SUFFICES ASSUME Init
             PROVE  TypeOK
  OBVIOUS
<1>1. journal \in Journals
  BY DEF Init, NoJournal, Journals, Statuses, StepStatuses
<1>2. cmd \in Cmds
  BY InSteps DEF Init, Idle, Cmds, PCs, Begin
<1>3. roots \in Seq(SUBSET StagedSteps)
  BY DEF Init
<1> QED
  BY <1>1, <1>2, <1>3 DEF Init, TypeOK

LEMMA TypeStep ==
    ASSUME TypeOK, [Next]_vars
    PROVE  TypeOK'
<1>1. CASE Next
  BY <1>1, CmdStep, JournalStep, AppReleaseStep, LeaseStep, HistoryStep, BoundsStep DEF TypeOK
<1>2. CASE UNCHANGED vars
  BY <1>2 DEF vars, files, platform, bounds, TypeOK
<1> QED
  BY <1>1, <1>2

(* TypeOK in every reachable state: the journal, the lease and its record,  *)
(* the staged resources and the command stay well formed.                   *)
THEOREM TypeCorrect == Spec => []TypeOK
<1>1. Init => TypeOK
  BY TypeInit
<1>2. TypeOK /\ [Next]_vars => TypeOK'
  BY TypeStep
<1> QED
  BY <1>1, <1>2, PTL DEF Spec

-----------------------------------------------------------------------------
(* The invariant.  The journal completes the steps in their order, and the  *)
(* running step is the first that is open (InOrder, AtFirst); what it calls *)
(* completed has taken effect (Backed); app-finalize sends the children of  *)
(* the plan (Covers) on a capture that the App Release of the change, once  *)
(* there is one, has outdated for good (Frozen).                            *)
Completed(s) == journal.step[s] = "completed"
Busy == cmd.pc \in {"lease", "write", "done"}
Took(s) ==
    /\ s \in Writes => s \in applied
    /\ s = Finalize => roots # <<>>
    /\ s = End => lease # "own"

InOrder == \A s, t \in Steps : s < t /\ Completed(t) => Completed(s)
AtFirst == Busy => ~Completed(cmd.at) /\ \A s \in Steps : s < cmd.at => Completed(s)
Backed ==
    /\ \A s \in Steps : Completed(s) => Took(s)
    /\ cmd.pc = "done" => Took(cmd.at)
    /\ journal.status = "completed" => \A s \in Steps : Completed(s)
Covers ==
    /\ cmd.pc = "write" => cmd.at \in Writes \cup {Finalize}
    /\ cmd.pc = "write" /\ cmd.at = Finalize => cmd.children = StagedSteps
Frozen == roots # <<>> => Len(roots) = 1 /\ capture < head /\ Completed(Begin)

Inv ==
    /\ TypeOK
    /\ InOrder
    /\ AtFirst
    /\ Backed
    /\ Covers
    /\ Frozen
    /\ RootsCoverPlan

LEMMA InvInit == Init => Inv
<1> SUFFICES ASSUME Init
             PROVE  Inv
  OBVIOUS
<1>1. \A s \in Steps : ~Completed(s)
  BY DEF Init, NoJournal, Completed
<1>2. cmd.pc = "idle" /\ journal.status = "none" /\ roots = <<>>
  BY DEF Init, NoJournal, Idle
<1> QED
  BY <1>1, <1>2, TypeInit
  DEF Inv, InOrder, AtFirst, Busy, Backed, Covers, Frozen, RootsCoverPlan

(* Only RecordStep completes a step.                                        *)
LEMMA CompletedStep ==
    ASSUME TypeOK, Next, NEW s \in Steps
    PROVE  Completed(s)' <=> Completed(s) \/ (RecordStep /\ s = cmd.at)
<1>1. journal \in Journals /\ cmd \in Cmds
  BY DEF TypeOK
<1>2. CASE UNCHANGED journal /\ ~RecordStep
  BY <1>2 DEF Completed
<1>3. CASE \E reviewed \in BOOLEAN : Publish(reviewed)
  BY <1>1, <1>3 DEF Publish, RecordStep, Journals, Completed
<1>4. CASE StartStep
  BY <1>1, <1>4, FirstOpen DEF StartStep, RecordStep, Marked, Open, Journals, Completed
<1>5. CASE RecordStep
  BY <1>1, <1>5 DEF RecordStep, Journals, Cmds, Completed
<1>6. CASE Complete
  BY <1>1, <1>6 DEF Complete, RecordStep, Journals, Completed
<1>7. CASE Catch
  BY <1>1, <1>7 DEF Catch, RecordStep, Journals, Completed
<1> QED
  BY <1>2, <1>3, <1>4, <1>5, <1>6, <1>7
  DEF Next, WaitTimeout, BeginRelease, BeginFails, ScopeRefused, ResolveLease, RunStep,
      FinalizeApp, StepFailsEarly, WriteFails, EndRelease, Undo, Exit, Kill, LeaseExpires,
      OtherBegins, OtherEnds, files

(* Only StartStep begins one.                                               *)
LEMMA BusyStep ==
    ASSUME TypeOK, Next, Busy'
    PROVE  StartStep \/ (Busy /\ cmd'.at = cmd.at /\ ~RecordStep)
<1>1. cmd \in Cmds
  BY DEF TypeOK
<1>2. CASE UNCHANGED cmd
  BY <1>1, <1>2 DEF RecordStep, At, Cmds, Busy
<1>3. CASE BeginRelease \/ BeginFails \/ ScopeRefused \/ EndRelease
  BY <1>1, <1>3
  DEF BeginRelease, BeginFails, ScopeRefused, EndRelease, RecordStep, At, FailStep, Cmds, Busy
<1>4. CASE ResolveLease
  BY <1>1, <1>4 DEF ResolveLease, RecordStep, FailStep, Cmds, Busy
<1>5. CASE RunStep \/ FinalizeApp \/ StepFailsEarly \/ WriteFails
  BY <1>1, <1>5
  DEF RunStep, FinalizeApp, StepFailsEarly, WriteFails, RecordStep, FailStep, Cmds, Busy
<1>6. CASE WaitTimeout \/ RecordStep \/ Complete \/ Catch \/ Undo
  BY <1>1, <1>6 DEF WaitTimeout, RecordStep, Complete, Catch, Undo, At, Cmds, Busy
<1>7. CASE (\E reviewed \in BOOLEAN : Publish(reviewed)) \/ Exit \/ Kill
  BY <1>1, <1>7 DEF Publish, Exit, Kill, Idle, Busy
<1> QED
  BY <1>2, <1>3, <1>4, <1>5, <1>6, <1>7 DEF Next, LeaseExpires, OtherBegins, OtherEnds

LEMMA OrderStep ==
    ASSUME Inv, Next
    PROVE  InOrder' /\ AtFirst'
<1>1. TypeOK /\ InOrder /\ AtFirst /\ cmd \in Cmds
  BY DEF Inv, TypeOK
<1>2. InOrder'
  <2>1. CASE RecordStep
    <3>1. cmd.pc = "done" /\ cmd.at \in Steps
      BY <1>1, <2>1 DEF RecordStep, Cmds
    <3> QED
      BY <1>1, <2>1, <3>1, CompletedStep DEF InOrder, AtFirst, Busy
  <2>2. CASE ~RecordStep
    BY <1>1, <2>2, CompletedStep DEF InOrder
  <2> QED
    BY <2>1, <2>2
<1>3. ASSUME Busy'
      PROVE  ~Completed(cmd.at)' /\ \A s \in Steps : s < cmd'.at => Completed(s)'
  <2>1. CASE StartStep
    <3>1. cmd'.at = NextStep /\ NextStep \in Open /\ \A t \in Open : NextStep <= t
      BY <1>1, <2>1, FirstOpen DEF StartStep, Cmds
    <3>2. ~RecordStep
      BY <2>1 DEF StartStep, RecordStep
    <3> QED
      BY <1>1, <3>1, <3>2, CompletedStep, InSteps DEF Open, Completed
  <2>2. CASE Busy /\ cmd'.at = cmd.at /\ ~RecordStep
    <3>1. cmd.at \in Steps
      BY <1>1 DEF Cmds
    <3> QED
      BY <1>1, <2>2, <3>1, CompletedStep DEF AtFirst, Completed
  <2> QED
    BY <1>1, <1>3, <2>1, <2>2, BusyStep
<1> QED
  BY <1>2, <1>3 DEF AtFirst

(* What took effect stays so: App Releases and applied steps only grow, and *)
(* a lease is acquired only on behalf of a step before release-lease.       *)
LEMMA TookStep ==
    ASSUME Inv, Next, NEW s \in Steps, Took(s), Completed(s) \/ cmd.pc = "done"
    PROVE  Took(s)'
<1>1. applied \subseteq applied'
  BY DEF Next, Publish, StartStep, WaitTimeout, BeginRelease, BeginFails, ScopeRefused,
         ResolveLease, RunStep, FinalizeApp, StepFailsEarly, WriteFails, EndRelease, RecordStep,
         Complete, Catch, Undo, Exit, Kill, LeaseExpires, OtherBegins, OtherEnds, platform, Effect
<1>2. roots # <<>> => roots' # <<>>
  <2>1. roots \in Seq(SUBSET StagedSteps) /\ cmd.children \in SUBSET StagedSteps
    BY DEF Inv, TypeOK, Cmds
  <2> QED
    BY <2>1, ActivateOrNot DEF Activate, OtherEnds
<1>3. lease' = "own" => lease = "own" \/ (cmd.pc = "lease" /\ cmd.at \in Writes \cup {Begin, Finalize})
  BY DEF Next, Publish, StartStep, WaitTimeout, BeginRelease, BeginFails, ScopeRefused,
         ResolveLease, RunStep, FinalizeApp, StepFailsEarly, WriteFails, EndRelease, RecordStep,
         Complete, Catch, Undo, Exit, Kill, LeaseExpires, OtherBegins, OtherEnds, platform,
         Acquired, AcquireFails, GivenUp, LeaseAfterEnd, ReleaseLost
<1>4. cmd.pc = "lease" /\ cmd.at \in Writes \cup {Begin, Finalize} => ~Completed(End)
  <2>1. cmd.at \in Writes \cup {Begin, Finalize} => cmd.at < End
    BY ReleaseExecutionAssumption DEF Writes, Begin, Finalize, End
  <2> QED
    BY <2>1, InSteps DEF Inv, InOrder, AtFirst, Busy
<1> QED
  BY <1>1, <1>2, <1>3, <1>4 DEF Took

(* A step is done when it has taken effect.                                 *)
LEMMA DoneStep ==
    ASSUME Inv, Next, cmd'.pc = "done"
    PROVE  Took(cmd.at)' /\ cmd'.at = cmd.at
<1>1. cmd \in Cmds /\ cmd.at \in Steps
  BY DEF Inv, TypeOK, Cmds
<1>2. roots \in Seq(SUBSET StagedSteps) /\ cmd.children \in SUBSET StagedSteps
  BY DEF Inv, TypeOK, Cmds
<1>3. Begin \notin Writes \cup {Finalize, End} /\ Finalize # End /\ Writes \cap {Finalize, End} = {}
  BY ReleaseExecutionAssumption DEF Writes, Begin, Finalize, End
<1>4. CASE cmd.pc = "done" /\ UNCHANGED cmd
  BY <1>1, <1>4, TookStep DEF Inv, Backed
<1>5. CASE BeginRelease
  BY <1>1, <1>3, <1>5 DEF BeginRelease, At, Cmds, Took
<1>6. CASE RunStep
  BY <1>1, <1>3, <1>6 DEF RunStep, Cmds, Took
<1>7. CASE FinalizeApp
  <2>1. Activate /\ cmd' = [cmd EXCEPT !.pc = "done", !.wrote = TRUE] /\ cmd.at = Finalize
    BY <1>1, <1>7 DEF FinalizeApp, Cmds
  <2>2. roots' # <<>>
    BY <1>2, <2>1 DEF Activate
  <2>3. cmd'.at = Finalize
    BY <1>1, <2>1 DEF Cmds
  <2> QED
    BY <1>3, <2>1, <2>2, <2>3 DEF Took
<1>8. CASE EndRelease
  BY <1>1, <1>3, <1>8
  DEF EndRelease, EndAccepted, LeaseAfterEnd, GivenUp, Held, Usable, At, FailStep, Cmds, Took
<1>9. CASE \/ StartStep \/ WaitTimeout \/ BeginFails \/ ScopeRefused \/ StepFailsEarly
           \/ WriteFails \/ RecordStep \/ Complete \/ Catch \/ Undo
  BY <1>1, <1>9
  DEF StartStep, WaitTimeout, BeginFails, ScopeRefused, StepFailsEarly, WriteFails, RecordStep,
      Complete, Catch, Undo, At, FailStep, Cmds
<1>10. CASE ResolveLease
  BY <1>1, <1>10 DEF ResolveLease, FailStep, Cmds
<1>11. CASE (\E reviewed \in BOOLEAN : Publish(reviewed)) \/ Exit \/ Kill
  BY <1>11 DEF Publish, Exit, Kill, Idle
<1> QED
  BY <1>4, <1>5, <1>6, <1>7, <1>8, <1>9, <1>10, <1>11
  DEF Next, LeaseExpires, OtherBegins, OtherEnds

LEMMA BackedStep ==
    ASSUME Inv, Next
    PROVE  Backed'
<1>1. TypeOK /\ Backed /\ journal \in Journals
  BY DEF Inv, TypeOK
<1>2. ASSUME NEW s \in Steps, Completed(s)'
      PROVE  Took(s)'
  <2>1. Completed(s) \/ (cmd.pc = "done" /\ s = cmd.at)
    BY <1>1, <1>2, CompletedStep DEF RecordStep
  <2> QED
    BY <1>1, <2>1, TookStep DEF Backed
<1>3. cmd'.pc = "done" => Took(cmd.at)'
  BY DoneStep DEF Took
<1>4. ASSUME journal'.status = "completed"
      PROVE  \A s \in Steps : Completed(s)'
  <2>1. \/ journal.status = "completed"
        \/ Complete
    BY <1>1, <1>4
    DEF Next, Publish, StartStep, WaitTimeout, BeginRelease, BeginFails, ScopeRefused,
        ResolveLease, RunStep, FinalizeApp, StepFailsEarly, WriteFails, EndRelease, RecordStep,
        Catch, Classify, Undo, Exit, Kill, LeaseExpires, OtherBegins, OtherEnds, files, Journals
  <2>2. \A s \in Steps : Completed(s)
    BY <1>1, <2>1 DEF Backed, Complete, Open, Completed
  <2> QED
    BY <1>1, <2>2, CompletedStep
<1> QED
  BY <1>2, <1>3, <1>4 DEF Backed, Took

LEMMA CoversStep ==
    ASSUME Inv, Next
    PROVE  Covers'
<1>1. cmd \in Cmds
  BY DEF Inv, TypeOK
<1> SUFFICES ASSUME cmd'.pc = "write"
             PROVE  /\ cmd'.at \in Writes \cup {Finalize}
                    /\ cmd'.at = Finalize => cmd'.children = StagedSteps
  BY DEF Covers
<1>2. CASE UNCHANGED cmd
  BY <1>2 DEF Inv, Covers
<1>3. CASE ResolveLease
  BY <1>1, <1>3 DEF ResolveLease, ScopeOk, ScopeMatches, FailStep, Cmds
<1>4. CASE StartStep \/ WaitTimeout
  BY <1>1, <1>4 DEF StartStep, WaitTimeout, Cmds
<1>9. CASE BeginRelease \/ BeginFails \/ ScopeRefused
  BY <1>1, <1>9 DEF BeginRelease, BeginFails, ScopeRefused, At, FailStep, Cmds
<1>7. CASE RunStep
  <2>1. \/ cmd' = [cmd EXCEPT !.pc = "done", !.wrote = TRUE, !.retain = TRUE]
        \/ cmd' = [cmd EXCEPT !.pc = "done", !.scoped = FALSE]
        \/ cmd' = [cmd EXCEPT !.pc = "done", !.wrote = TRUE]
    BY <1>7, Zenon DEF RunStep
  <2> QED
    BY <1>1, <2>1 DEF Cmds
<1>8. CASE FinalizeApp \/ StepFailsEarly \/ WriteFails
  BY <1>1, <1>8 DEF FinalizeApp, StepFailsEarly, WriteFails, FailStep, Cmds
<1>5. CASE EndRelease \/ RecordStep \/ Complete \/ Catch \/ Undo
  BY <1>1, <1>5 DEF EndRelease, RecordStep, Complete, Catch, Undo, At, FailStep, Cmds
<1>6. CASE (\E reviewed \in BOOLEAN : Publish(reviewed)) \/ Exit \/ Kill
  BY <1>6 DEF Publish, Exit, Kill, Idle
<1> QED
  BY <1>2, <1>3, <1>4, <1>5, <1>6, <1>7, <1>8, <1>9 DEF Next, LeaseExpires, OtherBegins, OtherEnds

(* An App Release is activated when there is none of the change yet, and    *)
(* lease-and-capture, the only step to take a new capture, is over then.    *)
LEMMA FrozenStep ==
    ASSUME Inv, Next
    PROVE  Frozen' /\ RootsCoverPlan'
<1>1. /\ TypeOK /\ Frozen /\ RootsCoverPlan
      /\ head \in Nat /\ capture \in Nat
      /\ roots \in Seq(SUBSET StagedSteps)
  BY DEF Inv, TypeOK
<1>2. Completed(Begin) => Completed(Begin)'
  BY <1>1, CompletedStep, InSteps
<1>3. UNCHANGED capture \/ (BeginRelease /\ ~Completed(Begin) /\ UNCHANGED <<head, roots>>)
  BY DEF Next, Publish, StartStep, WaitTimeout, BeginRelease, BeginFails, ScopeRefused,
         ResolveLease, RunStep, FinalizeApp, StepFailsEarly, WriteFails, EndRelease, RecordStep,
         Complete, Catch, Undo, Exit, Kill, LeaseExpires, OtherBegins, OtherEnds, files,
         Inv, AtFirst, Busy
<1>4. CASE UNCHANGED <<head, roots>>
  BY <1>1, <1>2, <1>3, <1>4 DEF Frozen, RootsCoverPlan
<1>5. CASE OtherEnds
  BY <1>1, <1>2, <1>5 DEF OtherEnds, files, Frozen, RootsCoverPlan
<1>6. CASE cmd.pc = "write" /\ cmd.at = Finalize /\ OnCapturedParent /\ Activate
  <2>1. roots = <<>>
    BY <1>1, <1>6 DEF OnCapturedParent, Frozen
  <2>2. cmd.children = StagedSteps
    BY <1>6 DEF Inv, Covers
  <2>3. roots' = <<StagedSteps>> /\ head' = head + 1
    BY <1>6, <2>1, <2>2 DEF Activate
  <2>4. Completed(Begin)
    <3>1. Begin < Finalize
      BY ReleaseExecutionAssumption DEF Begin, Finalize
    <3> QED
      BY <1>6, <3>1, InSteps DEF Inv, AtFirst, Busy
  <2>5. UNCHANGED capture
    BY <1>3, <2>4
  <2> QED
    BY <1>1, <1>2, <1>6, <2>3, <2>4, <2>5 DEF OnCapturedParent, Frozen, RootsCoverPlan
<1> QED
  BY <1>4, <1>5, <1>6, ActivateOrNot

LEMMA InvStep ==
    ASSUME Inv, [Next]_vars
    PROVE  Inv'
<1>1. CASE Next
  BY <1>1, TypeStep, OrderStep, BackedStep, CoversStep, FrozenStep DEF Inv
<1>2. CASE UNCHANGED vars
  BY <1>2, TypeStep
  DEF vars, files, platform, Inv, InOrder, AtFirst, Backed, Covers, Frozen, RootsCoverPlan,
      Completed, Busy, Took
<1> QED
  BY <1>1, <1>2

(* The invariant holds in every reachable state.                            *)
THEOREM Invariance == Spec => []Inv
<1>1. Init => Inv
  BY InvInit
<1>2. Inv /\ [Next]_vars => Inv'
  BY InvStep
<1> QED
  BY <1>1, <1>2, PTL DEF Spec

(* An App Release of the change has every child of its plan, for every plan *)
(* and whatever failed on the way.                                          *)
THEOREM PlanIsCovered == Spec => []RootsCoverPlan
<1>1. Inv => RootsCoverPlan
  BY DEF Inv
<1> QED
  BY <1>1, Invariance, PTL

(* However often app-finalize is sent, the change activates one App Release.*)
THEOREM ActivatedOnce == Spec => []OneRoot
<1>1. Inv => OneRoot
  <2> SUFFICES ASSUME Inv
               PROVE  OneRoot
    OBVIOUS
  <2>1. CASE roots = <<>>
    BY <2>1 DEF OneRoot
  <2>2. CASE roots # <<>>
    BY <2>2 DEF Inv, Frozen, OneRoot
  <2> QED
    BY <2>1, <2>2
<1> QED
  BY <1>1, Invariance, PTL

(* A release that execution.json calls completed has released everything    *)
(* and holds no lease.                                                      *)
THEOREM CompletionIsReal == Spec => []CompletedIsReleased
<1>1. Inv => CompletedIsReleased
  <2> SUFFICES ASSUME Inv, journal.status = "completed"
               PROVE  applied = Writes /\ roots # <<>> /\ lease # "own"
    BY DEF CompletedIsReleased
  <2>1. \A s \in Steps : Took(s)
    BY DEF Inv, Backed
  <2> QED
    BY <2>1, InSteps DEF Took, Inv, TypeOK
<1> QED
  BY <1>1, Invariance, PTL

-----------------------------------------------------------------------------
(* The review of an unclear write in place, for plans whose steps that      *)
(* write in place all come before those that stage.  The run                *)
(* review_violation shows that this condition is needed.                    *)
Direct == Writes \ StagedSteps
DirectFirst == \A w \in Direct, s \in StagedSteps : w < s

StagedIsCompleted == journal.staged => \E s \in StagedSteps : Completed(s)

(* A command that acquired a lease for a step holds it until release-lease. *)
ScopedIsHeld ==
    /\ cmd.scoped /\ cmd.pc \in {"loop", "lease", "write", "done"}
    /\ ~Completed(End) /\ ~(cmd.pc = "done" /\ cmd.at = End)
    => Held

(* A failure that leaves a write in place unclear.                          *)
UnclearFailure ==
    cmd.pc = "catch" /\ ~cmd.clear /\ cmd.at \in Direct =>
        /\ ~Completed(cmd.at)
        /\ cmd.scoped => cmd.wrote

AwaitsReview ==
    unclear \cap Direct # {} =>
        /\ journal.status = "write-review-required"
        /\ cmd.pc \in {"idle", "exit"}
        /\ cmd.pc = "exit" /\ cmd.scoped => cmd.wrote

RInv ==
    /\ Inv
    /\ cmd.ok => cmd.pc = "exit" /\ journal.status = "completed"
    /\ StagedIsCompleted
    /\ ScopedIsHeld
    /\ UnclearFailure
    /\ AwaitsReview

LEMMA RInvInit == Init => RInv
<1> SUFFICES ASSUME Init
             PROVE  RInv
  OBVIOUS
<1>1. cmd.pc = "idle" /\ ~cmd.ok /\ ~cmd.scoped /\ ~journal.staged /\ unclear = {}
  BY DEF Init, NoJournal, Idle
<1> QED
  BY <1>1, InvInit
  DEF RInv, StagedIsCompleted, ScopedIsHeld, UnclearFailure, AwaitsReview

LEMMA OkStep ==
    ASSUME RInv, Next, cmd'.ok
    PROVE  cmd'.pc = "exit" /\ journal'.status = "completed"
<1>1. cmd \in Cmds /\ journal \in Journals /\ (cmd.ok => cmd.pc = "exit" /\ journal.status = "completed")
  BY DEF RInv, Inv, TypeOK
<1>2. CASE UNCHANGED <<cmd, journal>>
  BY <1>1, <1>2
<1>3. CASE StartStep \/ WaitTimeout
  BY <1>1, <1>3 DEF StartStep, WaitTimeout, Cmds
<1>4. CASE BeginRelease \/ BeginFails \/ ScopeRefused
  BY <1>1, <1>4 DEF BeginRelease, BeginFails, ScopeRefused, At, FailStep, Cmds
<1>5. CASE ResolveLease
  BY <1>1, <1>5 DEF ResolveLease, FailStep, Cmds
<1>6. CASE RunStep
  BY <1>1, <1>6 DEF RunStep, Cmds
<1>7. CASE FinalizeApp \/ StepFailsEarly \/ WriteFails
  BY <1>1, <1>7 DEF FinalizeApp, StepFailsEarly, WriteFails, FailStep, Cmds
<1>8. CASE EndRelease \/ RecordStep \/ Catch \/ Undo
  BY <1>1, <1>8 DEF EndRelease, RecordStep, Catch, Undo, At, FailStep, Cmds
<1>9. CASE Complete
  BY <1>1, <1>9 DEF Complete, Cmds, Journals
<1>10. CASE (\E reviewed \in BOOLEAN : Publish(reviewed)) \/ Exit \/ Kill
  BY <1>10 DEF Publish, Exit, Kill, Idle
<1> QED
  BY <1>2, <1>3, <1>4, <1>5, <1>6, <1>7, <1>8, <1>9, <1>10
  DEF Next, LeaseExpires, OtherBegins, OtherEnds, files

LEMMA StagedStep ==
    ASSUME RInv, Next
    PROVE  StagedIsCompleted'
<1>1. TypeOK /\ journal \in Journals /\ cmd \in Cmds /\ StagedIsCompleted
  BY DEF RInv, Inv, TypeOK
<1>2. \A s \in StagedSteps : Completed(s) => Completed(s)'
  BY <1>1, CompletedStep, InSteps
<1>3. CASE RecordStep
  <2>1. journal'.staged => journal.staged \/ cmd.at \in StagedSteps
    BY <1>1, <1>3 DEF RecordStep, Journals
  <2>2. \A s \in StagedSteps : s = cmd.at => Completed(s)'
    BY <1>1, <1>3, CompletedStep, InSteps
  <2> QED
    BY <1>1, <1>2, <2>1, <2>2 DEF StagedIsCompleted
<1>4. CASE ~RecordStep
  <2>1. journal'.staged = journal.staged
    BY <1>1, <1>4
    DEF Next, Publish, StartStep, WaitTimeout, BeginRelease, BeginFails, ScopeRefused,
        ResolveLease, RunStep, FinalizeApp, StepFailsEarly, WriteFails, EndRelease, Complete,
        Catch, Undo, Exit, Kill, LeaseExpires, OtherBegins, OtherEnds, files, Journals
  <2> QED
    BY <1>1, <1>2, <2>1 DEF StagedIsCompleted
<1> QED
  BY <1>3, <1>4

LEMMA ScopedStep ==
    ASSUME RInv, Next
    PROVE  ScopedIsHeld'
<1> SUFFICES ASSUME cmd'.scoped, cmd'.pc \in {"loop", "lease", "write", "done"},
                    ~Completed(End)', ~(cmd'.pc = "done" /\ cmd'.at = End)
             PROVE  Held'
  BY DEF ScopedIsHeld
<1>1. cmd \in Cmds /\ cmd.at \in Steps /\ ScopedIsHeld
  BY DEF RInv, Inv, TypeOK, Cmds
<1>2. ~Completed(End) /\ ~(RecordStep /\ cmd.at = End)
  BY CompletedStep, InSteps DEF RInv, Inv
<1>3. Begin # End /\ Finalize # End /\ End \notin Writes
  BY ReleaseExecutionAssumption DEF Begin, Finalize, End, Writes
<1>4. CASE UNCHANGED <<lease, stored, cmd>>
  BY <1>1, <1>2, <1>4 DEF ScopedIsHeld, Held, Usable
<1>5. CASE StartStep
  BY <1>1, <1>2, <1>5 DEF StartStep, platform, Cmds, ScopedIsHeld, Held, Usable
<1>6. CASE BeginRelease
  <2>1. cmd'.scoped = cmd.scoped
    BY <1>1, <1>6 DEF BeginRelease, At, Cmds
  <2> QED
    BY <1>1, <1>6, <2>1 DEF BeginRelease, Acquired, Held, Usable
<1>7. CASE ResolveLease
  <2>1. cmd'.pc # "catch"
    OBVIOUS
  <2> QED
    BY <1>1, <1>7, <2>1 DEF ResolveLease, Acquired, FailStep, Held, Usable, Cmds
<1>8. CASE RunStep
  <2>1. \/ GivenUp /\ cmd' = [cmd EXCEPT !.pc = "done", !.scoped = FALSE]
        \/ UNCHANGED <<lease, stored>> /\ cmd' = [cmd EXCEPT !.pc = "done", !.wrote = TRUE]
        \/ UNCHANGED <<lease, stored>>
              /\ cmd' = [cmd EXCEPT !.pc = "done", !.wrote = TRUE, !.retain = TRUE]
    BY <1>8, Zenon DEF RunStep
  <2>2. cmd.pc = "write" /\ cmd.at # End
    BY <1>3, <1>8 DEF RunStep
  <2> QED
    BY <1>1, <1>2, <2>1, <2>2 DEF Cmds, ScopedIsHeld, Held, Usable
<1>9. CASE FinalizeApp
  BY <1>1, <1>2, <1>3, <1>9 DEF FinalizeApp, files, Cmds, ScopedIsHeld, Held, Usable
<1>10. CASE RecordStep
  BY <1>1, <1>2, <1>10 DEF RecordStep, At, platform, Cmds, ScopedIsHeld, Held, Usable
<1>11. CASE EndRelease
  <2>1. cmd.at = End /\ (cmd' = [cmd EXCEPT !.pc = "done"] \/ cmd'.pc = "catch")
    BY <1>1, <1>11 DEF EndRelease, At, FailStep, Cmds
  <2> QED
    BY <1>1, <2>1 DEF Cmds
<1>12. CASE \/ WaitTimeout \/ BeginFails \/ ScopeRefused \/ StepFailsEarly \/ WriteFails
            \/ Complete \/ Catch \/ Undo
  <2>1. cmd'.pc \in {"catch", "exit", "undo"}
    BY <1>1, <1>12
    DEF WaitTimeout, BeginFails, ScopeRefused, StepFailsEarly, WriteFails, Complete, Catch, Undo,
        At, FailStep, Cmds
  <2> QED
    BY <2>1
<1>13. CASE (\E reviewed \in BOOLEAN : Publish(reviewed)) \/ Exit \/ Kill
  BY <1>13 DEF Publish, Exit, Kill, Idle
<1>14. CASE LeaseExpires \/ OtherBegins \/ OtherEnds
  BY <1>1, <1>2, <1>14
  DEF LeaseExpires, OtherBegins, OtherEnds, files, ScopedIsHeld, Held, Usable
<1> QED
  BY <1>4, <1>5, <1>6, <1>7, <1>8, <1>9, <1>10, <1>11, <1>12, <1>13, <1>14 DEF Next

LEMMA UnclearStep ==
    ASSUME RInv, Next
    PROVE  UnclearFailure'
<1> SUFFICES ASSUME cmd'.pc = "catch", ~cmd'.clear, cmd'.at \in Direct
             PROVE  ~Completed(cmd.at)' /\ (cmd'.scoped => cmd'.wrote)
  BY DEF UnclearFailure, Completed
<1>1. cmd \in Cmds /\ cmd.at \in Steps
  BY DEF RInv, Inv, TypeOK, Cmds
<1>2. \A s \in Steps : ~RecordStep /\ ~Completed(s) => ~Completed(s)'
  BY CompletedStep DEF RInv, Inv
<1>3. Direct \subseteq Steps /\ End \notin Direct /\ Finalize \notin Direct
  BY InSteps, ReleaseExecutionAssumption DEF Direct, Finalize, End, Writes
<1>4. CASE UNCHANGED cmd /\ ~RecordStep
  BY <1>1, <1>2, <1>4 DEF RInv, UnclearFailure, Completed
<1>5. CASE ResolveLease
  <2>1. ~Held /\ cmd.pc = "lease" /\ cmd' = [cmd EXCEPT !.pc = "catch", !.clear = FALSE]
    BY <1>1, <1>5 DEF ResolveLease, FailStep, Held, Usable, Cmds
  <2>2. cmd'.at = cmd.at /\ cmd'.scoped = cmd.scoped /\ ~RecordStep
    BY <1>1, <2>1 DEF Cmds, RecordStep
  <2>3. ~Completed(cmd.at) /\ ~Completed(End)
    <3>1. cmd.at < End
      BY <2>2, ReleaseExecutionAssumption DEF Direct, Writes, End
    <3> QED
      BY <1>1, <2>1, <3>1, InSteps DEF RInv, Inv, InOrder, AtFirst, Busy
  <2>4. ~cmd.scoped
    BY <2>1, <2>3 DEF RInv, ScopedIsHeld
  <2> QED
    BY <1>1, <1>2, <2>2, <2>3, <2>4 DEF Completed
<1>6. CASE WriteFails
  <2>1. cmd.pc = "write" /\ cmd'.at = cmd.at /\ cmd'.wrote /\ ~RecordStep
    BY <1>1, <1>6 DEF WriteFails, Cmds, RecordStep
  <2>2. ~Completed(cmd.at)
    BY <2>1 DEF RInv, Inv, AtFirst, Busy
  <2> QED
    BY <1>1, <1>2, <2>1, <2>2 DEF Completed
<1>7. CASE FinalizeApp
  BY <1>1, <1>3, <1>7 DEF FinalizeApp, Cmds
<1>8. CASE WaitTimeout \/ BeginRelease \/ BeginFails \/ ScopeRefused \/ StepFailsEarly
  BY <1>1, <1>8
  DEF WaitTimeout, BeginRelease, BeginFails, ScopeRefused, StepFailsEarly, At, FailStep, Cmds
<1>9. CASE EndRelease
  BY <1>1, <1>3, <1>9 DEF EndRelease, At, FailStep, Cmds
<1>10. CASE StartStep \/ RecordStep \/ Complete \/ Catch \/ Undo
  BY <1>1, <1>10 DEF StartStep, RecordStep, Complete, Catch, Undo, At, Cmds
<1>11. CASE RunStep
  BY <1>1, <1>11 DEF RunStep, Cmds
<1>12. CASE (\E reviewed \in BOOLEAN : Publish(reviewed)) \/ Exit \/ Kill
  BY <1>12 DEF Publish, Exit, Kill, Idle
<1> QED
  BY <1>4, <1>5, <1>6, <1>7, <1>8, <1>9, <1>10, <1>11, <1>12
  DEF Next, LeaseExpires, OtherBegins, OtherEnds

(* A write in place that fails before any child is staged is classified as  *)
(* one to review.                                                           *)
LEMMA CatchAwaits ==
    ASSUME DirectFirst, RInv, Catch, unclear' \cap Direct # {}
    PROVE  AwaitsReview'
<1>1. /\ cmd \in Cmds /\ journal \in Journals /\ cmd.at \in Steps
      /\ cmd.pc = "catch" /\ unclear \cap Direct = {}
  BY DEF RInv, Inv, TypeOK, Cmds, Catch, AwaitsReview
<1>2. ~cmd.clear /\ cmd.at \in Direct
  BY <1>1 DEF Catch
<1>3. ~Completed(cmd.at) /\ (cmd.scoped => cmd.wrote)
  BY <1>1, <1>2 DEF RInv, UnclearFailure
<1>4. \A s \in StagedSteps : ~Completed(s)
  BY <1>1, <1>2, <1>3, InSteps DEF DirectFirst, RInv, Inv, InOrder
<1>5. ~journal.staged
  BY <1>4 DEF RInv, StagedIsCompleted
<1>6. Attempted
  BY <1>2 DEF Attempted, Written, Direct
<1>7. journal'.status = "write-review-required"
  BY <1>1, <1>5, <1>6 DEF Catch, Classify, Journals
<1>8. cmd'.pc = "exit" /\ cmd'.scoped = cmd.scoped /\ cmd'.wrote = cmd.wrote
  BY <1>1, <1>6 DEF Catch, At, Cmds
<1> QED
  BY <1>3, <1>7, <1>8 DEF AwaitsReview

LEMMA AwaitsStep ==
    ASSUME DirectFirst, RInv, Next
    PROVE  AwaitsReview'
<1> SUFFICES ASSUME unclear' \cap Direct # {}
             PROVE  AwaitsReview'
  BY DEF AwaitsReview
<1>1. CASE Catch
  BY <1>1, CatchAwaits
<1>2. CASE ~Catch
  <2>1. unclear' \subseteq unclear
    BY <1>2
    DEF Next, Publish, StartStep, WaitTimeout, BeginRelease, BeginFails, ScopeRefused,
        ResolveLease, RunStep, FinalizeApp, StepFailsEarly, WriteFails, EndRelease, RecordStep,
        Complete, Undo, Exit, Kill, LeaseExpires, OtherBegins, OtherEnds
  <2>2. /\ journal.status = "write-review-required"
        /\ cmd.pc \in {"idle", "exit"}
        /\ cmd.pc = "exit" /\ cmd.scoped => cmd.wrote
    BY <2>1 DEF RInv, AwaitsReview
  <2>3. \/ UNCHANGED <<journal, cmd>>
        \/ Exit \/ Kill
        \/ \E reviewed \in BOOLEAN : Publish(reviewed)
    BY <1>2, <2>2
    DEF Next, StartStep, WaitTimeout, BeginRelease, BeginFails, ScopeRefused, ResolveLease,
        RunStep, FinalizeApp, StepFailsEarly, WriteFails, EndRelease, RecordStep, Complete, Undo,
        LeaseExpires, OtherBegins, OtherEnds, files
  <2>4. CASE UNCHANGED <<journal, cmd>>
    BY <2>2, <2>4 DEF AwaitsReview
  <2>5. CASE Exit \/ Kill
    BY <2>2, <2>5 DEF Exit, Kill, Idle, files, AwaitsReview
  <2>6. CASE \E reviewed \in BOOLEAN : Publish(reviewed)
    BY <2>2, <2>6 DEF Publish, MayResume
  <2> QED
    BY <2>3, <2>4, <2>5, <2>6
<1> QED
  BY <1>1, <1>2

LEMMA RInvStep ==
    ASSUME DirectFirst, RInv, [Next]_vars
    PROVE  RInv'
<1>1. CASE Next
  BY <1>1, InvStep, OkStep, StagedStep, ScopedStep, UnclearStep, AwaitsStep DEF RInv
<1>2. CASE UNCHANGED vars
  BY <1>2, InvStep
  DEF vars, files, platform, RInv, StagedIsCompleted, ScopedIsHeld, UnclearFailure, AwaitsReview,
      Completed, Held, Usable
<1> QED
  BY <1>1, <1>2

(* A write in place whose result the command could not tell is sent again   *)
(* only after --resume-after-review.                                        *)
THEOREM ReviewComesFirst ==
    ASSUME DirectFirst
    PROVE  Spec => []ReviewedBeforeRepeat
<1>1. Init => RInv
  BY RInvInit
<1>2. RInv /\ [Next]_vars => RInv'
  BY RInvStep
<1>3. RInv => ReviewedBeforeRepeat
  BY DEF RInv, Inv, Covers, AwaitsReview, Direct, ReviewedBeforeRepeat
<1> QED
  BY <1>1, <1>2, <1>3, PTL DEF Spec

(* Until that review the program does not give the lease back.              *)
THEOREM LeaseWaitsForReview ==
    ASSUME DirectFirst
    PROVE  Spec => LeaseKeptForReview
<1>1. Init => RInv
  BY RInvInit
<1>2. RInv /\ [Next]_vars => RInv'
  BY RInvStep
<1>3. ASSUME RInv, Next, lease = "own", lease' # "own", unclear \cap (Writes \ StagedSteps) # {}
      PROVE  cmd.pc = "idle"
  <2>1. /\ journal.status = "write-review-required"
        /\ cmd.pc \in {"idle", "exit"}
        /\ cmd.pc = "exit" /\ cmd.scoped => cmd.wrote
    BY <1>3 DEF RInv, AwaitsReview, Direct
  <2>2. cmd.pc = "exit" => ~GivesUp
    BY <1>3, <2>1 DEF RInv, GivesUp
  <2>3. UNCHANGED lease \/ LeaseExpires
    BY <1>3, <2>1, <2>2
    DEF Next, Publish, StartStep, WaitTimeout, BeginRelease, BeginFails, ScopeRefused,
        ResolveLease, RunStep, FinalizeApp, StepFailsEarly, WriteFails, EndRelease, RecordStep,
        Complete, Catch, Undo, Exit, Kill, OtherBegins, OtherEnds, platform
  <2> QED
    BY <1>3, <2>3 DEF LeaseExpires
<1>4. RInv /\ [Next]_vars =>
        [lease = "own" /\ lease' # "own" /\ unclear \cap (Writes \ StagedSteps) # {}
         => cmd.pc = "idle"]_vars
  BY <1>3
<1> QED
  BY <1>1, <1>2, <1>4, PTL DEF Spec, LeaseKeptForReview
=============================================================================
