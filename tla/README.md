# Formal models of OpenXiangda

TLA+ models, model-checking runs and machine-checked proofs for the release
machinery of the OpenXiangda command line (`src/lib`): what happens to an
application on the platform, and to the files of a workspace, when several
commands, tasks and machines publish at the same time, fail half-way, are
killed, and try again.

All definitions are translated from the JavaScript.  The platform (the server)
is not in the repository; it is modelled from how the code calls it and what the
code relies on, and every assumption about it is listed under
[What is assumed of the platform](#what-is-assumed-of-the-platform).

Contents: [the system](#the-system) ·
[modules](#modules) ·
[runs](#runs) ·
[proofs](#proofs) ·
[disagreements found](#disagreements-found) ·
[what is assumed](#what-is-assumed-of-the-platform) ·
[what is not modelled](#what-is-not-modelled) ·
[plan](#plan) ·
[running it](#running-it)

## The system

`openxiangda` is a Node.js CLI (`src/lib`, about 50,000 lines, of which `cli.js`
has 31,800) with a browser SDK (`src/packages/sdk`), project templates, skills
and smoke tests.  A *workspace* is a git worktree that holds the sources of one
application.  Publishing turns its forms, configuration, backend functions,
workflows and runtime code into *child releases* on the platform and then
activates an *App Release*, the root that names one child per resource.
Several people and agents do this at the same time, from several worktrees and
machines, with nothing in common but the platform; commands of one worktree
also share its files.

`docs/release-concurrency-incident-matrix.md` lists the accidents that this
machinery must exclude and twelve release invariants.  Those that a state
machine can say something about are the core of these models: one promotion
session per application (8), planned targets, writes and final manifest agree
(9), an App Release is activated only on the parent that it was captured from
(5), a write that met a conflict is not silently repeated (7).

### Components

| Component | Code | State it keeps | Operations | What is hard |
| --- | --- | --- | --- | --- |
| Delivery V2 executor | `delivery-v2-executor.js`, `delivery-v2-cli.js` | ReleaseRuns at the platform (status, attempt, checkpoints, result); in the process the current run, plan and step results | deploy, rollback, retry, status, list | two executors on one run, takeover by retry, resent and late requests, a crash between a step and its checkpoint, a plan that changes between attempts |
| Delivery V2 steps in the CLI | `cli.js`, `release-plan.js` | captured App Release, staged children | run a layer, app-finalize (capture, scope check, prepare, activate, read back) | a stale capture, children of earlier attempts, another run activating in between |
| Project state file | `config.js` | `.openxiangda/state.json`, its lock file, the snapshot a command loaded | load, save (lock, read, three-way merge, rename) | concurrent saves, repeated saves of one object, stale locks of killed commands |
| Publish lease heartbeat, upload workers | `publish-lease-heartbeat.js`, `cli.js` | the lease at the platform and as the client knows it, one shared renewal, a timer, upload lanes | start, tick, renew, beforeWrite, stop, finalize | time; a renewal shared by workers; failure of one of them; renewal racing release |
| Worktree ownership | `worktree-owner.js` | `worktree-owner.json` and its lock | claim, renew, take over, release, sdd ready | two tasks, expiry, check outside and act inside the lock |
| Worktree cleanup | `worktree-cleanup.js` | git worktrees and their branches | plan, remove, delete the branch | planned before the lock, removed under it, the branch deleted after it; git does not know the lock |
| Release execution journal | `cli.js`, `release-error-classification.js`, `release-plan.js` | `execution.json`: status of every step and of the whole, whether anything was staged or written | release publish (steps, failure, resume, review) | failure or kill at any point, a lease lost between commands, an unclear write |
| Publish lease across commands | `cli.js`, `publish-lease.js` | lease record and change baseline in `state.json` | begin, acquire by a write, renew, end, status, reconcile | a record without a lease and a lease without a record; two records saved one after the other; a main line that moves between two requests |
| App Release capture and publication | `cli.js` | frozen capture, `staged-resources.json`, active root | capture, stage, finalize, rollback, abort | compare-and-set on the parent; adoption of a verified root |
| Managed ship | `cli.js` | `ship.json`; at the platform candidates, deployments, the active release of each environment | ship, ship --confirm-production, deploy, test, promote, reconcile, fail | a crash between a creation at the platform and its record; another deployment in the slot; `ship.json` written by two terminals |
| Application environments | `application-environments.js` | targets and resource bindings of the two environments, sealed candidates, the last deployment of each target | bind, initialize, seal, check a candidate | bindings or files that changed after the seal |
| HTTP client and authentication | `http.js`, `cli.js` | tokens in the profile | request, retry, refresh after a 401 | resending a write; two commands refreshing one token |
| Release plan | `release-plan.js` | none | targets and order of steps | an order in which something is used before it is released |
| Delivery V2 package | `delivery-v2-package.js`, `dependency-capsule.js`, `source-dependencies.js`, `runtime-lineage.js` | none | canonicalize, hash, seal | determinism |
| Change baselines | `change-baseline.js`, `integration-bundle.js`, `release-mainline.js`, `git-remote-identity.js` | the baseline record of `state.json`, the frozen heads at the platform | freeze, activate, preflight, clear; ancestry and input hashes of a candidate | a main line that moves |
| SDD workflow | `sdd.js`, `design-gates.js`, `design-review.js`, `task-status.js` | change documents | stage gates, status | one task at a time, by ownership |
| Set-up and skills | `workspace-init.js`, `workspace-bootstrap.js`, `skills.js`, ... | copied files | one-shot copies | – |
| Contracts and loaders | `resource-binding-contract.js`, `form-schema-loader.js`, ... | none | validation, bundling | – |
| Browser SDK | `packages/sdk/src` | authentication, page stack, runtime cache, form state | runtime client, providers, form components, build | callbacks and re-rendering |
| The platform | external | runs, leases, App Releases | – | – |

### How they interact

```
   deploy / rollback / retry            release publish (one worktree)
            |                                   |
   Delivery V2 executor                Release execution journal
            |        \                   /      |        \
            |         app-finalize, staged      |      worktree ownership
            |         children, scope check     |      (who may work here)
            |                |                  |
            |        publish lease: acquire, heartbeat, release
            |                |                  |
            +--- platform: runs, lease, App Releases      state.json (lock, merge)
```

The executor keeps its progress at the platform, as checkpoints; `release
publish` keeps it in a private file of the worktree.  Both end in the same
app-finalize.  `release ship` deploys one sealed candidate to preproduction and
production, each time by `release publish`, and keeps what it knows of it in
`ship.json`.  The publish lease is what makes different workspaces take turns;
the change baseline, frozen before the lease is asked for, is what a write is
compared with; the lock files make processes of one workspace take turns; the compare-and-set
on the captured parent is the last line of defence against an old capture.

## Modules

| Module | Models | Extends |
| --- | --- | --- |
| `AtomicPromotion` | abstract: the content of the application changes from package to package in one step, and only a live package is confirmed | |
| `DeliveryRun` | Delivery V2 executor and the steps it drives | |
| `LockFile` | the lock file protocol that `config.js` and `worktree-owner.js` share | |
| `ProjectState` | `state.json`: load, edit, merge, save | `LockFile` |
| `WorktreeOwner` | ownership of a worktree and its cleanup | `LockFile` |
| `PublishLease` | heartbeat, upload lanes and end of one publishing command, with time | |
| `ReleaseExecution` | the journal of `release publish` over many commands | |
| `ManagedShip` | `release ship` and the commands around it: candidate, preproduction, production | |
| `PublishSession` | change baseline and publish lease of several worktrees, over many commands | |
| `MC*` | constants of the instances for TLC | |
| `*Proofs` | theorems and their proofs, one module per component | |

### DeliveryRun (and AtomicPromotion)

A ReleaseRun is `run[r]` (`status`, `attempt`, the checkpoints `done`, the staged
`child` of each layer, the result of app-finalize, the reported App Release).
`lease`, `releases`, `head` and `live` are what else the platform keeps: who
holds the publish lease, the App Releases that were activated, which is active,
and which child release is active in each layer.  `ex[e]` is the process `e`:
`pc` names the `await` it is in, and the other fields are the locals of
`executeRun`.  `late` holds copies of requests that are still in the network.

| Action | Code |
| --- | --- |
| `Deploy`, `CreateRun` | `deploy`: newest succeeded run, `POST /delivery/runs` under the idempotency key of the package |
| `Rollback` | `rollback`: finds the run by the App Release it reported; `forceAll` |
| `Retry`, `RequestRunRetry`, `ReadPrevious` | `retry`: opens the next attempt, then reads the previous run |
| `Begin` | plan (`releaseTargets`, `buildWorkspaceReleaseSteps`), `preparing` |
| `SkipStep`, `StartStep`, `RunStep` | one iteration of the loop of `executeRun`: skipped by checkpoint (form-ensure is replayed on this machine), or executed under the lease and recorded |
| `CaptureApp`, `ActivateApp` | app-finalize: scope check, overlay of the children, prepare, activate on the captured parent |
| `FinishSteps`, `VerifyActivation` | `verifying`, readback, `succeeded` |
| `Respond`, `AnswerLost`, `Resend`, `DeliverLate` | one `recordCheckpoint` and the faults of its request |
| `Throw`, `ReportFailure`, `Crash`, `Return` | the catch block with `POST /fail`, the end of the process |
| `LeaseExpires` | the lease of an unfinished run runs out |

A package is the version that it gives to each layer; versions of one layer are
only compared.  Layers in `DirectLayers` are written in place (roles, menus,
routes), the others are staged and become live together with the App Release.
`AtomicPromotion` is what a user of `deploy` is promised; the refinement mapping
reads the live content from `live` and takes as confirmed the packages of
succeeded runs.

### LockFile and ProjectState

The lock is the existence of a file.  `Acquire` is `openSync(..., 'wx')`;
`FindOld` (the `statSync` that shows an age over 30 s) and `RemoveOld` (the
`unlinkSync` of the path) are separate steps, because they are separate system
calls; `GiveUp` is the time-out.  A lock grows old when its maker is dead, or
was suspended for 30 s (`MaxStalls`).

`state.json` is abstracted to its leaves, `<<record, field>>`, whose value is the
process that wrote it.  `base[p]` is `projectStateBaselines`, `mine[p]` the
state object that the command edits, `merged[p]` the file about to be renamed.
`Operations` is the difference of two trees, in the units in which
`applyProjectStateOperations` treats it (a deleted record is one operation),
`Conflict` its conflict rule with the exception for `updatedAt`, and `Merge` what
it writes.  `kept` and `edited` are history.

### WorktreeOwner

`owner` is the owner file together with whether its `expiresAt` is to come;
`claims` is history: the claims whose tasks may still rely on them.  Every
command is `Start` (the checks before the lock), `AcquireLock`, `Read` (the
checks under it, `Allowed`), `Write` (`Claim`, `ReleaseOwner` or `Cleanup`) and
`ReleaseLock`.  `Expire` is the passing of the owner's time.

Cleanup is about the work as well: `branch` (its head, and what main has of it),
`dirty` and `releasing` change by `Edit`, `Commit`, `Integrate`, `StartRelease` and
`EndRelease`, which need no lock, and `planned[p]` is the head that cleanup saw.
`Removable` stands for `inspectWorktree`, `StillRemovable` for its repetition under
the lock; after the lock `DeleteBranch` deletes the branch.  A release claims the
worktree before it leaves a record in it (`StartRelease`); that it saves the record
while its claim lasts, of at least five minutes, is assumed.

### PublishLease

Time is discrete.  `remote` and `local` are what is left of the lease at the
server and by the client's `expiresAt`; `renewal`, `age` and `granted` describe
the one renewal in flight; `quiet` is the time since the last tick.  `lane[w]` is
an upload worker: `TakeFile`, `CheckLease` (`beforeWrite`: refuse, go on, or wait
for the shared renewal), `UploadAtServer`, `UploadAnswered`, `UploadSentAgain`,
`UploadFailed`.  `RenewAnswered` and `RenewFailed` include what the waiting
workers do on resumption.  `Conclude`, `FinishStop`, `ReleaseLease` and
`ReleaseFailed` are the end of the command with
`finalizeCommandScopedPublishLease`.  `TimePasses` is disabled only while a tick is
due: a request may take any time.  `age` and the history `slowest`, the longest that a
renewal took so far, are counted up to `TTL`.

### ReleaseExecution

`journal` is `execution.json`: the status of the whole, the status of every step
and the two flags (`staged`, `written`) by which
`classifyReleaseExecutionFailure` decides whether the next command may go on
or needs `--resume-after-review`.  `stored` and `baseline` are the lease record
and the baseline in `state.json`, `staged` and `capture` the other private files.
`cmd` is the running command: `StartStep` marks a step, `BeginRelease`,
`ResolveLease`, `RunStep`, `FinalizeApp` and `EndRelease` execute it, `RecordStep`
completes it; `Catch`, `Undo` and `Exit` are the catch block, the end of a
release that wrote nothing, and the finalization of a lease that the command
acquired.  Between two commands the lease runs out (`LeaseExpires`) and other
workspaces release the same application (`OtherBegins`, `OtherEnds`).  `applied`
and `unclear` are history: what took effect, and which writes failed without a
clear answer and have not been reviewed.

The plan is an input: `NumSteps` steps in order, of which `StagedSteps` stage a
child and `ReusableSteps` are forms, whose child a new lifecycle finds again.

### ManagedShip

The platform is `cands` (the change that each sealed candidate belongs to),
`deps` (deployments: environment, candidate, status, whether the release was
activated, evidence) and `head` (the deployment whose release each environment
runs).  `ship[ch]` is `ship.json` of one change, `cmd[c]` the locals of a command
and, in `pc`, the request or the file access that comes next.

| Action | Code |
| --- | --- |
| `ShipCommand`, `Seal`, `RecordCandidate`, `Inspect`, `RecordAwaiting`, `Reread` | `runApplicationShipCommand`: preproduction phase, and the second phase of a single command |
| `Create`, `CreateRefused`, `Activate`, `ReturnDeployment`, `PublishFails`, `MarkFailed` | `deployApplicationCandidate` in either environment; what `release publish` does inside is `ReleaseExecution` |
| `ReadHead`, `ReadOriginal`, `FindReplacement`, `RecordRecovered` | `resolvePreproductionDeploymentForAcceptance`: three requests, one after the other |
| `Reconcile`, `Complete` | `completeManagedDeployment` |
| `RecordConfirmed`, `RecordFailure`, `RecordProductionFailure`, `RecordEvidenceFailure`, `RecordCompleted` | the other writes of `ship.json`; `Merge` lays a patch over the file as it is by then |
| `DeployCommand`, `TestCommand`, `FailCommand`, `ReconcileCommand` | `release deploy`, `promote`, `test`, `fail`, `reconcile` |
| `Crash`, `RequestLost`, `AnswerLost`, `ExpireEvidence` | faults; `Thrown` says where an error is caught |

### PublishSession

`file[w]` is what `state.json` of worktree `w` says of a promotion: the change
baseline (`bl`, pending or active) and the lease (`ls`, with its session and its
term).  `cmd[w]` is the one command that runs there, `sent[w]` the request it
waits for, and `orphans` the requests of killed commands that are still in the
network.  Of the platform there are the frozen `baselines`, the `lease` and what
is `online`; of git, the `tip` of main.  A lease has *terms*: each grant and each
renewal is one, and `expired` says how many of them are over, so that a record
may know an older term than the platform.

| Action | Code |
| --- | --- |
| `Start`, `StartEnd` | `release begin`, `resource publish`, `release renew`, for the recorded change or another one; `release end` |
| `Refuse`, `DropOldLease` | the checks before the first request, and the source of a release that left the frozen commit |
| `AskFreeze`, `RecordBaseline`, `Proceed` | `ensureChangeBaseline`: read the tip, freeze, save as pending, then ask for the lease |
| `RecordLease`, `LeaseRefused`, `Finalize`, `PrepareFails` | `acquirePublishLease`, `renewPublishLease`, `clearRejectedPendingBaseline`, `finalizeReleaseBaseline` |
| `Preflight`, `Write`, `GiveBack`, `Keep` | `runResourceChangeBaselinePreflight`, the write, and the end of the command |
| `AskEnd`, `ClearLease`, `ClearBaseline`, `GiveUp` | `release end`, also without a record of a lease; two records, two saves |
| `Serve`, `ServeOrphan`, `LoseRequest`, `LoseAnswer`, `Retransmit`, `Kill`, `Expire`, `Commit` | the platform, the network, time and git |

## Runs

All bounds are constants of the configurations; each bounds how often something
happens, and appears in the guard of that action only.  `CHECK_DEADLOCK FALSE`
is set where the number of commands is bounded, so that the system really stops;
the runs of `DeliveryRun` check for deadlock.

| Run (cfg) | Instance | Distinct states |
| --- | --- | --- |
| `delivery_takeover` (`DeliveryTakeover`) | 2 executors, 1 package of 3 layers (the first written in place, the others staged), 2 attempts, 1 fault, fairness | 271,000 |
| `delivery_packages` (`DeliveryPackages`) | 2 executors, 2 packages that overlap in a layer and a rollback, 1 attempt, 1 fault, symmetric executors | 3,520,000 |
| `project_state_saves` (`ProjectStateSaves`) | 2 processes, 2 records of 3 fields, 2 saves each, 1 kill, fairness | 470,000 |
| `lease_heartbeat` (`LeaseHeartbeat`) | 2 lanes, 3 files, 1 resent upload; TTL 8, window 4, interval 2 (units of 15 s: the defaults), requests of any duration, fairness | 990,000 |
| `worktree_tasks` (`WorktreeTasks`) | 2 processes of 2 tasks, 2 changes, 7 commands, 1 commit, 1 kill | 2,030,000 |
| `release_resume` (`ReleaseResume`) | 3 steps (in place, form, other staged), 5 commands, 3 faults, 2 other releases | 118,000 |
| `managed_ship` (`ManagedShip`) | 2 terminals, 2 changes, 3 commands, 1 fault, symmetric terminals and changes | 3,310,000 |
| `publish_session` (`PublishSession`) | 2 worktrees, 2 commands beside `release end`, 1 commit, 1 fault, fairness | 677,000 |

Four more runs show disagreements and are expected to be violated:
`readback_violation`, `rollback_retry_violation`, `state_lock_violation` and
`review_violation` ([below](#disagreements-found)).

### What they show

**delivery_takeover.** An executor may crash, be refused, lose an answer, send a
request twice or late, and lose its lease, while another one retries its run or
deploys the same package.  *OnlyCurrentAttemptWrites*: no request of an older
attempt changes the run.  *DoneBacked*: a checkpoint that a retry will skip stands
for something that took effect.  *BindingsBeforeUse*: the machine that continues a
run has the local form bindings, also if form-ensure was done elsewhere.
*ReturnedRunSucceeded*: a command that returns has succeeded, for good.
*OneRootPerRun*: a crash between activation and its checkpoint, or two executors
in one attempt, do not activate twice.  *SucceededRunIsLive*: what a succeeded run
deployed is what runs (with one package; with several a later deployment may
replace parts of it, see the notes below).  *ImplementsPromotion*: the staged
layers of the run change in one step, as `AtomicPromotion` says.  *CommandsEnd*:
whatever is refused, lost or taken over, a process that is not killed ends.  A
takeover needs two attempts and one fault that stops the old executor or makes it
slow; a third attempt meets the same code with the same fence.  A second fault,
which meets the new executor, was checked as instances of their own: 2 layers with
fairness, and 3 layers without fairness and with symmetric executors (1.08 million
states); nothing changes.

**delivery_packages.**  Two deployments of different packages and a rollback
compete for the lease, which may expire between the activation of one and its
readback.  *ManifestCoversPlan*: an activated root has exactly the planned staged
children, whoever staged them.  *VerifiedReleaseIsOwn*: an executor that
activated a root and reports success reports that root; the readback catches a head
that moved.  (It says nothing of an executor that resumed a run after its activation,
which has no root of its own: see `readback_violation`.)  *RollbackRestores*: a rollback
that nobody took over plans everything, and its root restores the whole content of its
package; for one that was taken over see `rollback_retry_violation`.  The instance has
one attempt to stay small; all three are proved for any number.  The case of a run that is retried after another package has
succeeded, and so is planned against another baseline than its checkpoints, was
checked with one executor, 2 attempts and 2 faults (289,000 states): the scope check
keeps *ManifestCoversPlan* true.

**project_state_saves.**  *NoLostUpdate*, *SavesOnlyEdits*, *OverwritesOnlySeen*:
concurrent and repeated saves neither undo nor delete nor blindly overwrite each
other.  *NobodyWaitsForever*: a process killed in its save does not block the
other one.  Two processes and two records are enough for every pair of operations
of the merge to meet; the second save of one object is where the choice of the
next baseline matters.  With one kill and two processes only one process waits,
so the stale-lock race needs the third process of `state_lock_violation`.

**lease_heartbeat.**  Requests may take any time: the client waits 120 s for an answer
(`http.js:3`), as long as the lease lasts, and sends once more after a 401.  *HeldWhilePublishing*: however
long a command builds without a write, its lease runs out unnoticed only if a renewal
took more than `RenewWindow - Interval`, what a late tick leaves of the window, or
`TTL - RenewWindow` or more; with the defaults 30 s and 60 s.
*WritesOnCheckedLease*: an upload is sent either with more than the renew window left
at the server, or as the answer of the renewal it waited for comes in, with all that
this renewal has left of a whole lease.  What is left may be nothing if the renewal
was as slow as that, since `beforeWrite` does not look again, and an upload may be on
its way for longer than what is left: both are reached in the run, and then it is the
platform that has to refuse the write.  *NoWriteAfterLoss*: after a failed renewal no lane sends any more.
*ReviewBeforeRelease*: a failed command gives the lease back only if nothing can
have reached the server.  *ClearedForGood*: no late renewal brings the record
back.  *CommandEnds*: no worker and no `stop` waits for ever.  Two lanes are what
sharing a renewal needs; three files let one lane finish, fail and see the other
one go on; one resend covers the second pass through `beforeWrite`.

**worktree_tasks.**  *ClaimsHonoured*: a claim ends by its own task, by its time or
by force, and by nothing else.  *CleanupSparesWork*: cleanup never removes a
claimed worktree, one with records of a release or with files that are not
committed, nor a branch with commits that main does not have, although it planned
before the lock, and git commands need no lock.  Seven commands allow
each process to claim, lose and claim again around a forced takeover.

**release_resume.**  *RootsCoverPlan*: an App Release of the change has exactly
the planned children, although they were staged by several commands and the list
may have been started anew.  *CompletedIsReleased*: a completed journal means
that every step took effect and the lease is not held.  *OneRoot*: app-finalize,
sent again after a lost answer or a kill, activates nothing twice.
*ReviewedBeforeRepeat*, *LeaseKeptForReview*: a write in place whose result is not
known waits, under its lease, for its review.  The plan has one step of each kind
(in place, reusable, not reusable); five commands and three faults let a release
fail, resume, fail in a different step, lose its lease to another workspace twice
and still complete.

**managed_ship.**  *PromotesAccepted*: from its confirmation on a command promotes the
candidate of a preproduction deployment that was activated and has succeeded, and
the candidate was sealed for the change that is shipped, whatever a second terminal
wrote into `ship.json` meanwhile.  *CompletedIsShipped*: a change is reported as
completed only with a production deployment that has succeeded, of a candidate that
had succeeded in preproduction before.  *ReleasesItsSlot* is about the step with
which a command lets go of its deployment, whatever was killed or lost before.  It
leaves a deployment running only if it is killed in this step while it publishes or
settles, or its report of the failure is lost.  It leaves a production deployment
waiting for evidence only as the active release that `release test` can reconcile and
complete, and a ship command only if it is killed or loses a request in this step;
unless it is killed it then names the deployment in `ship.json`.  (The answer to the
creation of a deployment may be lost too; that deployment runs and no command knows
it.)  Three commands are two that meet in the
middle and one before or after them (a first ship, a confirmation, and a `fail`, a
`test` or a ship of the other change); one fault stops one of them anywhere.  Four
commands without faults (19.7 million states) show nothing else.

**publish_session.**  *NeverGoesBack*: a write never replaces code of main by older
code, although the tip of main, the heads of the resources, the lease and the write
are four requests with commits and other releases in between.  *RecordsAgree*: a
stored lease comes with the baseline of its session, and a stored baseline has heads
that the platform froze, after every kill; `release end` relies on it.  *EndSettles*: a
worktree is rid of its records in the end, after a kill, a lost answer or the end of
the lease, and while the other one releases.  Two commands are a release in each
worktree, or a release that is begun and then written; `release end` is not counted;
one commit is what makes one of them older.  Three commands and two commits without
faults (11.3 million states) were checked for the safety properties.

### Fairness

- `DeliveryRun`: weak fairness of `Progress(e)`.  Every `await` of the executor
  ends because requests time out, and Node's event loop runs a process that is
  not killed.  No command is owed, no fault is excluded, and nothing is assumed of
  the network beyond the time-out.
- `ProjectState`: weak fairness of a process that is inside `saveProjectState` and
  of the passing of time for a lock file.  The time-out of the lock is not relied
  on, and whether a command edits or saves is its own affair.
- `PublishLease`: every request is answered or times out, and the event loop goes
  on.  `TimePasses` needs no fairness.
- `PublishSession`: the steps of commands and the answers of the platform, the end
  of a lease that is not renewed, and a `release end` for a worktree that keeps
  records: the latter is the user's, and what the messages of the CLI ask for.  Commits,
  other commands and faults are owed to nobody.
- `WorktreeOwner`, `ReleaseExecution` and `ManagedShip` check safety only: whether a
  command is followed by the one that it recommends is the user's affair, and that a
  command gives its slot back is a property of its steps.

### Notes on the models

- Every operation is one atomic step exactly where the code has no `await` or
  system call in between.  A request and its effect at the server are separate
  from the answer wherever an answer can be lost.
- Each property has been checked against a plausible bug of the code: the
  operators named like `ScopeUnchecked`, `FailRequestUnfenced`,
  `RebaseOnMerged` or `FinishStopAtOnce` stand beside the definitions that they
  would replace, and with them the property is violated.
- `PublishLease` is about one command; `ReleaseExecution` is about the sequence of
  commands of one release, `PublishSession` about those of several worktrees,
  `ManagedShip` about several releases of one change.  In `ReleaseExecution` a lease
  runs out only between commands: a running command keeps it by the bound of
  *HeldWhilePublishing*, while its renewals take no more than 30 s with the defaults.
  A lease that slower ones lose under a running command is met in `PublishLease` and
  `PublishSession`, and the platform refuses the write, which `WriteFails` covers.

## Proofs

TLAPS checks every theorem for all values of the constants; about 10,800
obligations, no step left out.  Every safety property that a passing run checks, be
it an invariant or a property of steps, is stated by a theorem.  The only assumptions
are the `ASSUME`s of the modules (named, and evaluated by TLC in every run) and the
hypotheses stated in the theorems.

| Module | Theorem | Statement |
| --- | --- | --- |
| `DeliveryRunProofs` | `TypeCorrect` | `[]TypeOK` |
| | `AttemptFence` | `[]OnlyCurrentAttemptWrites` |
| | `CheckpointsBacked` | `[]DoneBacked` |
| | `ReturnMeansSuccess` | `[]ReturnedRunSucceeded` |
| | `RootsComplete`, `BindingsReplayed`, `ReportsOwnRelease` | `[]ManifestCoversPlan`, `[]BindingsBeforeUse`, `[]VerifiedReleaseIsOwn`, unconditional |
| | `RollbackIsComplete` | `RollbackRestores`, unconditional |
| | `SoleRunSucceedsLive`, `PromotionImplemented` | `[]SucceededRunIsLive`, `ImplementsPromotion` (the refinement of `AtomicPromotion`), if one package is deployed and nothing rolled back (`SoleRun`) |
| | `SoleRunActivatesOnce` | `[]OneRootPerRun`, if `SoleRun` and the package changes a staged layer |
| `ProjectStateProofs` | `StateTyped` | `[]TypeOK`, unconditional |
| | `NothingLost`, `OnlyEditsSaved`, `OnlySeenOverwritten` | `[]NoLostUpdate`, `SavesOnlyEdits`, `OverwritesOnlySeen`, if nobody is killed or suspended inside a save |
| `PublishLeaseProofs` | `TypeCorrect`, `ReviewFirst`, `ClearedStays`, `LossIsFinal` | unconditional |
| | `LeaseHeld`, `WritesCovered` | `[]HeldWhilePublishing`, `WritesOnCheckedLease`, unconditional |
| `WorktreeOwnerProofs` | `OwnersTyped` | `[]TypeOK`, unconditional |
| | `ClaimsAreHonoured`, `CleanupIsSafe` | `[]ClaimsHonoured`, `CleanupSparesWork`, if `Undisturbed` |
| `ReleaseExecutionProofs` | `TypeCorrect`, `PlanIsCovered`, `ActivatedOnce`, `CompletionIsReal` | `[]TypeOK`, `[]RootsCoverPlan`, `[]OneRoot`, `[]CompletedIsReleased`, for any plan |
| | `ReviewComesFirst`, `LeaseWaitsForReview` | `[]ReviewedBeforeRepeat`, `LeaseKeptForReview`, if `DirectFirst` |
| `PublishSessionProofs` | `RecordsAlwaysAgree`, `ForwardOnly` | `[]RecordsAgree` (with the types), `NeverGoesBack`, unconditional |
| `ManagedShipProofs` | `ManagedShipTyped`, `OnlyAcceptedPromoted`, `CompletedShipped` | `[]TypeOK`, `[]PromotesAccepted`, `[]CompletedIsShipped`, unconditional |
| | `SlotReleased` | `ReleasesItsSlot`, unconditional |

**DeliveryRun.**  `TypeInv` adds to the types that an executor inside a step has a
step left (otherwise `NextStep` would choose from nothing).  `RunInv` is the
strengthening for the fence.  The fence compares attempts, so the invariant must
exclude the attempt 0, which would not be fenced: `AttemptsRecorded`,
`AttemptsKnown`.  A request can be handled long after it was sent, so
`RequestsSound` says of every request in flight or late that it names the attempt
of its sender, and that the step whose checkpoint it carries took effect.
`OutcomeSound` says that only an accepted report of success leads to a return.

Three more invariants rest on it.

*What an executor knows* (`WorkInv`).  A run only grows (`Evolves`): its attempt does
not fall, a completed step stays completed, the child that was recorded for it stays,
and what the current attempt adds is a child of this attempt.  So an executor knows
every child that earlier attempts staged (`Knows`) and a request that is still accepted
carries a step that nobody else recorded otherwise (`Answerable`); this is where the
fence meets the checkpoints.  `Orderly` is the loop of `executeRun`: what is no longer
to do is done or is what the request in flight reports, app-finalize comes last, and
its scope check has passed when it activates.  `Owns` ties an activated root to its run.
`RootsComplete`, `BindingsReplayed` and `ReportsOwnRelease` follow.

*One package on its own* (`SoleInv`).  All executors then plan the layers in which
the package differs from the base package.  Once a root is active, so are the children
that the run has recorded (`Rooted`); whoever captures again therefore finds an active
child and is refused, which is why nothing is activated twice, and a report of success
is sent only after all steps (`Backed`).  The hypotheses are needed.  With a second package, a
run that succeeded may be replaced, and one resumed after it meets children that are no longer active.  If the
package changes no staged layer, app-finalize has no child to find active, and TLC finds two
roots of one run.  `PromotionImplemented` derives the refinement from the same
invariant: a step that activates maps to `Promote`, a first report of success to
`Confirm`, and every other step leaves the abstract state alone.

*Rollbacks* (`RollbackInv`).  A rollback replaces the layers written in place as it goes, and
the staged ones when it activates.  What keeps a deployment in between from spoiling
the former is that the lease of a first attempt is never obtained a second time
(`InPlaceHeld`): a run gets its lease back only with a new attempt.  `Forced` says
that an executor of the first attempt plans every layer.

Two statements were sharpened on the way.  `VerifiedReleaseIsOwn` used to compare with
what the platform stores for the run; with three executors, which no run has, another executor of the
same attempt can report first, so it is now about what an executor itself sends and is
answered.  `RollbackRestores` used to rely on `MaxAttempt = 1` and now says whom it
is about.  `ConstantsAssumption` says that every package gives every layer a version.

**ProjectState.**  `LockInv` is mutual exclusion with its reason: the lock names the
process inside and is not old.  `StateInv` adds that the history variable `edited`
is the difference between the two snapshots that the code diffs, and that what is
about to be written was computed from the file as it still is.  The algebra of the
merge (`MergeWithoutConflict`: without conflict the merge changes the edited leaves
and nothing else) is a lemma of its own.  The hypothesis `MaxCrashes = MaxStalls = 0`
is needed: with a killed process the statement is false, `state_lock_violation`.

**PublishLease.**  `Order` is about order only and needs no time: a lost heartbeat
has no renewal in flight, a command that has left publishing has no active lane, a
release is asked for only after every renewal is over, a written upload was
counted as attempted.  `InTime` is the argument about time, as bounds on sums, with no assumption on how
long requests take.  The client never believes the lease to be longer than it is
(`local <= remote`), and an answer on its way grants a whole lease less the time since
its request (`granted + age >= TTL`): this gives `WritesCovered`.  As long as no
renewal so far was too slow (`Prompt`, about the history variable `slowest`), `local +
quiet > RenewWindow` while no renewal is on its way, and `local + age + Interval >
RenewWindow` while one is: this gives `LeaseHeld`.

**WorktreeOwner.**  The invariant says that a process inside the lock has seen the
owner that is still in the file, except that its time may have come, and hence
that the check made under the lock holds when it writes.  `CleanupInv` is about the
work: the head that cleanup planned with is in main, and no release leaves a record
between the check and the removal, because it would need a claim.  `Undisturbed`: every
process belongs to a task, and no holder of the lock is killed or suspended for
30 s.

**ReleaseExecution.**  `Inv` says that the completed steps are a prefix of the plan
(`InOrder`), that the running step is the first open one (`AtFirst`), that a
completed step took effect (`Backed`), that what app-finalize is about to send
has passed the scope check (`Covers`), and that a capture on which something was
activated is older than the head for good (`Frozen`).  `ReviewComesFirst` needs
`DirectFirst`, plans whose steps in place come before those that stage; for other
plans it is false, `review_violation`.

**PublishSession.**  A baseline is frozen for a session of its own: a worktree that
freezes has no lease, because a stored lease comes with a baseline (`RecordsOK`).  So
all requests under one lease are of one baseline (`Covers`), and the lease of another
session is another one.  A preflight that succeeds finds online what is not newer than
the code of its baseline, and as long as the lease lives only that baseline is written:
`UpToDate`, which the write carries with it (`RequestOK`), also when its command is
gone.  `Advances` says that no step of any worktree takes these facts back; with it a
step of one worktree is proved by looking at this worktree alone (`StepOfOne`).

**ManagedShip.**  Deployments, candidates and an acceptance only grow (`Grows`): a
deployment keeps its environment and its candidate, an activated one stays activated, and
one that has succeeded stays so.  Hence what one command found out survives whatever
another does to the platform or to `ship.json` (`CommandStays`).  A command that is about to
promote has seen a preproduction deployment of its own candidate succeed (`AcceptedFor`),
and it looked at the platform for it, not at `ship.json`: the record may by then be of
another ship, and `ShipOK` says only what every writer of it guarantees.  A production
deployment is always preceded by such an acceptance (`AcceptedBefore`), which gives
`CompletedShipped`.  `SlotInv` is about the slot of an environment: one deployment at a
time is in flight, one command at most publishes it (`OwnersDiffer`), and one in
production that waits for evidence is what production runs (`DeployedIsHead`).
`SlotReleased` then goes through the steps with which a command lets go of its
deployment: those of a command that goes on (`StepReleases`), where `DeployedIsHead`
excludes that reconciliation refuses an activated one, and the kills and lost
messages (`FaultReleases`); `WaitingReconcilable` takes `SlotInv` in the next state to
show that what waits for evidence can still be completed.

Only model-checked: the liveness properties (`CommandsEnd`, `NobodyWaitsForever`,
`CommandEnds`, `EndSettles`), since TLAPS does not handle fairness and `ENABLED`.

## Disagreements found

1. **The readback of a resumed run compares nothing** (`readback_violation`,
   `delivery-v2-executor.js:764`).  A run that is resumed after its app-finalize
   checkpoint finds the compact result there, which has none of the fields that
   `verifyActivation` reads; it succeeds and reports the App Release of another
   run.
2. **A rollback resumed by retry loses `forceAll`** (`rollback_retry_violation`,
   `delivery-v2-executor.js:197`).  It is planned as a difference to the newest
   succeeded run, and may release nothing and still succeed.
3. **The removal of a stale state lock races** (`state_lock_violation`,
   `config.js:373`).  Two commands that wait for the lock of a killed third one can
   both be inside.  `worktree-owner.js` has the same protocol.
4. **An unclear write in place is repeated without review** if any step of the
   release has staged a child before it (`review_violation`,
   `release-error-classification.js:33`).

Seen while modelling, in the models but without a property, because no statement
of the repository is contradicted outright or because the outcome is safe:

- Deploying a package again whose run has succeeded earlier returns that run, also
  if another package has been deployed since (`delivery-v2-executor.js:126`).
- The baseline of a deployment is the newest succeeded run, not what is live
  (`delivery-v2-executor.js:650`).
- After a crash between activation and its checkpoint every retry is refused,
  because its own children are active already (`cli.js:7632`).
- With `--ttl 30` the lease is no longer than the interval of its heartbeat
  (`cli.js:9006`), and *HeldWhilePublishing* promises nothing.
- A renewal that takes as long as the lease grants one that is over, and `beforeWrite`
  sends the write without another look (`publish-lease-heartbeat.js:80`).
- A claim that waits for the lock while cleanup removes the worktree succeeds, in a
  directory that it creates again (`worktree-owner.js:95`).
- A process without `CODEX_THREAD_ID` may release the worktree of another task
  (`worktree-owner.js:132`); `Undisturbed` excludes it.
- A command killed inside a write leaves the journal at `running`, and the next one
  repeats the write without a review (`cli.js:2590`); `ReviewedBeforeRepeat` speaks of
  failures that the command lived to classify.
- A resumed release may find its frozen capture outdated, or its staged children
  dropped by a new lifecycle, and is then refused by every attempt.
- `ship.json` is merged without a lock, and the writes of the confirmation phase do
  not name the candidate (`cli.js:1310`).  Two first runs of one change can leave a
  record whose candidate and deployment do not belong together; the identity check
  (`cli.js:4582`) keeps it from a promotion.
- After `production_evidence_failed` the recorded next command, a ship with
  `--confirm-production`, is refused while the production deployment waits for its
  evidence, and overwrites `productionDeploymentId` with null; `release test` is what
  frees the slot.
- A ship that is killed, or loses a request, in its promotion leaves production with a
  running deployment, which `release fail` refuses to end (`cli.js:5320`): that a failed
  publication does not block the slot (`README.md:170`) holds for commands that live
  to report it, as *ReleasesItsSlot* says.
- A ship of a completed change sets its record back to awaiting confirmation.
- Timestamps are merged without the check for conflicts (`config.js:283`).  A
  `release end` in one terminal and, in another of the same worktree, a command that
  activates its baseline leave a baseline with nothing but `updatedAt`, which every
  later command refuses, `release end` included (CHANGE_BASELINE_APP_MISMATCH).  And
  if a worktree is pulled while one of its commands runs, two publishes and an end in
  it can let an older write follow a newer one under one lease.  `PublishSession` has
  one command at a time in a worktree.
- A Delivery V2 deployment overwrites the baseline of a release in the same worktree
  that was not ended (`installDeliveryV2Context`, `cli.js:1700`).

## What is assumed of the platform

Definitions that model the platform are marked external in `PROJECT.json`.

- It handles requests one at a time.  An aborted request of the upload workers does
  not arrive later; checkpoint and fail requests may.
- `createRun` is idempotent by its key, and grants the lease if nobody holds it.
  `retry` opens the next attempt if `expectedAttempt` is current and the lease is free
  or the run's own.  Checkpoint and fail are refused for another attempt than the
  current one; statuses change along `Transitions`; a repeated `succeeded` is answered
  with the run as it is.  A finished run gives its lease back.
- One lease per application.  A live lease is prolonged, one that is over is refused;
  releasing one that is over is answered with an error the client knows.
- An App Release is activated only on the parent that it was captured from, and only
  for the holder of the lease.
- Of change baselines (`PublishSession`): a freeze records the heads online when it is
  served; a preflight passes if the frozen head is online and what the worktree
  computes at the git base is its content, or if the baseline wrote it itself.  A
  session that holds the lease and asks again is given the same lease; renewal, write
  and release are refused unless the lease is live; terms end in their order.
- Of deployments (`ManagedShip`; what the code relies on is written in
  `openxiangda-skills/references/openxiangda-api.md:869`): an environment has one
  deployment that runs or waits for evidence; a promotion needs a preproduction
  deployment of the same candidate that is active and has succeeded on fresh evidence;
  a deployment that was activated can be reconciled while its release is active.  That
  a publisher may still activate when its deployment has been failed by somebody else
  is not excluded.
- The clocks of client and server agree, and the event loop of a publishing command is
  not blocked for longer than the interval of its timer.

## What is not modelled

- *Of the managed ship*: the build and the content of a candidate, the preparation of a
  rollback, the flags that override a check.  Binding, initialization and swap of
  environments are single transactions of the platform.
- *Of the publish lease across commands*: releases of a sealed candidate, which alone
  may go on in a worktree that has moved to a descendant of the frozen commit
  (`allowDescendant`, `cli.js:3563`), and only with the files of the candidate unchanged; two commands in one worktree (their saves are
  `ProjectState`), lease ids on the command line, reconciliation by another session,
  recovery of a lease from `execution.json`, adoption of a baseline that is online,
  preconditions of single resources.
- *Token refresh, app-rollback and app-abort*: planned, see below.
- *Delivery V2 package, hashing of heads and artifacts, integration bundles, loaders and
  contracts*: pure functions of files and of git; a package appears as its versions, a
  plan as its steps, the code of main as its commits.
- *SDD workflow*: documents edited by one task at a time under the ownership that
  `WorktreeOwner` models; its stages are planned.
- *What a layer's own publish command does to its resources*: one effect per step.
- *The browser SDK*: browser code with its own state, to be surveyed.
- *Set-up, skills, templates, docs, scripts*: content and one-shot copies.
- *The build and upload of artifacts before `createRun`*: changes no release state.
- *An owner file that is not JSON*: blocks every operation.

## Plan

Order by importance; 1 to 7 are done, and 8 up to what it names.

1. `DeliveryRun` with `AtomicPromotion`, type invariant, fence, backing and outcome
   proved.
2. `LockFile` and `ProjectState`, with the merge proved.
3. `PublishLease` with time; what a slow renewal can cost proved for any timing.
4. `WorktreeOwner` on the same `LockFile`.
5. `ReleaseExecution`, with its invariants proved for any plan.
6. `PublishSession`: baselines and leases of several worktrees, its safety proved.
7. `ManagedShip`: candidate, preproduction, production over `ship.json`.
8. Proofs: every safety property of the passing runs.  Left: an invariant of
   `LockFile` with one crash and two processes, where the race cannot happen yet, which
   would weaken the hypotheses of `NothingLost` and `ClaimsAreHonoured`; and
   `SucceededRunIsLive` for several packages, as long as no other one is deployed in between.
9. App Releases as a register that only the holder of the lease sets, by
   compare-and-set: rollback, abort, reconciliation by another session, adoption of a
   verified root.
10. Request and authentication: retry and refresh of tokens (`requestWithAuth`).
11. Pure algorithms against reference definitions: order of the plan, `releaseTargets`,
    the three-way merge on trees (deletion and arrays), classification of errors.
12. The SDK: the runtime client's refresh and the page stack; then the stages of `sdd.js`.

## Running it

```
tlc -workers 2 -config DeliveryTakeover.cfg MCDeliveryRun
tlc -workers 2 -config DeliveryPackages.cfg MCDeliveryRun
tlc -workers 2 -config ProjectStateSaves.cfg MCProjectState
tlc -workers 2 -config LeaseHeartbeat.cfg MCPublishLease
tlc -workers 2 -config WorktreeTasks.cfg MCWorktreeOwner
tlc -workers 2 -config ReleaseResume.cfg MCReleaseExecution
tlc -workers 2 -config ManagedShip.cfg MCManagedShip
tlc -workers 2 -config PublishSession.cfg MCPublishSession
tlapm DeliveryRunProofs.tla      # and the other *Proofs modules
```

Every run ends within about two minutes; the proofs take about eight minutes together.
