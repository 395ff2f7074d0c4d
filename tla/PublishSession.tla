--------------------------- MODULE PublishSession ---------------------------
(***************************************************************************)
(* Releases of one application from several worktrees: the commands that   *)
(* freeze a change baseline, take the publish lease of the application,    *)
(* write under both and give them back (lib/cli.js, with the records that  *)
(* lib/change-baseline.js and lib/publish-lease.js keep in state.json).    *)
(*                                                                         *)
(* A worktree runs one command at a time; the saves of commands that share *)
(* a state.json are module ProjectState.  Between a request and its answer *)
(* anything may happen: commits, the end of the lease, the commands of     *)
(* other worktrees.                                                        *)
(*                                                                         *)
(* What a change writes is one resource.  Main is a line of commits, each  *)
(* of which changes the resource, so a commit stands for its code.  Whether *)
(* a worktree has pulled the last commits is left open.                     *)
(***************************************************************************)
EXTENDS Naturals, Sequences

CONSTANTS
    Worktrees,   \* worktrees, each with a state.json
    MaxStarts,   \* bound: commands started, `release end' apart
    MaxCommits,  \* bound: commits on main
    MaxFaults,   \* bound: kills, lost requests and answers, failed preparations
    None         \* no record, no request

ASSUME PublishBounds ==
    MaxStarts \in Nat /\ MaxCommits \in Nat /\ MaxFaults \in Nat

BaselineRecords == [id : Nat, state : {"pending", "active"}]
LeaseRecords == [id : Nat, sess : Nat, term : Nat]
RequestTypes == {"freeze", "acquire", "renew", "release", "status", "preflight", "write"}
AllRequests == [type : RequestTypes, bl : Nat, lease : Nat]

ASSUME NoneAssumption ==
    /\ None \notin Nat
    /\ None \notin BaselineRecords
    /\ None \notin LeaseRecords
    /\ None \notin AllRequests

VARIABLES
    file,       \* file[w]: the promotion records of w's state.json
    cmd,        \* cmd[w]: the command that runs in w
    sent,       \* sent[w]: the request that the command waits for, until it is served
    orphans,    \* requests of commands that are gone
    baselines,  \* baselines[b]: the change baseline that the b-th freeze asks for
    lease,      \* the last publish lease that the platform granted
    expired,    \* the grants and renewals up to this one are over
    online,     \* what the platform serves: version, commit, baseline that wrote it
    tip,        \* the tip of main
    starts, faults

vars == <<file, cmd, sent, orphans, baselines, lease, expired, online, tip,
          starts, faults>>

platform == <<baselines, lease, online>>
world == <<expired, tip>>
bounds == <<starts, faults>>

-----------------------------------------------------------------------------
(* The records.  A lease record names the lease, its session (the first    *)
(* baseline frozen for it) and the grant or renewal that it knows.         *)

Empty == [bl |-> None, ls |-> None]
Dirty(w) == file[w] # Empty

Says(r, n, t) == [r |-> r, n |-> n, t |-> t]
NoAnswer == Says("none", 0, 0)

\* other: the command is for another change than the records of the worktree;
\* had: the worktree had a usable lease when the command started;
\* made: the command froze the baseline itself.
Idle == [kind |-> "none", pc |-> "idle", other |-> FALSE, had |-> FALSE,
         made |-> FALSE, ans |-> NoAnswer]

Init ==
    /\ file = [w \in Worktrees |-> Empty]
    /\ cmd = [w \in Worktrees |-> Idle]
    /\ sent = [w \in Worktrees |-> None]
    /\ orphans = {}
    /\ baselines = <<>>
    /\ lease = [id |-> 0, sess |-> 0, term |-> 0, live |-> FALSE]
    /\ expired = 0
    /\ online = [ver |-> 0, src |-> 0, by |-> 0]
    /\ tip = 0
    /\ starts = 0
    /\ faults = 0

\* The local test of a lease record looks at its expiresAt alone.
Usable(l) == l # None /\ l.term > expired

Session(b) == baselines[b].sess

At(w, p) == cmd[w].pc = p
Heard(w, p) == At(w, p) /\ cmd[w].ans.r # "none"
Goto(w, p) == [cmd[w] EXCEPT !.pc = p, !.ans = NoAnswer]
Becomes(w, c) == cmd' = [cmd EXCEPT ![w] = c]
Leave(w) == Becomes(w, Idle) /\ UNCHANGED file

\* Record f of w is saved or deleted.
Store(w, f, v) == file' = [file EXCEPT ![w][f] = v]

Request(type, b, l) == [type |-> type, bl |-> b, lease |-> l]

\* The command sends a request and waits for its answer in state p.
Ask(w, p, r) ==
    /\ Becomes(w, Goto(w, p))
    /\ sent' = [sent EXCEPT ![w] = r]
    /\ UNCHANGED file

Local == UNCHANGED <<sent, orphans, platform, world, bounds>>
Remote == UNCHANGED <<orphans, lease, online, world, bounds>>

-----------------------------------------------------------------------------
(* The platform, as the commands use it.                                   *)

Live(l) == lease.live /\ lease.id = l
HeldFor(b) == lease.live /\ lease.sess # Session(b)

\* A session that holds the lease is given the same lease again.
Granted(b) == [id |-> IF lease.live THEN lease.id ELSE lease.id + 1,
               sess |-> Session(b), term |-> lease.term + 1, live |-> TRUE]

\* Mutant of SourceAt: the head online stands for the resource at the git base.
SourceAtHead(b) == online.src

\* What the worktree computes at the base commit of baseline b: the resource
\* as this commit has it.
SourceAt(b) == baselines[b].base

\* The head that was frozen is the head online, and it is what git has; a
\* baseline may write again over what it wrote itself.
Fresh(b) ==
    \/ online.by = b
    \/ baselines[b].head = online.ver /\ SourceAt(b) = online.src

Answer(r) ==
    CASE r.type = "freeze" -> Says("ok", r.bl, 0)
      [] r.type = "acquire" /\ HeldFor(r.bl) -> Says("held", 0, 0)
      [] r.type = "acquire" /\ ~HeldFor(r.bl) ->
           Says("ok", Granted(r.bl).id, Granted(r.bl).term)
      [] r.type = "renew" /\ Live(r.lease) -> Says("ok", lease.id, lease.term + 1)
      [] r.type \in {"release", "write"} /\ Live(r.lease) -> Says("ok", 0, 0)
      [] r.type \in {"renew", "release", "write"} /\ ~Live(r.lease) ->
           Says("invalid", 0, 0)
      [] r.type = "status" -> Says(IF lease.live THEN "held" ELSE "ok", 0, 0)
      [] r.type = "preflight" ->
           Says(IF Fresh(r.bl) THEN "ok" ELSE "conflict", 0, 0)

Effect(r) ==
    /\ baselines' =
         IF r.type = "freeze" THEN [baselines EXCEPT ![r.bl].head = online.ver]
         ELSE baselines
    /\ lease' =
         CASE r.type = "acquire" /\ ~HeldFor(r.bl) -> Granted(r.bl)
           [] r.type = "renew" /\ Live(r.lease) -> [lease EXCEPT !.term = @ + 1]
           [] r.type = "release" /\ Live(r.lease) -> [lease EXCEPT !.live = FALSE]
           [] OTHER -> lease
    /\ online' =
         IF r.type = "write" /\ Live(r.lease)
         THEN [ver |-> online.ver + 1, src |-> baselines[r.bl].source, by |-> r.bl]
         ELSE online

Hears(w, a) ==
    /\ sent[w] # None
    /\ Becomes(w, [cmd[w] EXCEPT !.ans = a])
    /\ sent' = [sent EXCEPT ![w] = None]

Serve(w) ==
    /\ Hears(w, Answer(sent[w]))
    /\ Effect(sent[w])
    /\ UNCHANGED <<file, orphans, world, bounds>>

ServeOrphan ==
    /\ \E r \in orphans : Effect(r) /\ orphans' = orphans \ {r}
    /\ UNCHANGED <<file, cmd, sent, world, bounds>>

Fault == faults < MaxFaults /\ faults' = faults + 1

LoseRequest(w) ==
    /\ Fault
    /\ Hears(w, Says("error", 0, 0))
    /\ UNCHANGED <<file, orphans, platform, world, starts>>

LoseAnswer(w) ==
    /\ Fault
    /\ Hears(w, Says("error", 0, 0))
    /\ Effect(sent[w])
    /\ UNCHANGED <<file, orphans, world, starts>>

\* The release at the end of a publish is sent again when its answer is lost.
Retransmit(w) ==
    /\ Fault
    /\ sent[w] # None
    /\ cmd[w].kind = "publish" /\ At(w, "close")
    /\ Effect(sent[w])
    /\ UNCHANGED <<file, cmd, sent, orphans, world, starts>>

Kill(w) ==
    /\ Fault
    /\ ~At(w, "idle")
    /\ Leave(w)
    /\ orphans' = orphans \cup ({sent[w]} \ {None})
    /\ sent' = [sent EXCEPT ![w] = None]
    /\ UNCHANGED <<platform, world, starts>>

\* The oldest grant or renewal is over, and with the last one the lease.
Expire ==
    /\ expired < lease.term
    /\ expired' = expired + 1
    /\ lease' = [lease EXCEPT !.live = @ /\ expired + 1 < lease.term]
    /\ UNCHANGED <<file, cmd, sent, orphans, baselines, online, tip, bounds>>

Commit ==
    /\ tip < MaxCommits
    /\ tip' = tip + 1
    /\ UNCHANGED <<file, cmd, sent, orphans, platform, expired, bounds>>

-----------------------------------------------------------------------------
(* Commands.                                                               *)

Load(w, kind, other) ==
    /\ At(w, "idle")
    /\ Becomes(w, [Idle EXCEPT !.kind = kind, !.pc = "loaded", !.other = other,
                               !.had = Usable(file[w].ls)])
    /\ UNCHANGED <<file, sent, orphans, platform, world, faults>>

\* `release begin', `resource publish' and `release renew'.
Start(w) ==
    /\ starts < MaxStarts
    /\ starts' = starts + 1
    /\ \/ \E kind \in {"begin", "publish"} : Load(w, kind, FALSE)
       \/ \E kind \in {"begin", "publish"} : Dirty(w) /\ Load(w, kind, TRUE)
       \/ file[w].ls # None /\ Load(w, "renew", FALSE)

\* `release end'.
StartEnd(w) ==
    /\ Dirty(w)
    /\ Load(w, "end", FALSE)
    /\ UNCHANGED starts

\* A command with a lease goes on with the session of the lease.
SessionOf(w) == IF cmd[w].had THEN file[w].ls.sess ELSE Len(baselines) + 1

\* The records of w are those of another change or another session.
Foreign(w) ==
    LET bl == file[w].bl
    IN \/ cmd[w].other /\ (cmd[w].had \/ bl # None)
       \/ bl # None /\ cmd[w].had /\ Session(bl.id) # file[w].ls.sess

\* The worktree may have left the commit that was frozen; without a baseline it
\* may be behind main.  A descendant of the frozen commit is accepted only for a
\* sealed candidate (allowDescendant in assertLocalCandidate), whose files must
\* be unchanged then; the releases here have no candidate.
MayHaveMoved(w) ==
    IF file[w].bl = None THEN tip > 0 ELSE baselines[file[w].bl.id].source < tip

Enters(w) == At(w, "loaded") /\ cmd[w].kind \in {"begin", "publish"}

Refuse(w) ==
    /\ \/ Enters(w) /\ Foreign(w)
       \/ At(w, "loaded") /\ cmd[w].kind = "renew" /\ file[w].bl = None
       \/ At(w, "loaded") /\ cmd[w].kind # "end" /\ MayHaveMoved(w)
       \/ At(w, "held") /\ MayHaveMoved(w)
    /\ Leave(w)
    /\ Local

\* A publish removes the record of a lease that is over.
DropOldLease(w) ==
    /\ Enters(w) /\ cmd[w].kind = "publish"
    /\ file[w].ls # None /\ ~cmd[w].had
    /\ Store(w, "ls", None)
    /\ UNCHANGED cmd
    /\ Local

ReadyToEnter(w) ==
    /\ Enters(w) /\ ~Foreign(w)
    /\ cmd[w].kind = "publish" => file[w].ls = None \/ cmd[w].had

\* Without a baseline the change is frozen: the tip of main is read here, the
\* heads of the resources when the request arrives.
AskFreeze(w) ==
    /\ ReadyToEnter(w)
    /\ file[w].bl = None
    /\ \E base \in 0..tip :
         baselines' = Append(baselines, [sess |-> SessionOf(w), source |-> tip,
                                         base |-> base, head |-> None])
    /\ Ask(w, "freeze", Request("freeze", Len(baselines) + 1, 0))
    /\ Remote

ReleaseOf(w) == Request("release", 0, file[w].ls.id)
RenewOf(w) == Request("renew", 0, file[w].ls.id)

\* With baseline b, begin renews or acquires, publish acquires or goes on.
GoesOn(w, b, made) ==
    LET next == IF ~cmd[w].had THEN "acquire"
                ELSE IF cmd[w].kind = "begin" THEN "renew" ELSE "finalize"
    IN /\ Becomes(w, [Goto(w, next) EXCEPT !.made = made])
       /\ sent' = [sent EXCEPT ![w] =
             CASE next = "acquire" -> Request("acquire", b, 0)
               [] next = "renew" -> RenewOf(w)
               [] OTHER -> None]

\* The baseline is recorded before anything is asked under it.
RecordBaseline(w) ==
    /\ Heard(w, "freeze")
    /\ IF cmd[w].ans.r = "ok"
       THEN /\ Store(w, "bl", [id |-> cmd[w].ans.n,
                               state |-> IF cmd[w].had THEN "active" ELSE "pending"])
            /\ GoesOn(w, cmd[w].ans.n, TRUE)
       ELSE Leave(w) /\ UNCHANGED sent
    /\ UNCHANGED baselines
    /\ Remote

Proceed(w) ==
    /\ ReadyToEnter(w)
    /\ file[w].bl # None
    /\ GoesOn(w, file[w].bl.id, FALSE)
    /\ UNCHANGED <<file, baselines>>
    /\ Remote

Renew(w) ==
    /\ At(w, "loaded") /\ cmd[w].kind = "renew"
    /\ file[w].bl # None
    /\ Ask(w, "renew", RenewOf(w))
    /\ UNCHANGED baselines
    /\ Remote

RecordLease(w) ==
    /\ Heard(w, "acquire") \/ Heard(w, "renew")
    /\ cmd[w].ans.r = "ok"
    /\ Store(w, "ls", [id |-> cmd[w].ans.n, term |-> cmd[w].ans.t,
                       sess |-> IF At(w, "acquire") THEN Session(file[w].bl.id)
                                ELSE file[w].ls.sess])
    /\ Becomes(w, IF cmd[w].kind = "renew" THEN Idle ELSE Goto(w, "finalize"))
    /\ Local

\* A baseline that was frozen for this acquisition is given up when another
\* session holds the lease, and kept after any other error.
LeaseRefused(w) ==
    /\ Heard(w, "acquire") \/ Heard(w, "renew")
    /\ cmd[w].ans.r # "ok"
    /\ Becomes(w, Idle)
    /\ IF cmd[w].ans.r = "held" /\ cmd[w].made THEN Store(w, "bl", None)
       ELSE UNCHANGED file
    /\ Local

\* The baseline becomes active.
Finalize(w) ==
    /\ At(w, "finalize")
    /\ Store(w, "bl", [file[w].bl EXCEPT !.state = "active"])
    /\ Becomes(w, IF cmd[w].kind = "begin" THEN Idle ELSE Goto(w, "held"))
    /\ Local

\* A command that began the release then collects the forms that were staged
\* before.  When that fails it gives the lease back, whatever the platform says.
PrepareFails(w) ==
    /\ Fault
    /\ At(w, "finalize") /\ cmd[w].made /\ ~cmd[w].had
    /\ Store(w, "bl", [file[w].bl EXCEPT !.state = "active"])
    /\ Becomes(w, Goto(w, "undo"))
    /\ sent' = [sent EXCEPT ![w] = ReleaseOf(w)]
    /\ UNCHANGED <<orphans, platform, world, starts>>

Preflight(w) ==
    /\ At(w, "held")
    /\ Ask(w, "preflight", Request("preflight", file[w].bl.id, 0))
    /\ UNCHANGED baselines
    /\ Remote

Write(w) ==
    /\ Heard(w, "preflight") /\ cmd[w].ans.r = "ok"
    /\ Ask(w, "write", Request("write", file[w].bl.id, file[w].ls.id))
    /\ UNCHANGED baselines
    /\ Remote

\* A publish gives back the lease that it took itself, when nothing was written
\* or everything was.
GiveBack(w) ==
    /\ ~cmd[w].had
    /\ \/ Heard(w, "preflight") /\ cmd[w].ans.r # "ok"
       \/ Heard(w, "write") /\ cmd[w].ans.r = "ok"
    /\ Ask(w, "close", ReleaseOf(w))
    /\ UNCHANGED baselines
    /\ Remote

\* It keeps the lease for the release that it staged, for a write that may be
\* missing, and when it had the lease before.
Keep(w) ==
    /\ \/ Heard(w, "preflight") /\ cmd[w].ans.r # "ok" /\ cmd[w].had
       \/ Heard(w, "write")
    /\ Leave(w)
    /\ Local

\* `release end' gives the lease back or, without a record of one, asks the
\* platform whether anybody holds it.
AskEnd(w) ==
    /\ At(w, "loaded") /\ cmd[w].kind = "end"
    /\ Ask(w, "close", IF file[w].ls # None THEN ReleaseOf(w) ELSE Request("status", 0, 0))
    /\ UNCHANGED baselines
    /\ Remote

\* Mutant of Settles: only a release that succeeds is one.
SettlesIfReleased(r) == r = "ok"

\* The answers after which the release is over for the CLI: a lease that has
\* ended needs none.
Settles(r) == r \in {"ok", "invalid"}

\* Mutant of ClearLease: the baseline goes first.
ClearLeaseLast(w) ==
    /\ Heard(w, "undo") \/ (Heard(w, "close") /\ Settles(cmd[w].ans.r))
    /\ Store(w, "bl", None)
    /\ Becomes(w, Goto(w, "clear"))
    /\ Local

\* The lease record goes first, then the baseline.
ClearLease(w) ==
    /\ Heard(w, "undo") \/ (Heard(w, "close") /\ Settles(cmd[w].ans.r))
    /\ Store(w, "ls", None)
    /\ Becomes(w, Goto(w, "clear"))
    /\ Local

ClearBaseline(w) ==
    /\ At(w, "clear")
    /\ Store(w, "bl", None)
    /\ Becomes(w, Idle)
    /\ Local

GiveUp(w) ==
    /\ Heard(w, "close") /\ ~Settles(cmd[w].ans.r)
    /\ Leave(w)
    /\ Local

Step(w) ==
    \/ Refuse(w) \/ DropOldLease(w) \/ AskFreeze(w) \/ RecordBaseline(w)
    \/ Proceed(w) \/ Renew(w) \/ RecordLease(w) \/ LeaseRefused(w) \/ Finalize(w)
    \/ Preflight(w) \/ Write(w) \/ GiveBack(w) \/ Keep(w)
    \/ AskEnd(w) \/ ClearLease(w) \/ ClearBaseline(w) \/ GiveUp(w)

Next ==
    \/ \E w \in Worktrees :
          \/ Step(w) \/ Start(w) \/ StartEnd(w) \/ PrepareFails(w)
          \/ Serve(w) \/ LoseRequest(w) \/ LoseAnswer(w) \/ Retransmit(w) \/ Kill(w)
    \/ ServeOrphan \/ Expire \/ Commit

Spec == Init /\ [][Next]_vars

\* Commands and the platform go on, a lease that is not renewed ends, and a
\* worktree with the records of a release is given a `release end'.
Fairness ==
    /\ \A w \in Worktrees :
          WF_vars(Step(w)) /\ WF_vars(Serve(w)) /\ WF_vars(StartEnd(w))
    /\ WF_vars(Expire)

FairSpec == Spec /\ Fairness

-----------------------------------------------------------------------------
(* Properties.                                                             *)

States == {"idle", "loaded", "freeze", "acquire", "renew", "finalize",
           "undo", "held", "preflight", "write", "close", "clear"}

Baselines == [sess : DOMAIN baselines, source : 0..tip,
              base : 0..tip, head : 0..online.ver \cup {None}]
Records == [bl : [id : DOMAIN baselines, state : {"pending", "active"}] \cup {None},
            ls : [id : 1..lease.id, sess : DOMAIN baselines, term : 1..lease.term] \cup {None}]
Requests == [type : RequestTypes, bl : 0..Len(baselines), lease : 0..lease.id]

\* Types of the variables.
TypeOK ==
    /\ file \in [Worktrees -> Records]
    /\ \A w \in Worktrees :
          /\ cmd[w].kind \in {"none", "begin", "publish", "renew", "end"}
          /\ cmd[w].pc \in States
          /\ sent[w] # None => cmd[w].ans = NoAnswer
    /\ orphans \cup {sent[w] : w \in Worktrees} \subseteq Requests \cup {None}
    /\ \A b \in DOMAIN baselines :
          baselines[b] \in Baselines /\ baselines[b].base <= baselines[b].source
    /\ lease.sess \in 0..Len(baselines) /\ lease.live \in BOOLEAN
    /\ expired \in 0..lease.term
    /\ online.src \in 0..tip /\ online.by \in 0..Len(baselines)
    /\ tip \in 0..MaxCommits
    /\ starts \in 0..MaxStarts /\ faults \in 0..MaxFaults

\* The records agree with each other and with the platform: a stored baseline has
\* heads that the platform froze, and a stored lease comes with the baseline of its
\* session, whose commit `release end' must find in main before it gives the lease
\* back (change-baseline.js and publish-lease.js; cli.js 5940).
RecordsAgree ==
    /\ TypeOK
    /\ \A w \in Worktrees :
          LET bl == file[w].bl
              ls == file[w].ls
          IN /\ bl # None => baselines[bl.id].head # None
             /\ ls # None => bl # None /\ Session(bl.id) = ls.sess

\* A write never replaces code of main by older code, whatever other worktrees
\* release, whatever main does between the freeze of the source and the freeze of
\* the heads, and whenever a lease ends (the lease and the comparison of the git
\* base with the frozen heads, cli.js 8490 and 23118).
NeverGoesBack == [][online'.src >= online.src]_vars

\* A worktree is rid of the records of a release in the end: `release end' clears
\* them also after a kill, a lost answer or the end of the lease, and while other
\* worktrees release (cli.js 5880 and 2021).
EndSettles == \A w \in Worktrees : Dirty(w) ~> ~Dirty(w)
=============================================================================
