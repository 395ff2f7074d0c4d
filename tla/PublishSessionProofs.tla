------------------------ MODULE PublishSessionProofs ------------------------
(***************************************************************************)
(* Theorems about PublishSession.  A session has one baseline, for good:   *)
(* the one that was frozen first.  So all writes under one lease are of    *)
(* one baseline, and a write that passed its preflight under a lease finds *)
(* what it compared with, or its own code, as long as the lease lives.     *)
(***************************************************************************)
EXTENDS PublishSession, TLAPS

Kinds == {"none", "begin", "publish", "renew", "end"}
Results == {"none", "ok", "held", "invalid", "conflict", "error"}
Answers == [r : Results, n : Nat, t : Nat]
AllCommands == [kind : Kinds, pc : States, other : BOOLEAN, had : BOOLEAN,
                made : BOOLEAN, ans : Answers]
AllBaselines == [sess : Nat, source : Nat, base : Nat, head : Nat \cup {None}]
Leases == [id : Nat, sess : Nat, term : Nat, live : BOOLEAN]
FileRecords == [bl : BaselineRecords \cup {None}, ls : LeaseRecords \cup {None}]
Contents == [ver : Nat, src : Nat, by : Nat]

-----------------------------------------------------------------------------
(* What is said of a baseline and a lease, and stays true.                  *)

Frozen(b) == b \in DOMAIN baselines /\ baselines[b].head # None

(* Lease l was granted to the session of baseline b.                        *)
Covers(l, b) ==
    /\ b \in DOMAIN baselines
    /\ l \in 1..lease.id
    /\ lease.id = l => lease.sess = b

(* As long as lease l lives nothing newer than baseline b is online.        *)
UpToDate(l, b) == lease.live /\ lease.id = l => online.src <= baselines[b].source

RequestOK(r) ==
    /\ r \in AllRequests
    /\ r.bl \in 0..Len(baselines)
    /\ r.lease \in 0..lease.id
    /\ r.type \in {"freeze", "acquire", "preflight", "write"} => r.bl \in DOMAIN baselines
    /\ r.type = "write" => Covers(r.lease, r.bl) /\ UpToDate(r.lease, r.bl)

PlatformTyped ==
    /\ baselines \in Seq(AllBaselines)
    /\ lease \in Leases
    /\ expired \in Nat
    /\ online \in Contents
    /\ tip \in Nat

BaselinesOK ==
    \A b \in DOMAIN baselines :
       /\ baselines[b].sess = b
       /\ baselines[b].base <= baselines[b].source
       /\ baselines[b].source <= tip
       /\ baselines[b].head # None => baselines[b].head <= online.ver

PlatformInv ==
    /\ PlatformTyped
    /\ BaselinesOK
    /\ lease.sess \in 0..Len(baselines)
    /\ lease.live => lease.id # 0
    /\ expired <= lease.term
    /\ online.src <= tip
    /\ online.by # 0 => online.by \in DOMAIN baselines /\ online.src = baselines[online.by].source
    /\ \A r \in orphans : RequestOK(r)

-----------------------------------------------------------------------------
(* A worktree: its records, and what the command in it relies on in each of *)
(* its states.                                                              *)

RecordsOK(w) ==
    /\ file[w] \in FileRecords
    /\ file[w].bl # None => Frozen(file[w].bl.id)
    /\ file[w].ls # None =>
          /\ file[w].bl # None
          /\ file[w].ls.sess = file[w].bl.id
          /\ Covers(file[w].ls.id, file[w].bl.id)
          /\ file[w].ls.term \in 1..lease.term

WithLease == {"finalize", "held", "preflight", "write", "undo", "renew"}

CommandOK(w) ==
    /\ cmd[w] \in AllCommands
    /\ cmd[w].had /\ cmd[w].pc \in {"loaded", "acquire", "freeze"} => file[w].ls # None
    /\ At(w, "loaded") /\ cmd[w].kind = "renew" => file[w].ls # None
    /\ At(w, "freeze") => file[w].bl = None /\ ~cmd[w].had
    /\ At(w, "acquire") => file[w].bl # None
    /\ At(w, "acquire") /\ cmd[w].made => file[w].ls = None
    /\ cmd[w].pc \in WithLease => file[w].ls # None
    /\ cmd[w].pc \in {"loaded", "renew"} => ~cmd[w].made
    /\ At(w, "clear") => file[w].ls = None

SentOK(w) ==
    sent[w] # None =>
       /\ RequestOK(sent[w])
       /\ cmd[w].ans = NoAnswer
       /\ cmd[w].pc \in {"freeze", "acquire", "renew", "preflight", "write"} =>
             sent[w].type = cmd[w].pc
       /\ At(w, "acquire") => sent[w].bl = file[w].bl.id
       /\ At(w, "renew") => sent[w].lease = file[w].ls.id
       /\ At(w, "preflight") => sent[w].bl = file[w].bl.id

AnswerOK(w) ==
    LET a == cmd[w].ans
    IN /\ a.r = "ok" /\ At(w, "freeze") => Frozen(a.n)
       /\ a.r = "ok" /\ At(w, "acquire") =>
             Covers(a.n, file[w].bl.id) /\ a.t \in 1..lease.term
       /\ a.r = "ok" /\ At(w, "renew") => a.n = file[w].ls.id /\ a.t \in 1..lease.term
       /\ a.r = "ok" /\ At(w, "preflight") => UpToDate(file[w].ls.id, file[w].bl.id)

WorktreeInv(w) == RecordsOK(w) /\ CommandOK(w) /\ SentOK(w) /\ AnswerOK(w)

BoundsInv == tip <= MaxCommits /\ starts \in 0..MaxStarts /\ faults \in 0..MaxFaults

Shape ==
    /\ file \in [Worktrees -> FileRecords]
    /\ cmd \in [Worktrees -> AllCommands]
    /\ sent \in [Worktrees -> AllRequests \cup {None}]

Inv == Shape /\ PlatformInv /\ BoundsInv /\ \A w \in Worktrees : WorktreeInv(w)

-----------------------------------------------------------------------------
(* What every step does to what was said before: it stays true.             *)

Advances ==
    /\ Len(baselines) <= Len(baselines')
    /\ lease.id <= lease'.id
    /\ lease.term <= lease'.term
    /\ \A b : Frozen(b) => Frozen(b)'
    /\ \A l, b : Covers(l, b) => Covers(l, b)'
    /\ \A l, b : Covers(l, b) /\ UpToDate(l, b) => UpToDate(l, b)'

LEMMA Lengths ==
    ASSUME PlatformTyped
    PROVE  Len(baselines) \in Nat /\ DOMAIN baselines = 1..Len(baselines)
  BY DEF PlatformTyped

LEMMA BaselineFields ==
    ASSUME PlatformTyped, NEW b \in DOMAIN baselines
    PROVE  /\ baselines[b] \in AllBaselines
           /\ baselines[b].source \in Nat /\ baselines[b].base \in Nat
           /\ baselines[b].head \in Nat \cup {None}
           /\ \A h \in Nat : [baselines[b] EXCEPT !.head = h] \in AllBaselines
<1>1. baselines[b] \in AllBaselines
  BY DEF PlatformTyped
<1>2. QED
  BY <1>1 DEF AllBaselines

LEMMA RequestStays ==
    ASSUME NEW r, PlatformTyped, PlatformTyped', Advances, RequestOK(r)
    PROVE  RequestOK(r)'
<1>1. /\ Len(baselines) \in Nat /\ Len(baselines') \in Nat
      /\ DOMAIN baselines = 1..Len(baselines) /\ DOMAIN baselines' = 1..Len(baselines')
      /\ lease.id \in Nat /\ lease'.id \in Nat
  BY DEF PlatformTyped, Leases
<1>2. r.bl \in 0..Len(baselines') /\ r.lease \in 0..lease'.id
  BY <1>1 DEF Advances, RequestOK
<1>3. r.bl \in DOMAIN baselines => r.bl \in DOMAIN baselines'
  BY <1>1 DEF Advances
<1>4. QED
  BY <1>2, <1>3 DEF Advances, RequestOK

LEMMA WorktreeStays ==
    ASSUME NEW w, PlatformTyped, PlatformTyped', Advances, WorktreeInv(w),
           file'[w] = file[w], cmd'[w] = cmd[w], sent'[w] = sent[w]
    PROVE  WorktreeInv(w)'
<1>1. lease.term \in Nat /\ lease'.term \in Nat /\ lease.term <= lease'.term
  BY DEF PlatformTyped, Leases, Advances
<1>2. RecordsOK(w)'
  BY <1>1 DEF WorktreeInv, RecordsOK, Advances, LeaseRecords
<1>3. CommandOK(w)'
  BY DEF WorktreeInv, CommandOK, At
<1>4. SentOK(w)'
  BY RequestStays DEF WorktreeInv, SentOK, At
<1>5. AnswerOK(w)'
  <2>1. cmd[w].ans.t \in 1..lease.term => cmd[w].ans.t \in 1..lease'.term
    BY <1>1
  <2>2. At(w, "preflight") => Covers(file[w].ls.id, file[w].bl.id)
    BY DEF WorktreeInv, RecordsOK, CommandOK, WithLease, At
  <2>3. QED
    BY <2>1, <2>2 DEF WorktreeInv, AnswerOK, Advances, At
<1>6. QED
  BY <1>2, <1>3, <1>4, <1>5 DEF WorktreeInv

(* A step of worktree w.                                                    *)
LEMMA StepOfOne ==
    ASSUME Inv, NEW w \in Worktrees, PlatformInv', Advances, BoundsInv', Shape',
           \A v \in Worktrees \ {w} :
              file'[v] = file[v] /\ cmd'[v] = cmd[v] /\ sent'[v] = sent[v],
           WorktreeInv(w)'
    PROVE  Inv'
<1>1. ASSUME NEW v \in Worktrees \ {w} PROVE WorktreeInv(v)'
  BY <1>1, WorktreeStays DEF Inv, PlatformInv
<1>2. QED
  BY <1>1 DEF Inv

LEMMA SameAdvances ==
    ASSUME UNCHANGED platform, PlatformTyped
    PROVE  Advances
  BY DEF platform, Advances, Frozen, Covers, UpToDate, PlatformTyped, Leases

(* A step of worktree w without the platform.                               *)
LEMMA LocalStep ==
    ASSUME Inv, NEW w \in Worktrees, NEW c \in AllCommands,
           cmd' = [cmd EXCEPT ![w] = c],
           UNCHANGED <<platform, expired, tip>>, orphans' = orphans, BoundsInv',
           file' \in [Worktrees -> FileRecords], sent' \in [Worktrees -> AllRequests \cup {None}],
           \A v \in Worktrees \ {w} : file'[v] = file[v] /\ sent'[v] = sent[v],
           WorktreeInv(w)'
    PROVE  Inv'
<1>1. Advances
  BY SameAdvances DEF Inv, PlatformInv
<1>2. PlatformInv'
  <2>1. PlatformTyped /\ PlatformTyped'
    BY DEF Inv, PlatformInv, PlatformTyped, platform
  <2>2. \A r \in orphans' : RequestOK(r)'
    BY <1>1, <2>1, RequestStays DEF Inv, PlatformInv
  <2>3. QED
    BY <2>1, <2>2 DEF Inv, PlatformInv, BaselinesOK, platform
<1>3. Shape' /\ \A v \in Worktrees \ {w} : cmd'[v] = cmd[v]
  BY DEF Inv, Shape
<1>4. QED
  BY <1>1, <1>2, <1>3, StepOfOne

-----------------------------------------------------------------------------
(* The platform serves a request.                                           *)

LEMMA EffectByType ==
    ASSUME NEW r, RequestOK(r), Effect(r)
    PROVE  \/ /\ r.type = "freeze"
              /\ baselines' = [baselines EXCEPT ![r.bl].head = online.ver]
              /\ UNCHANGED <<lease, online>>
           \/ /\ r.type = "acquire" /\ ~HeldFor(r.bl)
              /\ lease' = Granted(r.bl)
              /\ UNCHANGED <<baselines, online>>
           \/ /\ lease' = [lease EXCEPT !.term = @ + 1]
              /\ UNCHANGED <<baselines, online>>
           \/ /\ lease' = [lease EXCEPT !.live = FALSE]
              /\ UNCHANGED <<baselines, online>>
           \/ /\ r.type = "write" /\ Live(r.lease)
              /\ online' = [ver |-> online.ver + 1, src |-> baselines[r.bl].source, by |-> r.bl]
              /\ UNCHANGED <<baselines, lease>>
           \/ UNCHANGED <<baselines, lease, online>>
<1>1. CASE r.type = "freeze"
  BY <1>1 DEF Effect
<1>2. CASE r.type = "acquire"
  BY <1>2 DEF Effect
<1>3. CASE r.type = "renew"
  BY <1>3 DEF Effect
<1>4. CASE r.type = "release"
  BY <1>4 DEF Effect
<1>5. CASE r.type = "write"
  BY <1>5 DEF Effect
<1>6. CASE r.type \in {"status", "preflight"}
  BY <1>6 DEF Effect
<1>7. QED
  BY <1>1, <1>2, <1>3, <1>4, <1>5, <1>6 DEF RequestOK, AllRequests, RequestTypes

(* What is left to show when the platform is changed.                       *)
LEMMA PlatformStep ==
    ASSUME PlatformInv, Advances, PlatformTyped', BaselinesOK',
           lease'.sess \in 0..Len(baselines'),
           lease'.live => lease'.id # 0,
           expired' <= lease'.term,
           online'.src <= tip',
           online'.by # 0 =>
              online'.by \in DOMAIN baselines' /\ online'.src = baselines'[online'.by].source,
           \A r \in orphans' : RequestOK(r)
    PROVE  PlatformInv'
<1>1. \A r \in orphans' : RequestOK(r)'
  BY RequestStays DEF PlatformInv
<1>2. QED
  BY <1>1 DEF PlatformInv

LEMMA EffectAdvances ==
    ASSUME PlatformInv, NEW r, RequestOK(r), Effect(r),
           UNCHANGED <<expired, tip>>, orphans' \subseteq orphans
    PROVE  Advances /\ PlatformInv'
<1>0. /\ PlatformTyped /\ BaselinesOK
      /\ Len(baselines) \in Nat /\ DOMAIN baselines = 1..Len(baselines)
      /\ lease \in Leases /\ lease.id \in Nat /\ lease.term \in Nat /\ lease.sess \in Nat
      /\ online \in Contents /\ online.ver \in Nat /\ online.src \in Nat
      /\ expired \in Nat /\ tip \in Nat
      /\ \A q \in orphans' : RequestOK(q)
  BY DEF PlatformInv, PlatformTyped, Leases, Contents
<1>1. CASE /\ r.type = "freeze"
           /\ baselines' = [baselines EXCEPT ![r.bl].head = online.ver]
           /\ UNCHANGED <<lease, online>>
  <2>1. /\ r.bl \in DOMAIN baselines
        /\ baselines[r.bl] \in AllBaselines
        /\ [baselines[r.bl] EXCEPT !.head = online.ver] \in AllBaselines
    BY <1>0, <1>1, BaselineFields DEF RequestOK
  <2>2. /\ baselines' \in Seq(AllBaselines)
        /\ Len(baselines') = Len(baselines) /\ DOMAIN baselines' = DOMAIN baselines
    BY <1>0, <1>1, <2>1 DEF PlatformTyped
  <2>3. \A b \in DOMAIN baselines :
           /\ baselines'[b].sess = baselines[b].sess
           /\ baselines'[b].source = baselines[b].source
           /\ baselines'[b].base = baselines[b].base
           /\ baselines'[b].head \in {baselines[b].head, online.ver}
    BY <1>0, <1>1, <2>1 DEF PlatformTyped, AllBaselines
  <2>4. online.ver # None
    BY <1>0, NoneAssumption
  <2>5. Advances
    BY <1>0, <1>1, <2>2, <2>3, <2>4 DEF Advances, Frozen, Covers, UpToDate
  <2>6. PlatformTyped' /\ BaselinesOK'
    BY <1>0, <1>1, <2>2, <2>3 DEF PlatformTyped, BaselinesOK
  <2>7. QED
    BY <1>0, <1>1, <2>2, <2>3, <2>5, <2>6, PlatformStep DEF PlatformInv
<1>2. CASE r.type = "acquire" /\ ~HeldFor(r.bl) /\ lease' = Granted(r.bl)
           /\ UNCHANGED <<baselines, online>>
  <2>1. r.bl \in DOMAIN baselines /\ Session(r.bl) = r.bl
    BY <1>0, <1>2 DEF RequestOK, BaselinesOK, Session
  <2>2. /\ lease'.id = IF lease.live THEN lease.id ELSE lease.id + 1
        /\ lease'.sess = r.bl /\ lease'.term = lease.term + 1 /\ lease'.live = TRUE
        /\ lease' \in Leases
    BY <1>0, <1>2, <2>1 DEF Granted, Leases
  <2>3. lease.live => lease.sess = r.bl
    BY <1>2, <2>1 DEF HeldFor
  <2>4. Advances
    BY <1>0, <1>2, <2>2, <2>3 DEF Advances, Frozen, Covers, UpToDate
  <2>5. PlatformTyped' /\ BaselinesOK'
    BY <1>0, <1>2, <2>2 DEF PlatformTyped, BaselinesOK
  <2>6. QED
    BY <1>0, <1>2, <2>1, <2>2, <2>4, <2>5, PlatformStep DEF PlatformInv
<1>3. CASE lease' = [lease EXCEPT !.term = @ + 1] /\ UNCHANGED <<baselines, online>>
  <2>1. /\ lease'.id = lease.id /\ lease'.sess = lease.sess /\ lease'.live = lease.live
        /\ lease'.term = lease.term + 1 /\ lease' \in Leases
    BY <1>0, <1>3 DEF Leases
  <2>2. Advances
    BY <1>0, <1>3, <2>1 DEF Advances, Frozen, Covers, UpToDate
  <2>3. PlatformTyped' /\ BaselinesOK'
    BY <1>0, <1>3, <2>1 DEF PlatformTyped, BaselinesOK
  <2>4. QED
    BY <1>0, <1>3, <2>1, <2>2, <2>3, PlatformStep DEF PlatformInv
<1>4. CASE lease' = [lease EXCEPT !.live = FALSE] /\ UNCHANGED <<baselines, online>>
  <2>1. /\ lease'.id = lease.id /\ lease'.sess = lease.sess /\ lease'.live = FALSE
        /\ lease'.term = lease.term /\ lease' \in Leases
    BY <1>0, <1>4 DEF Leases
  <2>2. Advances
    BY <1>0, <1>4, <2>1 DEF Advances, Frozen, Covers, UpToDate
  <2>3. PlatformTyped' /\ BaselinesOK'
    BY <1>0, <1>4, <2>1 DEF PlatformTyped, BaselinesOK
  <2>4. QED
    BY <1>0, <1>4, <2>1, <2>2, <2>3, PlatformStep DEF PlatformInv
<1>5. CASE /\ r.type = "write" /\ Live(r.lease)
           /\ online' = [ver |-> online.ver + 1, src |-> baselines[r.bl].source, by |-> r.bl]
           /\ UNCHANGED <<baselines, lease>>
  <2>1. r.bl \in DOMAIN baselines /\ lease.live /\ lease.sess = r.bl
    BY <1>5 DEF RequestOK, Covers, Live
  <2>2. baselines[r.bl].source \in Nat /\ baselines[r.bl].source <= tip
    BY <1>0, <2>1, BaselineFields DEF BaselinesOK
  <2>3. /\ online'.src = baselines[r.bl].source /\ online'.by = r.bl
        /\ online'.ver = online.ver + 1 /\ online' \in Contents
    BY <1>0, <1>5, <2>1, <2>2 DEF Contents
  <2>4. Advances
    BY <1>0, <1>5, <2>1, <2>2, <2>3 DEF Advances, Frozen, Covers, UpToDate
  <2>5. PlatformTyped'
    BY <1>0, <1>5, <2>3 DEF PlatformTyped
  <2>6. BaselinesOK'
    <3>1. \A b \in DOMAIN baselines : baselines[b].head # None => baselines[b].head \in Nat
      BY <1>0, BaselineFields
    <3>2. QED
      BY <1>0, <1>5, <2>3, <3>1 DEF BaselinesOK
  <2>7. QED
    BY <1>0, <1>5, <2>1, <2>2, <2>3, <2>4, <2>5, <2>6, PlatformStep DEF PlatformInv
<1>6. CASE UNCHANGED <<baselines, lease, online>>
  <2>1. Advances
    BY <1>0, <1>6, SameAdvances DEF platform
  <2>2. PlatformTyped' /\ BaselinesOK'
    BY <1>0, <1>6 DEF PlatformTyped, BaselinesOK
  <2>3. QED
    BY <1>0, <1>6, <2>1, <2>2, PlatformStep DEF PlatformInv
<1>7. QED
  BY <1>1, <1>2, <1>3, <1>4, <1>5, <1>6, EffectByType

-----------------------------------------------------------------------------
(* What a step makes of the records and of the command of its worktree.     *)

LEMMA Parts ==
    ASSUME Inv, NEW w \in Worktrees
    PROVE  /\ RecordsOK(w) /\ CommandOK(w) /\ SentOK(w) /\ AnswerOK(w)
           /\ PlatformTyped /\ BaselinesOK /\ file \in [Worktrees -> FileRecords]
           /\ cmd[w] \in AllCommands
  BY DEF Inv, Shape, WorktreeInv, PlatformInv, CommandOK

LEMMA SamePlatform ==
    ASSUME UNCHANGED platform
    PROVE  /\ lease' = lease /\ baselines' = baselines
           /\ \A b : Frozen(b)' <=> Frozen(b)
           /\ \A l, b : Covers(l, b)' <=> Covers(l, b)
           /\ \A l, b : UpToDate(l, b)' <=> UpToDate(l, b)
           /\ \A r : RequestOK(r)' <=> RequestOK(r)
  BY DEF platform, Frozen, Covers, UpToDate, RequestOK

LEMMA IdleTyped == Idle \in AllCommands /\ NoAnswer \in Answers
  BY DEF Idle, AllCommands, NoAnswer, Says, Answers, Results, Kinds, States

LEMMA NoAnswerIsNone == NoAnswer.r = "none"
  BY DEF NoAnswer, Says

LEMMA GotoFields ==
    ASSUME NEW w, cmd[w] \in AllCommands, NEW p \in States
    PROVE  /\ Goto(w, p) \in AllCommands
           /\ Goto(w, p).pc = p /\ Goto(w, p).ans = NoAnswer
           /\ Goto(w, p).kind = cmd[w].kind /\ Goto(w, p).other = cmd[w].other
           /\ Goto(w, p).had = cmd[w].had /\ Goto(w, p).made = cmd[w].made
  BY IdleTyped DEF Goto, AllCommands

LEMMA StoreFields ==
    ASSUME Inv, NEW w \in Worktrees, NEW v
    PROVE  /\ Store(w, "bl", v) => file'[w].bl = v /\ file'[w].ls = file[w].ls
           /\ Store(w, "ls", v) => file'[w].ls = v /\ file'[w].bl = file[w].bl
           /\ \/ Store(w, "bl", v) /\ v \in BaselineRecords \cup {None}
              \/ Store(w, "ls", v) /\ v \in LeaseRecords \cup {None}
              => /\ file'[w] \in FileRecords /\ file' \in [Worktrees -> FileRecords]
                 /\ \A u \in Worktrees \ {w} : file'[u] = file[u]
  BY Parts DEF Store, FileRecords

LEMMA AskTyped ==
    ASSUME Inv, NEW w \in Worktrees, NEW r \in AllRequests \cup {None},
           sent' = [sent EXCEPT ![w] = r]
    PROVE  /\ sent'[w] = r
           /\ sent' \in [Worktrees -> AllRequests \cup {None}]
           /\ \A v \in Worktrees \ {w} : sent'[v] = sent[v]
  BY DEF Inv, Shape

LEMMA BecomesTyped ==
    ASSUME Inv, NEW w \in Worktrees, NEW c \in AllCommands, Becomes(w, c)
    PROVE  /\ cmd'[w] = c
           /\ cmd' \in [Worktrees -> AllCommands]
           /\ \A v \in Worktrees \ {w} : cmd'[v] = cmd[v]
  BY DEF Inv, Shape, Becomes

-----------------------------------------------------------------------------
(* A request is served.                                                     *)

LEMMA RecordsStay ==
    ASSUME NEW w, PlatformTyped, PlatformTyped', Advances, RecordsOK(w),
           file'[w] = file[w]
    PROVE  RecordsOK(w)'
<1>1. lease.term \in Nat /\ lease'.term \in Nat /\ lease.term <= lease'.term
  BY DEF PlatformTyped, Leases, Advances
<1>2. QED
  BY <1>1 DEF RecordsOK, Advances, LeaseRecords

(* The command in w hears answer a.                                         *)
LEMMA HearsStep ==
    ASSUME Inv, NEW w \in Worktrees, NEW a \in Answers, Hears(w, a),
           UNCHANGED file, Advances, PlatformInv', BoundsInv',
           cmd'[w].ans = a => AnswerOK(w)'
    PROVE  Inv'
<1>0. /\ RecordsOK(w) /\ CommandOK(w) /\ SentOK(w) /\ AnswerOK(w)
      /\ PlatformTyped /\ PlatformTyped' /\ file \in [Worktrees -> FileRecords]
      /\ cmd[w] \in AllCommands
  BY Parts DEF PlatformInv
<1>1. [cmd[w] EXCEPT !.ans = a] \in AllCommands
  BY <1>0 DEF AllCommands
<1>2. /\ cmd'[w] = [cmd[w] EXCEPT !.ans = a] /\ cmd' \in [Worktrees -> AllCommands]
      /\ \A v \in Worktrees \ {w} : cmd'[v] = cmd[v]
  BY <1>1, BecomesTyped DEF Hears
<1>3. /\ sent'[w] = None /\ sent' \in [Worktrees -> AllRequests \cup {None}]
      /\ \A v \in Worktrees \ {w} : sent'[v] = sent[v]
  BY AskTyped DEF Hears
<1>4. /\ cmd'[w] \in AllCommands
      /\ cmd'[w].kind = cmd[w].kind /\ cmd'[w].pc = cmd[w].pc
      /\ cmd'[w].had = cmd[w].had /\ cmd'[w].made = cmd[w].made /\ cmd'[w].ans = a
  BY <1>0, <1>1, <1>2 DEF AllCommands
<1>5. RecordsOK(w)'
  BY <1>0, RecordsStay
<1>6. CommandOK(w)'
  BY <1>0, <1>4 DEF CommandOK, At
<1>7. SentOK(w)'
  BY <1>3 DEF SentOK
<1>8. WorktreeInv(w)'
  BY <1>4, <1>5, <1>6, <1>7 DEF WorktreeInv
<1>9. Shape'
  BY <1>0, <1>2, <1>3 DEF Shape
<1>10. QED
  BY <1>2, <1>3, <1>8, <1>9, StepOfOne

LEMMA AnswerByType ==
    ASSUME NEW r, r.type \in RequestTypes
    PROVE  /\ r.type = "freeze" => Answer(r) = Says("ok", r.bl, 0)
           /\ r.type = "acquire" /\ HeldFor(r.bl) => Answer(r) = Says("held", 0, 0)
           /\ r.type = "acquire" /\ ~HeldFor(r.bl) =>
                 Answer(r) = Says("ok", Granted(r.bl).id, Granted(r.bl).term)
           /\ r.type = "renew" /\ Live(r.lease) =>
                 Answer(r) = Says("ok", lease.id, lease.term + 1)
           /\ r.type = "renew" /\ ~Live(r.lease) => Answer(r) = Says("invalid", 0, 0)
           /\ r.type \in {"release", "write"} =>
                 Answer(r) \in {Says("ok", 0, 0), Says("invalid", 0, 0)}
           /\ r.type = "status" => Answer(r) \in {Says("ok", 0, 0), Says("held", 0, 0)}
           /\ r.type = "preflight" =>
                 Answer(r) = Says(IF Fresh(r.bl) THEN "ok" ELSE "conflict", 0, 0)
<1>1. CASE r.type = "freeze"
  BY <1>1 DEF Answer
<1>2. CASE r.type = "acquire"
  BY <1>2 DEF Answer
<1>3. CASE r.type = "renew"
  BY <1>3 DEF Answer
<1>4. CASE r.type = "release"
  BY <1>4 DEF Answer
<1>5. CASE r.type = "write"
  BY <1>5 DEF Answer
<1>6. CASE r.type = "status"
  BY <1>6 DEF Answer
<1>7. CASE r.type = "preflight"
  BY <1>7 DEF Answer
<1>8. QED
  BY <1>1, <1>2, <1>3, <1>4, <1>5, <1>6, <1>7 DEF RequestTypes

LEMMA AnswerTyped ==
    ASSUME PlatformInv, NEW r, RequestOK(r)
    PROVE  Answer(r) \in Answers
<1>1. /\ r.type \in RequestTypes /\ r.bl \in Nat
      /\ lease.id \in Nat /\ lease.term \in Nat
  BY DEF RequestOK, AllRequests, PlatformInv, PlatformTyped, Leases
<1>2. Granted(r.bl).id \in Nat /\ Granted(r.bl).term \in Nat
  BY <1>1 DEF Granted
<1>3. \A a \in Results, n \in Nat, t \in Nat : Says(a, n, t) \in Answers
  BY DEF Says, Answers
<1>4. {"ok", "held", "invalid", "conflict"} \subseteq Results
  BY DEF Results
<1>5. CASE r.type = "freeze"
  BY <1>1, <1>3, <1>4, <1>5, AnswerByType
<1>6. CASE r.type = "acquire"
  BY <1>1, <1>2, <1>3, <1>4, <1>6, AnswerByType
<1>7. CASE r.type = "renew"
  BY <1>1, <1>3, <1>4, <1>7, AnswerByType
<1>8. CASE r.type \in {"release", "write"}
  BY <1>1, <1>3, <1>4, <1>8, AnswerByType
<1>9. CASE r.type = "status"
  BY <1>1, <1>3, <1>4, <1>9, AnswerByType
<1>10. CASE r.type = "preflight"
  BY <1>1, <1>3, <1>4, <1>10, AnswerByType
<1>11. QED
  BY <1>1, <1>5, <1>6, <1>7, <1>8, <1>9, <1>10 DEF RequestTypes

(* A command can rely on what the answer to its request says.               *)
LEMMA AnswerGood ==
    ASSUME Inv, NEW w \in Worktrees, NEW r, NEW a, r = sent[w], a = Answer(r),
           r # None, Effect(r), PlatformInv',
           UNCHANGED file, cmd'[w].pc = cmd[w].pc, cmd'[w].ans = a
    PROVE  AnswerOK(w)'
<1>0. /\ RecordsOK(w) /\ CommandOK(w) /\ SentOK(w) /\ PlatformInv /\ RequestOK(r)
      /\ r.type \in RequestTypes
      /\ cmd[w].pc \in {"freeze", "acquire", "renew", "preflight", "write"} =>
            r.type = cmd[w].pc
      /\ Len(baselines) \in Nat /\ DOMAIN baselines = 1..Len(baselines)
      /\ lease.id \in Nat /\ lease.term \in Nat /\ lease \in Leases
  BY Parts, Lengths DEF Inv, SentOK, RequestOK, AllRequests, PlatformInv, PlatformTyped, Leases
<1>1. CASE At(w, "freeze") /\ a.r = "ok"
  <2>1. r.type = "freeze" /\ a.n = r.bl /\ r.bl \in DOMAIN baselines
    BY <1>0, <1>1, AnswerByType DEF At, Says, RequestOK
  <2>2. baselines' = [baselines EXCEPT ![r.bl].head = online.ver]
    BY <1>0, <2>1, EffectByType DEF Effect
  <2>3. online.ver # None
    BY <1>0, NoneAssumption DEF PlatformInv, PlatformTyped, Contents
  <2>4. baselines'[r.bl].head = online.ver /\ r.bl \in DOMAIN baselines'
    BY <1>0, <2>1, <2>2, BaselineFields DEF PlatformInv, AllBaselines
  <2>5. Frozen(a.n)'
    BY <2>1, <2>3, <2>4 DEF Frozen
  <2>6. QED
    BY <1>1, <2>1, <2>5 DEF AnswerOK, At
<1>2. CASE At(w, "acquire") /\ a.r = "ok"
  <2>1. r.type = "acquire" /\ r.bl = file[w].bl.id /\ r.bl \in DOMAIN baselines
    BY <1>0, <1>2 DEF At, SentOK, RequestOK
  <2>2. ~HeldFor(r.bl) /\ a.n = Granted(r.bl).id /\ a.t = Granted(r.bl).term
    BY <1>0, <1>2, <2>1, AnswerByType DEF Says
  <2>3. lease' = Granted(r.bl) /\ baselines' = baselines
    BY <2>1, <2>2 DEF Effect
  <2>4. Session(r.bl) = r.bl
    BY <1>0, <2>1 DEF PlatformInv, BaselinesOK, Session
  <2>5. /\ lease'.sess = r.bl /\ lease'.id = a.n /\ lease'.term = a.t
        /\ a.n \in 1..lease'.id /\ a.t \in 1..lease'.term
    BY <1>0, <2>2, <2>3, <2>4 DEF Granted, PlatformInv
  <2>6. Covers(a.n, r.bl)'
    BY <2>1, <2>3, <2>5 DEF Covers
  <2>7. QED
    BY <1>2, <2>1, <2>5, <2>6 DEF AnswerOK, At
<1>3. CASE At(w, "renew") /\ a.r = "ok"
  <2>1. r.type = "renew" /\ r.lease = file[w].ls.id
    BY <1>0, <1>3 DEF At, SentOK
  <2>2. Live(r.lease) /\ a.n = lease.id /\ a.t = lease.term + 1
    BY <1>0, <1>3, <2>1, AnswerByType DEF Says
  <2>3. lease' = [lease EXCEPT !.term = @ + 1]
    BY <2>1, <2>2 DEF Effect
  <2>4. a.n = file[w].ls.id /\ a.t \in 1..lease'.term
    BY <1>0, <2>1, <2>2, <2>3 DEF Live, Leases
  <2>5. QED
    BY <1>3, <2>4 DEF AnswerOK, At
<1>4. CASE At(w, "preflight") /\ a.r = "ok"
  <2>1. r.type = "preflight" /\ r.bl = file[w].bl.id /\ r.bl \in DOMAIN baselines
    BY <1>0, <1>4 DEF At, SentOK, RequestOK
  <2>2. Fresh(r.bl)
    BY <1>0, <1>4, <2>1, AnswerByType DEF Says
  <2>3. UNCHANGED <<baselines, lease, online>>
    BY <2>1 DEF Effect
  <2>4. online.src <= baselines[r.bl].source
    <3>1. /\ baselines[r.bl].source \in Nat /\ baselines[r.bl].base \in Nat
          /\ baselines[r.bl].base <= baselines[r.bl].source
      BY <1>0, <2>1, BaselineFields DEF PlatformInv, BaselinesOK
    <3>2. CASE online.by = r.bl
      BY <1>0, <2>1, <3>1, <3>2 DEF PlatformInv
    <3>3. CASE SourceAt(r.bl) = online.src
      BY <3>1, <3>3 DEF SourceAt
    <3>4. QED
      BY <2>2, <3>2, <3>3 DEF Fresh
  <2>5. UpToDate(file[w].ls.id, r.bl)'
    BY <2>3, <2>4 DEF UpToDate
  <2>6. QED
    BY <1>4, <2>1, <2>5 DEF AnswerOK, At
<1>5. QED
  BY <1>1, <1>2, <1>3, <1>4 DEF AnswerOK, At

LEMMA ErrorTyped == Says("error", 0, 0) \in Answers /\ Says("error", 0, 0).r = "error"
  BY DEF Says, Answers, Results

LEMMA ServeStep ==
    ASSUME Inv, NEW w \in Worktrees, Serve(w)
    PROVE  Inv'
<1>1. /\ SentOK(w) /\ PlatformInv /\ sent[w] # None /\ RequestOK(sent[w])
      /\ Effect(sent[w]) /\ cmd[w] \in AllCommands
  BY Parts DEF Inv, SentOK, Serve, Hears
<1>2. Advances /\ PlatformInv' /\ BoundsInv'
  BY <1>1, EffectAdvances DEF Serve, world, bounds, Inv, BoundsInv
<1>3. Answer(sent[w]) \in Answers
  BY <1>1, AnswerTyped
<1>4. cmd'[w].pc = cmd[w].pc
  BY <1>1 DEF Serve, Hears, Becomes, Inv, Shape, AllCommands
<1>5. cmd'[w].ans = Answer(sent[w]) => AnswerOK(w)'
  BY <1>1, <1>2, <1>4, AnswerGood DEF Serve
<1>6. QED
  BY <1>2, <1>3, <1>5, HearsStep DEF Serve

LEMMA LoseRequestStep ==
    ASSUME Inv, NEW w \in Worktrees, LoseRequest(w)
    PROVE  Inv'
<1>1. PlatformTyped /\ PlatformInv /\ faults \in Nat /\ MaxFaults \in Nat
  BY Parts, PublishBounds DEF Inv, BoundsInv
<1>2. Advances /\ BoundsInv'
  BY <1>1, SameAdvances DEF LoseRequest, Fault, platform, world, Inv, BoundsInv
<1>3. PlatformInv'
  BY <1>1, SamePlatform DEF LoseRequest, platform, world, PlatformInv, PlatformTyped, BaselinesOK
<1>4. cmd'[w].ans = Says("error", 0, 0) => AnswerOK(w)'
  BY ErrorTyped DEF AnswerOK
<1>5. QED
  BY <1>2, <1>3, <1>4, ErrorTyped, HearsStep DEF LoseRequest

LEMMA LoseAnswerStep ==
    ASSUME Inv, NEW w \in Worktrees, LoseAnswer(w)
    PROVE  Inv'
<1>1. /\ SentOK(w) /\ PlatformInv /\ sent[w] # None /\ RequestOK(sent[w])
      /\ Effect(sent[w]) /\ faults \in Nat /\ MaxFaults \in Nat
  BY Parts, PublishBounds DEF Inv, SentOK, LoseAnswer, Hears, BoundsInv
<1>2. Advances /\ PlatformInv' /\ BoundsInv'
  BY <1>1, EffectAdvances DEF LoseAnswer, Fault, world, Inv, BoundsInv
<1>3. cmd'[w].ans = Says("error", 0, 0) => AnswerOK(w)'
  BY ErrorTyped DEF AnswerOK
<1>4. QED
  BY <1>2, <1>3, ErrorTyped, HearsStep DEF LoseAnswer

(* A request of no command that waits is served, or one once more.          *)
LEMMA EffectStep ==
    ASSUME Inv, NEW r, RequestOK(r), Effect(r), UNCHANGED <<file, cmd, sent, world>>,
           orphans' \subseteq orphans, BoundsInv'
    PROVE  Inv'
<1>1. Advances /\ PlatformInv'
  BY EffectAdvances DEF Inv, world
<1>2. ASSUME NEW v \in Worktrees PROVE WorktreeInv(v)'
  BY <1>1, WorktreeStays DEF Inv, PlatformInv
<1>3. QED
  BY <1>1, <1>2 DEF Inv, Shape

LEMMA ServeOrphanStep ==
    ASSUME Inv, ServeOrphan
    PROVE  Inv'
<1>1. PICK r \in orphans : Effect(r) /\ orphans' = orphans \ {r}
  BY DEF ServeOrphan
<1>2. RequestOK(r) /\ BoundsInv'
  BY DEF Inv, PlatformInv, BoundsInv, ServeOrphan, world, bounds
<1>3. QED
  BY <1>1, <1>2, EffectStep DEF ServeOrphan

LEMMA RetransmitStep ==
    ASSUME Inv, NEW w \in Worktrees, Retransmit(w)
    PROVE  Inv'
<1>1. RequestOK(sent[w]) /\ faults \in Nat /\ MaxFaults \in Nat
  BY Parts, PublishBounds DEF SentOK, Retransmit, Inv, BoundsInv
<1>2. BoundsInv'
  BY <1>1 DEF Inv, BoundsInv, Retransmit, Fault, world
<1>3. QED
  BY <1>1, <1>2, EffectStep DEF Retransmit

-----------------------------------------------------------------------------
(* Steps of a command.                                                      *)

LEMMA RequestGood ==
    ASSUME PlatformTyped, NEW t \in RequestTypes, NEW b \in 0..Len(baselines),
           NEW l \in 0..lease.id,
           t \in {"freeze", "acquire", "preflight", "write"} => b \in DOMAIN baselines,
           t = "write" => Covers(l, b) /\ UpToDate(l, b)
    PROVE  /\ RequestOK(Request(t, b, l)) /\ Request(t, b, l) \in AllRequests
           /\ Request(t, b, l).type = t /\ Request(t, b, l).bl = b
           /\ Request(t, b, l).lease = l
<1>1. Len(baselines) \in Nat /\ lease.id \in Nat
  BY DEF PlatformTyped, Leases
<1>2. QED
  BY <1>1 DEF RequestOK, Request, AllRequests

LEMMA LeaveStep ==
    ASSUME Inv, NEW w \in Worktrees, Leave(w), UNCHANGED sent,
           UNCHANGED <<platform, expired, tip>>, orphans' = orphans, BoundsInv'
    PROVE  Inv'
<1>0. /\ RecordsOK(w) /\ SentOK(w) /\ file \in [Worktrees -> FileRecords]
      /\ sent \in [Worktrees -> AllRequests \cup {None}]
  BY Parts DEF Inv, Shape
<1>1. cmd' = [cmd EXCEPT ![w] = Idle] /\ cmd'[w] = Idle /\ UNCHANGED file
  BY IdleTyped, BecomesTyped DEF Leave, Becomes
<1>2. /\ Idle \in AllCommands /\ Idle.pc = "idle" /\ ~Idle.had /\ ~Idle.made
      /\ Idle.ans = NoAnswer /\ Idle.kind = "none"
  BY IdleTyped DEF Idle
<1>3. RecordsOK(w)'
  BY <1>0, <1>1, SamePlatform DEF RecordsOK
<1>4. CommandOK(w)'
  BY <1>1, <1>2 DEF CommandOK, At, WithLease
<1>5. SentOK(w)'
  BY <1>0, <1>1, <1>2, SamePlatform DEF SentOK, At
<1>6. AnswerOK(w)'
  BY <1>1, <1>2 DEF AnswerOK, At
<1>7. WorktreeInv(w)'
  BY <1>3, <1>4, <1>5, <1>6 DEF WorktreeInv
<1>8. QED
  BY <1>0, <1>1, <1>2, <1>7, LocalStep

LEMMA BoundsStay ==
    ASSUME Inv, UNCHANGED <<tip, bounds>>
    PROVE  BoundsInv'
  BY DEF Inv, BoundsInv, bounds

LEMMA LeaveSteps ==
    ASSUME Inv, NEW w \in Worktrees, Refuse(w) \/ Keep(w) \/ GiveUp(w)
    PROVE  Inv'
<1>1. /\ Leave(w) /\ UNCHANGED sent /\ UNCHANGED <<platform, expired, tip>>
      /\ orphans' = orphans /\ BoundsInv'
  BY BoundsStay DEF Refuse, Keep, GiveUp, Local, world
<1>2. QED
  BY <1>1, LeaveStep

(* The command is started.                                                  *)
LEMMA LoadStep ==
    ASSUME Inv, NEW w \in Worktrees, NEW kind \in Kinds, NEW other \in BOOLEAN,
           kind = "renew" => file[w].ls # None, Load(w, kind, other), BoundsInv'
    PROVE  Inv'
<1> DEFINE c == [Idle EXCEPT !.kind = kind, !.pc = "loaded", !.other = other,
                             !.had = Usable(file[w].ls)]
<1>0. /\ RecordsOK(w) /\ SentOK(w) /\ file \in [Worktrees -> FileRecords]
      /\ sent \in [Worktrees -> AllRequests \cup {None}]
  BY Parts DEF Inv, Shape
<1>1. /\ c \in AllCommands /\ c.pc = "loaded" /\ c.kind = kind /\ ~c.made
      /\ c.had => file[w].ls # None
      /\ c.ans = NoAnswer
  BY IdleTyped DEF AllCommands, States, Usable, Idle
<1>2. cmd' = [cmd EXCEPT ![w] = c] /\ cmd'[w] = c /\ UNCHANGED <<file, sent>>
  BY <1>1, BecomesTyped DEF Load, Becomes
<1>3. UNCHANGED platform /\ UNCHANGED <<expired, tip>> /\ orphans' = orphans
  BY DEF Load, world
<1>4. RecordsOK(w)'
  BY <1>0, <1>2, <1>3, SamePlatform DEF RecordsOK
<1>5. CommandOK(w)'
  BY <1>1, <1>2 DEF CommandOK, At, WithLease
<1>6. SentOK(w)'
  BY <1>0, <1>1, <1>2, <1>3, SamePlatform DEF SentOK, At
<1>7. AnswerOK(w)'
  BY <1>1, <1>2 DEF AnswerOK, At
<1>8. WorktreeInv(w)'
  BY <1>4, <1>5, <1>6, <1>7 DEF WorktreeInv
<1>9. QED
  BY <1>0, <1>1, <1>2, <1>3, <1>8, LocalStep

LEMMA StartSteps ==
    ASSUME Inv, NEW w \in Worktrees, Start(w) \/ StartEnd(w)
    PROVE  Inv'
<1>1. BoundsInv'
  <2>1. /\ MaxStarts \in Nat /\ starts \in 0..MaxStarts
        /\ Start(w) => starts < MaxStarts /\ starts' = starts + 1 /\ UNCHANGED <<tip, faults>>
        /\ StartEnd(w) => UNCHANGED <<tip, bounds>>
    BY PublishBounds DEF Inv, BoundsInv, Start, StartEnd, Load, world, bounds
  <2>2. QED
    BY <2>1, BoundsStay DEF Inv, BoundsInv
<1>2. CASE StartEnd(w)
  BY <1>1, <1>2, LoadStep DEF StartEnd, Kinds
<1>3. CASE Start(w)
  BY <1>1, <1>3, LoadStep DEF Start, Kinds
<1>4. QED
  BY <1>2, <1>3

LEMMA DropOldLeaseStep ==
    ASSUME Inv, NEW w \in Worktrees, DropOldLease(w)
    PROVE  Inv'
<1>0. /\ RecordsOK(w) /\ CommandOK(w) /\ SentOK(w) /\ AnswerOK(w)
      /\ cmd[w] \in AllCommands /\ cmd' = cmd /\ cmd' = [cmd EXCEPT ![w] = cmd[w]]
      /\ sent' = sent /\ sent' \in [Worktrees -> AllRequests \cup {None}]
      /\ UNCHANGED platform /\ UNCHANGED <<expired, tip>> /\ orphans' = orphans
      /\ BoundsInv'
      /\ cmd[w].pc = "loaded" /\ cmd[w].kind = "publish" /\ ~cmd[w].had
  BY Parts, BoundsStay DEF DropOldLease, Local, world, Inv, Shape, Enters, At
<1>1. /\ file'[w].ls = None /\ file'[w].bl = file[w].bl
      /\ file'[w] \in FileRecords
      /\ file' \in [Worktrees -> FileRecords] /\ \A u \in Worktrees \ {w} : file'[u] = file[u]
  BY StoreFields DEF DropOldLease
<1>2. RecordsOK(w)'
  BY <1>0, <1>1, SamePlatform DEF RecordsOK
<1>3. CommandOK(w)'
  BY <1>0, <1>1 DEF CommandOK, At, WithLease
<1>4. SentOK(w)'
  BY <1>0, SamePlatform DEF SentOK, At
<1>5. AnswerOK(w)'
  BY <1>0 DEF AnswerOK, At
<1>6. WorktreeInv(w)'
  BY <1>2, <1>3, <1>4, <1>5 DEF WorktreeInv
<1>7. QED
  BY <1>0, <1>1, <1>6, LocalStep

(* A request under the records of the worktree.                             *)
LEMMA AskStep ==
    ASSUME Inv, NEW w \in Worktrees, NEW p \in {"renew", "preflight", "write", "close"},
           NEW r, RequestOK(r), Ask(w, p, r), UNCHANGED <<platform, expired, tip>>,
           orphans' = orphans, BoundsInv',
           p # "close" => r.type = p /\ file[w].ls # None,
           p = "renew" => r.lease = file[w].ls.id /\ ~cmd[w].made,
           p = "preflight" => r.bl = file[w].bl.id
    PROVE  Inv'
<1>0. /\ RecordsOK(w) /\ file \in [Worktrees -> FileRecords] /\ cmd[w] \in AllCommands
      /\ p \in States /\ r \in AllRequests /\ UNCHANGED file
  BY Parts DEF States, RequestOK, Ask
<1> DEFINE c == Goto(w, p)
<1>1. /\ c \in AllCommands /\ c.pc = p /\ c.ans = NoAnswer
      /\ c.made = cmd[w].made
  BY <1>0, GotoFields
<1>2. cmd' = [cmd EXCEPT ![w] = c] /\ cmd'[w] = c
  BY <1>1, BecomesTyped DEF Ask, Becomes
<1>3. /\ sent'[w] = r /\ sent' \in [Worktrees -> AllRequests \cup {None}]
      /\ \A v \in Worktrees \ {w} : sent'[v] = sent[v]
  BY <1>0, AskTyped DEF Ask
<1>4. RecordsOK(w)'
  BY <1>0, SamePlatform DEF RecordsOK
<1>5. CommandOK(w)'
  BY <1>0, <1>1, <1>2 DEF CommandOK, At, WithLease
<1>6. SentOK(w)'
  BY <1>0, <1>1, <1>2, <1>3, SamePlatform DEF SentOK, At
<1>7. AnswerOK(w)'
  BY <1>1, <1>2 DEF AnswerOK, At, NoAnswer, Says
<1>8. WorktreeInv(w)'
  BY <1>4, <1>5, <1>6, <1>7 DEF WorktreeInv
<1>9. QED
  BY <1>0, <1>1, <1>2, <1>3, <1>8, LocalStep

LEMMA ReleaseGood ==
    ASSUME Inv, NEW w \in Worktrees, file[w].ls # None
    PROVE  /\ RequestOK(ReleaseOf(w)) /\ ReleaseOf(w) \in AllRequests
           /\ RequestOK(RenewOf(w)) /\ RenewOf(w) \in AllRequests
           /\ RenewOf(w).type = "renew" /\ RenewOf(w).lease = file[w].ls.id
<1>1. /\ PlatformTyped /\ file[w].ls.id \in 1..lease.id /\ lease.id \in Nat
      /\ 0 \in 0..Len(baselines)
  BY Parts, Lengths DEF RecordsOK, Covers, PlatformTyped, Leases
<1>2. file[w].ls.id \in 0..lease.id
  BY <1>1
<1>3. QED
  BY <1>1, <1>2, RequestGood DEF ReleaseOf, RenewOf, RequestTypes

LEMMA RenewStep ==
    ASSUME Inv, NEW w \in Worktrees, Renew(w)
    PROVE  Inv'
<1>1. /\ file[w].ls # None /\ ~cmd[w].made
  BY Parts DEF Renew, CommandOK, At
<1>2. /\ UNCHANGED <<platform, expired, tip>> /\ orphans' = orphans /\ BoundsInv'
  BY BoundsStay DEF Renew, Remote, platform, world
<1>3. QED
  BY <1>1, <1>2, ReleaseGood, AskStep DEF Renew

LEMMA PreflightStep ==
    ASSUME Inv, NEW w \in Worktrees, Preflight(w)
    PROVE  Inv'
<1>1. file[w].ls # None
  BY Parts DEF Preflight, CommandOK, At, WithLease
<1>2. /\ UNCHANGED <<platform, expired, tip>> /\ orphans' = orphans /\ BoundsInv'
  BY BoundsStay DEF Preflight, Remote, platform, world
<1> DEFINE r == Request("preflight", file[w].bl.id, 0)
<1>3. RequestOK(r) /\ r.type = "preflight" /\ r.bl = file[w].bl.id
  <2>1. /\ PlatformTyped /\ file[w].bl.id \in DOMAIN baselines
        /\ Len(baselines) \in Nat /\ DOMAIN baselines = 1..Len(baselines)
        /\ 0 \in 0..lease.id
    BY <1>1, Parts, Lengths DEF RecordsOK, Frozen, PlatformTyped, Leases
  <2>2. file[w].bl.id \in 0..Len(baselines)
    BY <2>1
  <2>3. QED
    BY <2>1, <2>2, RequestGood DEF RequestTypes
<1>4. QED
  BY <1>1, <1>2, <1>3, AskStep DEF Preflight

LEMMA WriteStep ==
    ASSUME Inv, NEW w \in Worktrees, Write(w)
    PROVE  Inv'
<1>1. /\ file[w].ls # None /\ file[w].bl # None
      /\ Covers(file[w].ls.id, file[w].bl.id) /\ UpToDate(file[w].ls.id, file[w].bl.id)
  BY Parts DEF Write, Heard, RecordsOK, CommandOK, AnswerOK, At, WithLease
<1>2. /\ UNCHANGED <<platform, expired, tip>> /\ orphans' = orphans /\ BoundsInv'
  BY BoundsStay DEF Write, Remote, platform, world
<1> DEFINE r == Request("write", file[w].bl.id, file[w].ls.id)
<1>3. RequestOK(r) /\ r.type = "write"
  <2>1. /\ PlatformTyped /\ file[w].bl.id \in DOMAIN baselines
        /\ file[w].ls.id \in 1..lease.id /\ lease.id \in Nat
        /\ Len(baselines) \in Nat /\ DOMAIN baselines = 1..Len(baselines)
    BY <1>1, Parts, Lengths DEF Covers, PlatformTyped, Leases
  <2>2. file[w].bl.id \in 0..Len(baselines) /\ file[w].ls.id \in 0..lease.id
    BY <2>1
  <2>3. QED
    BY <1>1, <2>1, <2>2, RequestGood DEF RequestTypes
<1>4. QED
  BY <1>1, <1>2, <1>3, AskStep DEF Write

LEMMA GiveBackStep ==
    ASSUME Inv, NEW w \in Worktrees, GiveBack(w)
    PROVE  Inv'
<1>1. file[w].ls # None
  BY Parts DEF GiveBack, Heard, CommandOK, At, WithLease
<1>2. /\ UNCHANGED <<platform, expired, tip>> /\ orphans' = orphans /\ BoundsInv'
  BY BoundsStay DEF GiveBack, Remote, platform, world
<1>3. QED
  BY <1>1, <1>2, ReleaseGood, AskStep DEF GiveBack

LEMMA AskEndStep ==
    ASSUME Inv, NEW w \in Worktrees, AskEnd(w)
    PROVE  Inv'
<1>1. /\ UNCHANGED <<platform, expired, tip>> /\ orphans' = orphans /\ BoundsInv'
  BY BoundsStay DEF AskEnd, Remote, platform, world
<1>2. RequestOK(Request("status", 0, 0))
  <2>1. PlatformTyped /\ 0 \in 0..Len(baselines) /\ 0 \in 0..lease.id
    BY Parts, Lengths DEF PlatformTyped, Leases
  <2>2. QED
    BY <2>1, RequestGood DEF RequestTypes
<1>3. QED
  BY <1>1, <1>2, ReleaseGood, AskStep DEF AskEnd

(* A command goes on with the baseline that its records now have.           *)
LEMMA GoesOnStep ==
    ASSUME Inv, NEW w \in Worktrees, NEW b, NEW made \in BOOLEAN, GoesOn(w, b, made),
           RecordsOK(w)', file'[w].bl # None, file'[w].bl.id = b,
           file'[w].ls = file[w].ls, file' \in [Worktrees -> FileRecords],
           \A v \in Worktrees \ {w} : file'[v] = file[v],
           cmd[w].had => file[w].ls # None /\ ~made,
           made => file[w].ls = None,
           UNCHANGED <<platform, expired, tip>>, orphans' = orphans, BoundsInv'
    PROVE  Inv'
<1> DEFINE next == IF ~cmd[w].had THEN "acquire"
                   ELSE IF cmd[w].kind = "begin" THEN "renew" ELSE "finalize"
<1> DEFINE c == [Goto(w, next) EXCEPT !.made = made]
<1> DEFINE r == CASE next = "acquire" -> Request("acquire", b, 0)
                  [] next = "renew" -> RenewOf(w)
                  [] OTHER -> None
<1>0. /\ cmd[w] \in AllCommands /\ next \in States /\ PlatformTyped
      /\ cmd[w].had \in BOOLEAN
  BY Parts DEF States, AllCommands
<1>1. /\ c \in AllCommands /\ c.pc = next /\ c.ans = NoAnswer
      /\ c.made = made /\ c.had = cmd[w].had
  BY <1>0, GotoFields DEF AllCommands
<1>2. Becomes(w, c) /\ sent' = [sent EXCEPT ![w] = r]
  BY DEF GoesOn
<1>3. cmd' = [cmd EXCEPT ![w] = c] /\ cmd'[w] = c
  BY <1>1, <1>2, BecomesTyped DEF Becomes
<1>4. r # None =>
         /\ RequestOK(r) /\ r \in AllRequests /\ r.type = next
         /\ next = "acquire" => r.bl = b
         /\ next = "renew" => r.lease = file[w].ls.id
  <2>1. CASE next = "acquire"
    <3>1. b \in DOMAIN baselines /\ Len(baselines) \in Nat /\ 0 \in 0..lease.id
          /\ DOMAIN baselines = 1..Len(baselines)
      BY <1>0, Lengths, SamePlatform DEF RecordsOK, Frozen, PlatformTyped, Leases
    <3>2. b \in 0..Len(baselines)
      BY <3>1
    <3>3. QED
      BY <1>0, <2>1, <3>1, <3>2, RequestGood DEF RequestTypes
  <2>2. CASE next = "renew"
    <3>1. file[w].ls # None
      BY <2>2, <1>0
    <3>2. r = RenewOf(w)
      BY <2>2
    <3>3. QED
      BY <2>2, <3>1, <3>2, ReleaseGood
  <2>3. CASE next = "finalize"
    BY <2>3
  <2>4. QED
    BY <2>1, <2>2, <2>3
<1>5. /\ sent'[w] = r /\ sent' \in [Worktrees -> AllRequests \cup {None}]
      /\ \A v \in Worktrees \ {w} : sent'[v] = sent[v]
  <2>1. r \in AllRequests \cup {None}
    BY <1>4
  <2>2. QED
    BY <1>2, <2>1, AskTyped
<1>6. CommandOK(w)'
  <2>1. /\ cmd'[w].pc = next /\ cmd'[w].made = made /\ cmd'[w].had = cmd[w].had
    BY <1>1, <1>3
  <2>2. CASE ~cmd[w].had
    BY <1>1, <1>3, <2>1, <2>2 DEF CommandOK, At, WithLease
  <2>3. CASE cmd[w].had
    BY <1>1, <1>3, <2>1, <2>3 DEF CommandOK, At, WithLease
  <2>4. QED
    BY <2>2, <2>3
<1>7. SentOK(w)'
  <2>1. sent'[w] # None => RequestOK(sent[w])'
    BY <1>4, <1>5, SamePlatform
  <2>2. QED
    BY <1>1, <1>3, <1>4, <1>5, <2>1 DEF SentOK, At
<1>8. AnswerOK(w)'
  <2> HIDE DEF c, r, next
  <2>1. cmd'[w].ans.r = "none"
    BY <1>1, <1>3, NoAnswerIsNone
  <2>2. QED
    BY <2>1 DEF AnswerOK
<1>9. WorktreeInv(w)'
  BY <1>6, <1>7, <1>8 DEF WorktreeInv
<1>10. QED
  BY <1>1, <1>3, <1>5, <1>9, LocalStep

LEMMA RecordBaselineStep ==
    ASSUME Inv, NEW w \in Worktrees, RecordBaseline(w)
    PROVE  Inv'
<1>0. /\ RecordsOK(w) /\ CommandOK(w) /\ AnswerOK(w) /\ PlatformTyped
      /\ file[w].bl = None /\ file[w].ls = None /\ ~cmd[w].had
      /\ UNCHANGED <<platform, expired, tip>> /\ orphans' = orphans /\ BoundsInv'
  BY Parts, BoundsStay
     DEF RecordBaseline, Heard, RecordsOK, CommandOK, At, Remote, platform, world
<1>1. CASE cmd[w].ans.r = "ok"
  <2> DEFINE v == [id |-> cmd[w].ans.n, state |-> "pending"]
  <2>1. Store(w, "bl", v) /\ GoesOn(w, cmd[w].ans.n, TRUE)
    BY <1>0, <1>1 DEF RecordBaseline
  <2>2. Frozen(v.id) /\ v \in BaselineRecords /\ v # None
    <3>1. Frozen(cmd[w].ans.n)
      BY <1>0, <1>1 DEF RecordBaseline, Heard, AnswerOK
    <3>2. cmd[w].ans.n \in Nat
      BY <1>0 DEF CommandOK, AllCommands, Answers
    <3>3. QED
      BY <3>1, <3>2, NoneAssumption DEF BaselineRecords
  <2>3. /\ file'[w].bl = v /\ file'[w].ls = None
        /\ file'[w] \in FileRecords
        /\ file' \in [Worktrees -> FileRecords] /\ \A u \in Worktrees \ {w} : file'[u] = file[u]
    BY <1>0, <2>1, <2>2, StoreFields
  <2>4. RecordsOK(w)'
    <3>1. \A x : Frozen(x)' <=> Frozen(x)
      BY <1>0, SamePlatform
    <3>2. QED
      BY <2>2, <2>3, <3>1 DEF RecordsOK
  <2>5. file'[w].bl # None /\ file'[w].bl.id = cmd[w].ans.n /\ file'[w].ls = file[w].ls
    BY <1>0, <2>2, <2>3
  <2>6. GoesOn(w, cmd[w].ans.n, TRUE) /\ TRUE \in BOOLEAN /\ file[w].ls = None /\ ~cmd[w].had
    BY <1>0, <2>1
  <2>7. QED
    BY <1>0, <2>3, <2>4, <2>5, <2>6, GoesOnStep
<1>2. CASE cmd[w].ans.r # "ok"
  BY <1>0, <1>2, LeaveStep DEF RecordBaseline
<1>3. QED
  BY <1>1, <1>2

LEMMA ProceedStep ==
    ASSUME Inv, NEW w \in Worktrees, Proceed(w)
    PROVE  Inv'
<1>0. /\ RecordsOK(w) /\ CommandOK(w) /\ file \in [Worktrees -> FileRecords]
      /\ UNCHANGED <<platform, expired, tip>> /\ orphans' = orphans /\ BoundsInv'
      /\ UNCHANGED file /\ file[w].bl # None /\ GoesOn(w, file[w].bl.id, FALSE)
      /\ cmd[w].had => file[w].ls # None
  BY Parts, BoundsStay
     DEF Proceed, ReadyToEnter, Enters, CommandOK, At, Remote, platform, world
<1>1. RecordsOK(w)'
  BY <1>0, SamePlatform DEF RecordsOK
<1>2. QED
  BY <1>0, <1>1, GoesOnStep

LEMMA RecordLeaseStep ==
    ASSUME Inv, NEW w \in Worktrees, RecordLease(w)
    PROVE  Inv'
<1> DEFINE a == cmd[w].ans
<1> DEFINE v == [id |-> a.n, term |-> a.t,
                 sess |-> IF At(w, "acquire") THEN Session(file[w].bl.id) ELSE file[w].ls.sess]
<1> DEFINE c == IF cmd[w].kind = "renew" THEN Idle ELSE Goto(w, "finalize")
<1>0. /\ RecordsOK(w) /\ CommandOK(w) /\ SentOK(w) /\ AnswerOK(w)
      /\ PlatformTyped /\ BaselinesOK
      /\ cmd[w] \in AllCommands /\ a.r = "ok" /\ a.n \in Nat /\ a.t \in Nat
      /\ At(w, "acquire") \/ At(w, "renew")
      /\ sent' = sent /\ sent' \in [Worktrees -> AllRequests \cup {None}]
      /\ UNCHANGED platform /\ UNCHANGED <<expired, tip>> /\ orphans' = orphans
      /\ BoundsInv'
  BY Parts, BoundsStay
     DEF RecordLease, Heard, Local, world, Inv, Shape, AllCommands, Answers
<1>1. /\ file[w].bl # None /\ v.sess = file[w].bl.id
      /\ Covers(a.n, file[w].bl.id) /\ a.t \in 1..lease.term
  <2>1. CASE At(w, "acquire")
    <3>1. file[w].bl # None /\ file[w].bl.id \in DOMAIN baselines
      BY <1>0, <2>1 DEF RecordsOK, CommandOK, Frozen
    <3>2. Session(file[w].bl.id) = file[w].bl.id
      BY <1>0, <3>1 DEF BaselinesOK, Session
    <3>3. QED
      BY <1>0, <2>1, <3>1, <3>2 DEF AnswerOK
  <2>2. CASE At(w, "renew")
    <3>1. file[w].ls # None /\ ~At(w, "acquire")
      BY <1>0, <2>2 DEF CommandOK, At, WithLease
    <3>2. QED
      BY <1>0, <2>2, <3>1 DEF AnswerOK, RecordsOK
  <2>3. QED
    BY <1>0, <2>1, <2>2
<1>2. v \in LeaseRecords /\ v # None
  <2>1. file[w].bl.id \in Nat
    BY <1>1, <1>0 DEF RecordsOK, FileRecords, BaselineRecords
  <2>2. QED
    BY <1>0, <1>1, <2>1, NoneAssumption DEF LeaseRecords
<1>3. /\ file'[w].ls = v /\ file'[w].bl = file[w].bl
      /\ file'[w] \in FileRecords
      /\ file' \in [Worktrees -> FileRecords] /\ \A u \in Worktrees \ {w} : file'[u] = file[u]
  BY <1>2, StoreFields DEF RecordLease
<1>4. /\ c \in AllCommands /\ c.pc \in {"idle", "finalize"} /\ c.ans = NoAnswer
  BY <1>0, IdleTyped, GotoFields DEF Idle, States
<1>5. cmd' = [cmd EXCEPT ![w] = c] /\ cmd'[w] = c
  <2>1. Becomes(w, c)
    BY DEF RecordLease
  <2>2. QED
    BY <1>4, <2>1, BecomesTyped DEF Becomes
<1>6. RecordsOK(w)'
  <2>1. /\ lease' = lease /\ \A x : Frozen(x)' <=> Frozen(x)
        /\ \A l, x : Covers(l, x)' <=> Covers(l, x)
    BY <1>0, SamePlatform
  <2>2. v.id = a.n /\ v.term = a.t
    OBVIOUS
  <2>3. QED
    BY <1>0, <1>1, <1>3, <2>1, <2>2 DEF RecordsOK
<1>7. CommandOK(w)'
  BY <1>2, <1>3, <1>4, <1>5 DEF CommandOK, At, WithLease
<1>8. SentOK(w)'
  BY <1>0, <1>4, <1>5, SamePlatform DEF SentOK, At
<1>9. AnswerOK(w)'
  BY <1>4, <1>5 DEF AnswerOK, At
<1>10. WorktreeInv(w)'
  BY <1>6, <1>7, <1>8, <1>9 DEF WorktreeInv
<1>11. QED
  BY <1>0, <1>3, <1>4, <1>5, <1>10, LocalStep

LEMMA LeaseRefusedStep ==
    ASSUME Inv, NEW w \in Worktrees, LeaseRefused(w)
    PROVE  Inv'
<1>0. /\ RecordsOK(w) /\ CommandOK(w) /\ SentOK(w) /\ PlatformTyped
      /\ At(w, "acquire") \/ At(w, "renew")
      /\ sent' = sent /\ sent' \in [Worktrees -> AllRequests \cup {None}]
      /\ UNCHANGED platform /\ UNCHANGED <<expired, tip>> /\ orphans' = orphans
      /\ BoundsInv'
  BY Parts, BoundsStay DEF LeaseRefused, Heard, Local, world, Inv, Shape
<1>1. CASE cmd[w].ans.r = "held" /\ cmd[w].made
  <2>1. file[w].ls = None
    BY <1>0, <1>1 DEF CommandOK, At
  <2>2. /\ file'[w].bl = None /\ file'[w].ls = None
        /\ file'[w] \in FileRecords
        /\ file' \in [Worktrees -> FileRecords] /\ \A u \in Worktrees \ {w} : file'[u] = file[u]
    BY <1>1, <2>1, StoreFields DEF LeaseRefused
  <2>3. cmd' = [cmd EXCEPT ![w] = Idle] /\ cmd'[w] = Idle
    BY IdleTyped, BecomesTyped DEF LeaseRefused, Becomes
  <2>4. /\ Idle \in AllCommands /\ Idle.pc = "idle" /\ ~Idle.had /\ ~Idle.made
        /\ Idle.ans = NoAnswer
    BY IdleTyped DEF Idle
  <2>5. RecordsOK(w)'
    BY <2>2 DEF RecordsOK
  <2>6. CommandOK(w)'
    BY <2>3, <2>4 DEF CommandOK, At, WithLease
  <2>7. SentOK(w)'
    BY <1>0, <2>3, <2>4, SamePlatform DEF SentOK, At
  <2>8. AnswerOK(w)'
    BY <2>3, <2>4 DEF AnswerOK, At
  <2>9. WorktreeInv(w)'
    BY <2>5, <2>6, <2>7, <2>8 DEF WorktreeInv
  <2>10. QED
    BY <1>0, <2>2, <2>3, <2>4, <2>9, LocalStep
<1>2. CASE ~(cmd[w].ans.r = "held" /\ cmd[w].made)
  <2>1. Leave(w)
    BY <1>2 DEF LeaseRefused, Leave
  <2>2. QED
    BY <1>0, <2>1, LeaveStep
<1>3. QED
  BY <1>1, <1>2

(* The baseline becomes active, and the command goes on in a state that      *)
(* relies on the records alone.                                              *)
LEMMA ActiveStep ==
    ASSUME Inv, NEW w \in Worktrees, NEW c \in AllCommands, Becomes(w, c),
           At(w, "finalize"), c.pc \in {"idle", "held", "undo"}, c.ans = NoAnswer,
           Store(w, "bl", [file[w].bl EXCEPT !.state = "active"]),
           NEW r \in AllRequests \cup {None}, r # None => RequestOK(r),
           UNCHANGED sent \/ sent' = [sent EXCEPT ![w] = r],
           UNCHANGED <<platform, expired, tip>>, orphans' = orphans, BoundsInv'
    PROVE  Inv'
<1>0. /\ RecordsOK(w) /\ CommandOK(w) /\ SentOK(w) /\ file \in [Worktrees -> FileRecords]
      /\ sent \in [Worktrees -> AllRequests \cup {None}]
      /\ file[w].ls # None /\ file[w].bl # None
  BY Parts DEF Inv, Shape, CommandOK, RecordsOK, At, WithLease
<1> DEFINE v == [file[w].bl EXCEPT !.state = "active"]
<1>1. v \in BaselineRecords /\ v # None /\ v.id = file[w].bl.id
  <2>1. file[w].bl \in BaselineRecords
    BY <1>0 DEF RecordsOK, FileRecords
  <2>2. QED
    BY <2>1, NoneAssumption DEF BaselineRecords
<1>2. /\ file'[w].bl = v /\ file'[w].ls = file[w].ls
      /\ file'[w] \in FileRecords
      /\ file' \in [Worktrees -> FileRecords] /\ \A u \in Worktrees \ {w} : file'[u] = file[u]
  BY <1>1, StoreFields
<1>3. cmd' = [cmd EXCEPT ![w] = c] /\ cmd'[w] = c
  BY BecomesTyped DEF Becomes
<1>4. /\ sent' \in [Worktrees -> AllRequests \cup {None}]
      /\ \A u \in Worktrees \ {w} : sent'[u] = sent[u]
      /\ sent'[w] # None => RequestOK(sent'[w])
  BY <1>0, AskTyped DEF SentOK
<1>5. RecordsOK(w)'
  <2> HIDE DEF v
  <2>1. /\ lease' = lease /\ \A x : Frozen(x)' <=> Frozen(x)
        /\ \A l, x : Covers(l, x)' <=> Covers(l, x)
    BY SamePlatform
  <2>2. QED
    BY <1>0, <1>1, <1>2, <2>1 DEF RecordsOK
<1>6. CommandOK(w)'
  BY <1>0, <1>2, <1>3 DEF CommandOK, At, WithLease
<1>7. SentOK(w)'
  <2>1. sent'[w] # None => RequestOK(sent[w])'
    <3>1. RequestOK(sent[w])' <=> RequestOK(sent'[w])
      BY DEF RequestOK, Covers, UpToDate, platform
    <3>2. QED
      BY <1>4, <3>1
  <2>2. QED
    BY <1>3, <2>1 DEF SentOK, At
<1>8. AnswerOK(w)'
  BY <1>3 DEF AnswerOK, At
<1>9. WorktreeInv(w)'
  BY <1>5, <1>6, <1>7, <1>8 DEF WorktreeInv
<1>10. QED
  BY <1>2, <1>3, <1>4, <1>9, LocalStep

LEMMA FinalizeStep ==
    ASSUME Inv, NEW w \in Worktrees, Finalize(w)
    PROVE  Inv'
<1> DEFINE c == IF cmd[w].kind = "begin" THEN Idle ELSE Goto(w, "held")
<1>1. c \in AllCommands /\ c.pc \in {"idle", "held"} /\ c.ans = NoAnswer
  BY Parts, IdleTyped, GotoFields DEF Idle, States
<1>2. /\ UNCHANGED <<platform, expired, tip>> /\ orphans' = orphans /\ BoundsInv'
      /\ UNCHANGED sent /\ Becomes(w, c)
  BY BoundsStay DEF Finalize, Local, world
<1>3. QED
  BY <1>1, <1>2, ActiveStep DEF Finalize

LEMMA PrepareFailsStep ==
    ASSUME Inv, NEW w \in Worktrees, PrepareFails(w)
    PROVE  Inv'
<1> DEFINE c == Goto(w, "undo")
<1>1. /\ c \in AllCommands /\ c.pc = "undo" /\ c.ans = NoAnswer
      /\ file[w].ls # None
  BY Parts, GotoFields DEF States, PrepareFails, CommandOK, At, WithLease
<1>2. /\ MaxFaults \in Nat /\ faults \in 0..MaxFaults /\ faults < MaxFaults
      /\ faults' = faults + 1 /\ UNCHANGED <<starts, tip>>
  BY PublishBounds DEF PrepareFails, Fault, world, Inv, BoundsInv
<1>3. /\ UNCHANGED <<platform, expired, tip>> /\ orphans' = orphans /\ BoundsInv'
  BY <1>2 DEF PrepareFails, world, Inv, BoundsInv
<1>4. QED
  BY <1>1, <1>3, ReleaseGood, ActiveStep DEF PrepareFails

(* A record is removed at the end of a release.                             *)
LEMMA ClearLeaseStep ==
    ASSUME Inv, NEW w \in Worktrees, ClearLease(w)
    PROVE  Inv'
<1> DEFINE c == Goto(w, "clear")
<1>0. /\ RecordsOK(w) /\ SentOK(w)
      /\ sent' = sent /\ sent' \in [Worktrees -> AllRequests \cup {None}]
      /\ UNCHANGED platform /\ UNCHANGED <<expired, tip>> /\ orphans' = orphans
      /\ BoundsInv'
  BY Parts, BoundsStay DEF ClearLease, Local, world, Inv, Shape
<1>1. c \in AllCommands /\ c.pc = "clear" /\ c.ans = NoAnswer
  BY Parts, GotoFields DEF States
<1>2. cmd' = [cmd EXCEPT ![w] = c] /\ cmd'[w] = c
  BY <1>1, BecomesTyped DEF ClearLease, Becomes
<1>3. /\ file'[w].ls = None /\ file'[w].bl = file[w].bl
      /\ file'[w] \in FileRecords
      /\ file' \in [Worktrees -> FileRecords] /\ \A u \in Worktrees \ {w} : file'[u] = file[u]
  BY StoreFields DEF ClearLease
<1>4. RecordsOK(w)'
  BY <1>0, <1>3, SamePlatform DEF RecordsOK
<1>5. CommandOK(w)'
  BY <1>1, <1>2, <1>3 DEF CommandOK, At, WithLease
<1>6. SentOK(w)'
  BY <1>0, <1>1, <1>2, SamePlatform DEF SentOK, At
<1>7. AnswerOK(w)'
  BY <1>1, <1>2 DEF AnswerOK, At
<1>8. WorktreeInv(w)'
  BY <1>4, <1>5, <1>6, <1>7 DEF WorktreeInv
<1>9. QED
  BY <1>0, <1>1, <1>2, <1>3, <1>8, LocalStep

LEMMA ClearBaselineStep ==
    ASSUME Inv, NEW w \in Worktrees, ClearBaseline(w)
    PROVE  Inv'
<1>0. /\ RecordsOK(w) /\ SentOK(w) /\ file[w].ls = None
      /\ sent' = sent /\ sent' \in [Worktrees -> AllRequests \cup {None}]
      /\ UNCHANGED platform /\ UNCHANGED <<expired, tip>> /\ orphans' = orphans
      /\ BoundsInv'
  BY Parts, BoundsStay DEF ClearBaseline, Local, world, Inv, Shape, CommandOK, At
<1>1. /\ Idle \in AllCommands /\ Idle.pc = "idle" /\ ~Idle.had /\ ~Idle.made
      /\ Idle.ans = NoAnswer
  BY IdleTyped DEF Idle
<1>2. cmd' = [cmd EXCEPT ![w] = Idle] /\ cmd'[w] = Idle
  BY <1>1, BecomesTyped DEF ClearBaseline, Becomes
<1>3. /\ file'[w].bl = None /\ file'[w].ls = None
      /\ file'[w] \in FileRecords
      /\ file' \in [Worktrees -> FileRecords] /\ \A u \in Worktrees \ {w} : file'[u] = file[u]
  BY <1>0, StoreFields DEF ClearBaseline
<1>4. RecordsOK(w)'
  BY <1>3 DEF RecordsOK
<1>5. CommandOK(w)'
  BY <1>1, <1>2 DEF CommandOK, At, WithLease
<1>6. SentOK(w)'
  BY <1>0, <1>1, <1>2, SamePlatform DEF SentOK, At
<1>7. AnswerOK(w)'
  BY <1>1, <1>2 DEF AnswerOK, At
<1>8. WorktreeInv(w)'
  BY <1>4, <1>5, <1>6, <1>7 DEF WorktreeInv
<1>9. QED
  BY <1>0, <1>1, <1>2, <1>3, <1>8, LocalStep

(* The baseline of a new session: its number is that of the session, because *)
(* a command that has a lease has a baseline too.                           *)
LEMMA AskFreezeStep ==
    ASSUME Inv, NEW w \in Worktrees, AskFreeze(w)
    PROVE  Inv'
<1>0. /\ RecordsOK(w) /\ CommandOK(w) /\ PlatformInv /\ PlatformTyped /\ BaselinesOK
      /\ file \in [Worktrees -> FileRecords] /\ cmd[w] \in AllCommands
      /\ file[w].bl = None /\ file[w].ls = None /\ ~cmd[w].had /\ ~cmd[w].made
      /\ Len(baselines) \in Nat /\ DOMAIN baselines = 1..Len(baselines) /\ tip \in Nat
      /\ lease \in Leases /\ lease.id \in Nat
  BY Parts, Lengths
     DEF AskFreeze, ReadyToEnter, Enters, RecordsOK, CommandOK, At, Inv, PlatformTyped, Leases
<1> DEFINE n == Len(baselines) + 1
<1>1. PICK base \in 0..tip :
         baselines' = Append(baselines, [sess |-> n, source |-> tip, base |-> base,
                                         head |-> None])
  BY <1>0 DEF AskFreeze, SessionOf
<1> DEFINE e == [sess |-> n, source |-> tip, base |-> base, head |-> None]
<1>2. e \in AllBaselines
  BY <1>0 DEF AllBaselines
<1>3. /\ baselines' \in Seq(AllBaselines) /\ Len(baselines') = n
      /\ DOMAIN baselines' = 1..n
      /\ \A b \in DOMAIN baselines : baselines'[b] = baselines[b]
      /\ baselines'[n] = e
  <2> HIDE DEF e
  <2>1. baselines \in Seq(AllBaselines)
    BY <1>0 DEF PlatformTyped
  <2>2. QED
    BY <1>0, <1>1, <1>2, <2>1 DEF e
<1>4. /\ UNCHANGED <<lease, online>> /\ UNCHANGED <<expired, tip>> /\ orphans' = orphans
      /\ BoundsInv' /\ UNCHANGED file
  BY BoundsStay DEF AskFreeze, Ask, Remote, world
<1>5. Advances
  <2>1. /\ \A b \in DOMAIN baselines : b \in DOMAIN baselines' /\ baselines'[b] = baselines[b]
        /\ Len(baselines) <= Len(baselines') /\ lease' = lease /\ online' = online
        /\ lease.id \in Nat /\ lease.term \in Nat
    BY <1>0, <1>3, <1>4 DEF Leases
  <2> HIDE DEF n, e
  <2>2. QED
    BY <2>1 DEF Advances, Frozen, Covers, UpToDate
<1>6. PlatformTyped' /\ BaselinesOK'
  <2>1. PlatformTyped'
    BY <1>0, <1>3, <1>4 DEF PlatformTyped
  <2>2. ASSUME NEW b \in 1..n
        PROVE  /\ baselines'[b].sess = b
               /\ baselines'[b].base <= baselines'[b].source
               /\ baselines'[b].source <= tip
               /\ baselines'[b].head # None => baselines'[b].head <= online.ver
    <3>1. CASE b = n
      BY <1>0, <1>3, <3>1
    <3>2. CASE b \in DOMAIN baselines
      BY <1>0, <1>3, <3>2 DEF BaselinesOK
    <3>3. QED
      BY <1>0, <3>1, <3>2
  <2>3. QED
    BY <1>3, <1>4, <2>1, <2>2 DEF BaselinesOK
<1>7. PlatformInv'
  <2>1. lease.sess \in 0..n
    BY <1>0 DEF PlatformInv
  <2>2. online.by # 0 => online.by \in DOMAIN baselines' /\ online.src = baselines'[online.by].source
    BY <1>0, <1>3 DEF PlatformInv
  <2>3. QED
    BY <1>0, <1>3, <1>4, <1>5, <1>6, <2>1, <2>2, PlatformStep DEF PlatformInv
<1> DEFINE c == Goto(w, "freeze")
<1>8. PICK r \in AllRequests : r = Request("freeze", n, 0)
  <2>1. Request("freeze", n, 0) \in AllRequests
    BY <1>0 DEF Request, AllRequests, RequestTypes
  <2>2. QED
    BY <2>1, Zenon
<1>9. /\ c \in AllCommands /\ c.pc = "freeze" /\ c.ans = NoAnswer
      /\ c.had = cmd[w].had /\ c.made = cmd[w].made
  BY <1>0, GotoFields DEF States
<1>10. RequestOK(r)' /\ r.type = "freeze"
  <2>1. r \in AllRequests /\ r.type = "freeze" /\ r.bl = n /\ r.lease = 0
    BY <1>0, <1>8 DEF Request
  <2>2. n \in DOMAIN baselines' /\ n \in 0..Len(baselines') /\ 0 \in 0..lease'.id
    BY <1>0, <1>3, <1>4
  <2>3. QED
    BY <1>0, <2>1, <2>2 DEF RequestOK
<1>11. /\ cmd'[w] = c /\ cmd' \in [Worktrees -> AllCommands]
       /\ \A v \in Worktrees \ {w} : cmd'[v] = cmd[v]
  <2>1. Becomes(w, c)
    BY DEF AskFreeze, Ask
  <2>2. QED
    BY <1>9, <2>1, BecomesTyped
<1>12. /\ sent'[w] = r /\ sent' \in [Worktrees -> AllRequests \cup {None}]
       /\ \A v \in Worktrees \ {w} : sent'[v] = sent[v]
  <2>1. sent' = [sent EXCEPT ![w] = r]
    BY <1>8 DEF AskFreeze, Ask
  <2>2. QED
    BY <2>1, AskTyped
<1>13. RecordsOK(w)'
  BY <1>0, <1>4 DEF RecordsOK
<1>14. CommandOK(w)'
  BY <1>0, <1>4, <1>9, <1>11 DEF CommandOK, At, WithLease
<1>15. SentOK(w)'
  <2>1. RequestOK(sent[w])'
    BY <1>10, <1>12 DEF RequestOK
  <2>2. QED
    BY <1>9, <1>10, <1>11, <1>12, <2>1 DEF SentOK, At
<1>16. AnswerOK(w)'
  <2> HIDE DEF c
  <2>1. cmd'[w].ans.r = "none"
    BY <1>9, <1>11, NoAnswerIsNone
  <2>2. QED
    BY <2>1 DEF AnswerOK
<1>17. WorktreeInv(w)' /\ Shape'
  BY <1>0, <1>4, <1>11, <1>12, <1>13, <1>14, <1>15, <1>16 DEF WorktreeInv, Shape
<1>18. QED
  BY <1>4, <1>5, <1>7, <1>11, <1>12, <1>17, StepOfOne

LEMMA KillStep ==
    ASSUME Inv, NEW w \in Worktrees, Kill(w)
    PROVE  Inv'
<1>0. /\ RecordsOK(w) /\ SentOK(w) /\ PlatformTyped /\ PlatformInv
      /\ file \in [Worktrees -> FileRecords] /\ UNCHANGED platform /\ UNCHANGED file
      /\ UNCHANGED <<expired, tip>>
      /\ faults \in Nat /\ MaxFaults \in Nat
  BY Parts, PublishBounds DEF Kill, Leave, world, Inv, BoundsInv
<1>1. Advances
  BY <1>0, SameAdvances
<1>2. PlatformInv'
  <2>1. PlatformTyped' /\ BaselinesOK'
    BY <1>0 DEF platform, PlatformInv, PlatformTyped, BaselinesOK
  <2>2. \A r \in orphans' : RequestOK(r)
    BY <1>0 DEF Kill, SentOK, PlatformInv
  <2>3. QED
    BY <1>0, <1>1, <2>1, <2>2, PlatformStep DEF platform, PlatformInv
<1>3. BoundsInv'
  BY <1>0 DEF Kill, Fault, world, Inv, BoundsInv
<1>4. /\ cmd'[w] = Idle /\ cmd' \in [Worktrees -> AllCommands]
      /\ \A v \in Worktrees \ {w} : cmd'[v] = cmd[v]
  BY IdleTyped, BecomesTyped DEF Kill, Leave
<1>5. /\ sent'[w] = None /\ sent' \in [Worktrees -> AllRequests \cup {None}]
      /\ \A v \in Worktrees \ {w} : sent'[v] = sent[v]
  BY AskTyped DEF Kill
<1>6. /\ Idle \in AllCommands /\ Idle.pc = "idle" /\ ~Idle.had /\ ~Idle.made
      /\ Idle.ans = NoAnswer
  BY IdleTyped DEF Idle
<1>7. RecordsOK(w)'
  BY <1>0, SamePlatform DEF RecordsOK
<1>8. CommandOK(w)'
  BY <1>4, <1>6 DEF CommandOK, At, WithLease
<1>9. SentOK(w)'
  BY <1>5 DEF SentOK
<1>10. AnswerOK(w)'
  BY <1>4, <1>6 DEF AnswerOK, At
<1>11. WorktreeInv(w)' /\ Shape'
  BY <1>0, <1>4, <1>5, <1>7, <1>8, <1>9, <1>10 DEF WorktreeInv, Shape
<1>12. QED
  BY <1>0, <1>1, <1>2, <1>3, <1>4, <1>5, <1>11, StepOfOne

LEMMA ExpireStep ==
    ASSUME Inv, Expire
    PROVE  Inv'
<1>0. /\ PlatformInv /\ PlatformTyped /\ lease \in Leases
      /\ lease.id \in Nat /\ lease.term \in Nat /\ expired \in Nat
      /\ expired < lease.term /\ expired' = expired + 1
      /\ UNCHANGED <<file, cmd, sent, orphans, baselines, online, tip>> /\ BoundsInv'
  BY BoundsStay DEF Inv, PlatformInv, PlatformTyped, Leases, Expire
<1>1. /\ lease'.id = lease.id /\ lease'.sess = lease.sess /\ lease'.term = lease.term
      /\ lease'.live => lease.live
      /\ lease' \in Leases
  BY <1>0 DEF Expire, Leases
<1>2. Advances
  BY <1>0, <1>1 DEF Advances, Frozen, Covers, UpToDate
<1>3. PlatformInv'
  <2>1. PlatformTyped' /\ BaselinesOK'
    BY <1>0, <1>1 DEF PlatformInv, PlatformTyped, BaselinesOK
  <2>2. QED
    BY <1>0, <1>1, <1>2, <2>1, PlatformStep DEF PlatformInv
<1>4. ASSUME NEW v \in Worktrees PROVE WorktreeInv(v)'
  BY <1>0, <1>2, <1>3, WorktreeStays DEF Inv, PlatformInv
<1>5. QED
  BY <1>0, <1>3, <1>4 DEF Inv, Shape

LEMMA CommitStep ==
    ASSUME Inv, Commit
    PROVE  Inv'
<1>0. /\ PlatformInv /\ PlatformTyped /\ tip \in Nat /\ MaxCommits \in Nat
      /\ tip < MaxCommits /\ tip' = tip + 1 /\ UNCHANGED platform
      /\ UNCHANGED <<file, cmd, sent, orphans, expired, starts, faults>>
      /\ starts \in 0..MaxStarts /\ faults \in 0..MaxFaults
  BY PublishBounds DEF Inv, PlatformInv, PlatformTyped, Commit, bounds, BoundsInv
<1>1. Advances
  BY <1>0, SameAdvances
<1>2. PlatformInv'
  <2>1. \A b \in DOMAIN baselines : baselines[b].source <= tip + 1
    BY <1>0, BaselineFields DEF PlatformInv, BaselinesOK
  <2>2. PlatformTyped' /\ BaselinesOK'
    BY <1>0, <2>1 DEF platform, PlatformInv, PlatformTyped, BaselinesOK
  <2>3. online.src <= tip + 1
    BY <1>0 DEF PlatformInv, PlatformTyped, Contents
  <2>4. QED
    BY <1>0, <1>1, <2>2, <2>3, PlatformStep DEF platform, PlatformInv
<1>3. BoundsInv'
  BY <1>0 DEF BoundsInv
<1>4. ASSUME NEW v \in Worktrees PROVE WorktreeInv(v)'
  BY <1>0, <1>1, <1>2, WorktreeStays DEF Inv, PlatformInv
<1>5. QED
  BY <1>0, <1>2, <1>3, <1>4 DEF Inv, Shape

-----------------------------------------------------------------------------
(* The theorems.                                                            *)

LEMMA InvInit == Init => Inv
<1> SUFFICES ASSUME Init PROVE Inv
  OBVIOUS
<1>1. /\ Idle \in AllCommands /\ Idle.pc = "idle" /\ ~Idle.had /\ ~Idle.made /\ Idle.ans = NoAnswer
  BY IdleTyped DEF Idle
<1>2. PlatformInv
  <2>1. baselines \in Seq(AllBaselines) /\ DOMAIN baselines = {} /\ Len(baselines) = 0
    BY DEF Init
  <2>2. QED
    BY <2>1 DEF Init, PlatformInv, PlatformTyped, BaselinesOK, Leases, Contents
<1>3. Shape /\ BoundsInv
  BY <1>1, PublishBounds DEF Init, Shape, BoundsInv, Empty, FileRecords
<1>4. ASSUME NEW w \in Worktrees PROVE WorktreeInv(w)
  <2>1. file[w] = Empty /\ cmd[w] = Idle /\ sent[w] = None
    BY DEF Init
  <2>2. RecordsOK(w)
    BY <2>1 DEF RecordsOK, Empty, FileRecords
  <2>3. CommandOK(w) /\ SentOK(w) /\ AnswerOK(w)
    BY <1>1, <2>1 DEF CommandOK, SentOK, AnswerOK, At, WithLease
  <2>4. QED
    BY <2>2, <2>3 DEF WorktreeInv
<1>5. QED
  BY <1>2, <1>3, <1>4 DEF Inv

LEMMA InvNext == Inv /\ [Next]_vars => Inv'
<1> SUFFICES ASSUME Inv, [Next]_vars PROVE Inv'
  OBVIOUS
<1>1. ASSUME NEW w \in Worktrees, Step(w) PROVE Inv'
  BY <1>1, LeaveSteps, DropOldLeaseStep, AskFreezeStep, RecordBaselineStep, ProceedStep,
     RenewStep, RecordLeaseStep, LeaseRefusedStep, FinalizeStep, PreflightStep, WriteStep,
     GiveBackStep, AskEndStep, ClearLeaseStep, ClearBaselineStep DEF Step
<1>2. ASSUME NEW w \in Worktrees,
             \/ Start(w) \/ StartEnd(w) \/ PrepareFails(w)
             \/ Serve(w) \/ LoseRequest(w) \/ LoseAnswer(w) \/ Retransmit(w) \/ Kill(w)
      PROVE  Inv'
  BY <1>2, StartSteps, PrepareFailsStep, ServeStep, LoseRequestStep, LoseAnswerStep,
     RetransmitStep, KillStep
<1>3. CASE ServeOrphan \/ Expire \/ Commit
  BY <1>3, ServeOrphanStep, ExpireStep, CommitStep
<1>4. CASE UNCHANGED vars
  <2>1. /\ UNCHANGED platform /\ UNCHANGED <<file, cmd, sent, orphans, expired, tip>>
        /\ UNCHANGED <<starts, faults>>
    BY <1>4 DEF vars, platform
  <2>2. /\ \A r : RequestOK(r)' <=> RequestOK(r)
        /\ Advances /\ PlatformTyped /\ PlatformInv
    BY <2>1, SamePlatform, SameAdvances DEF Inv, PlatformInv
  <2>3. PlatformInv'
    BY <2>1, <2>2 DEF PlatformInv, PlatformTyped, BaselinesOK, platform
  <2>4. ASSUME NEW w \in Worktrees PROVE WorktreeInv(w)'
    BY <2>1, <2>2, <2>3, WorktreeStays DEF Inv, PlatformInv
  <2>5. QED
    BY <2>1, <2>3, <2>4 DEF Inv, Shape, BoundsInv
<1>5. QED
  BY <1>1, <1>2, <1>3, <1>4 DEF Next

(* Inv implies the types and the agreement of the records.                  *)
LEMMA InvTypes ==
    ASSUME Inv
    PROVE  TypeOK
<1>0. /\ PlatformInv /\ PlatformTyped /\ BaselinesOK /\ Shape /\ BoundsInv
      /\ lease.id \in Nat /\ lease.term \in Nat /\ lease.live \in BOOLEAN
      /\ online.ver \in Nat /\ online.src \in Nat /\ tip \in Nat /\ expired \in Nat
      /\ Len(baselines) \in Nat /\ DOMAIN baselines = 1..Len(baselines)
  BY Lengths DEF Inv, PlatformInv, PlatformTyped, Leases, Contents
<1>1. file \in [Worktrees -> Records]
  <2>1. ASSUME NEW w \in Worktrees PROVE file[w] \in Records
    <3>1. RecordsOK(w)
      BY Parts
    <3>2. file[w].bl \in [id : DOMAIN baselines, state : {"pending", "active"}] \cup {None}
      BY <3>1 DEF RecordsOK, FileRecords, BaselineRecords, Frozen
    <3>3. file[w].ls \in [id : 1..lease.id, sess : DOMAIN baselines, term : 1..lease.term]
                         \cup {None}
      BY <3>1 DEF RecordsOK, FileRecords, LeaseRecords, Covers
    <3>4. QED
      BY <3>1, <3>2, <3>3 DEF RecordsOK, FileRecords, Records
  <2>2. QED
    BY <1>0, <2>1 DEF Shape
<1>2. ASSUME NEW w \in Worktrees
      PROVE  /\ cmd[w].kind \in {"none", "begin", "publish", "renew", "end"}
             /\ cmd[w].pc \in States
             /\ sent[w] # None => cmd[w].ans = NoAnswer
  BY Parts DEF SentOK, AllCommands, Kinds
<1>3. ASSUME NEW r, RequestOK(r) PROVE r \in Requests
  BY <1>3 DEF RequestOK, AllRequests, Requests
<1>4. orphans \cup {sent[w] : w \in Worktrees} \subseteq Requests \cup {None}
  <2>1. ASSUME NEW w \in Worktrees PROVE sent[w] \in Requests \cup {None}
    BY <1>3, Parts DEF SentOK
  <2>2. QED
    BY <1>0, <1>3, <2>1 DEF PlatformInv
<1>5. ASSUME NEW b \in DOMAIN baselines
      PROVE  baselines[b] \in Baselines /\ baselines[b].base <= baselines[b].source
  <2>1. /\ baselines[b] \in AllBaselines
        /\ baselines[b].source \in 0..tip /\ baselines[b].base \in 0..tip
        /\ baselines[b].sess \in DOMAIN baselines
        /\ baselines[b].head \in 0..online.ver \cup {None}
        /\ baselines[b].base <= baselines[b].source
    BY <1>0, BaselineFields DEF BaselinesOK
  <2>2. QED
    BY <2>1 DEF AllBaselines, Baselines
<1>6. /\ lease.sess \in 0..Len(baselines) /\ expired \in 0..lease.term
      /\ online.src \in 0..tip /\ online.by \in 0..Len(baselines)
  BY <1>0 DEF PlatformInv
<1>7. tip \in 0..MaxCommits /\ starts \in 0..MaxStarts /\ faults \in 0..MaxFaults
  BY <1>0, PublishBounds DEF BoundsInv
<1>8. QED
  BY <1>0, <1>1, <1>2, <1>4, <1>5, <1>6, <1>7 DEF TypeOK

(* In every reachable state the records of the worktrees agree with each     *)
(* other and with the platform, for any number of worktrees, releases,       *)
(* commits and faults.                                                       *)
THEOREM RecordsAlwaysAgree == Spec => []RecordsAgree
<1>1. Inv => RecordsAgree
  <2> SUFFICES ASSUME Inv PROVE RecordsAgree
    OBVIOUS
  <2>1. ASSUME NEW w \in Worktrees
        PROVE  /\ file[w].bl # None => baselines[file[w].bl.id].head # None
               /\ file[w].ls # None =>
                     file[w].bl # None /\ Session(file[w].bl.id) = file[w].ls.sess
    BY Parts DEF RecordsOK, Frozen, BaselinesOK, Session
  <2>2. QED
    BY <2>1, InvTypes DEF RecordsAgree
<1>2. QED
  BY <1>1, InvInit, InvNext, PTL DEF Spec

LEMMA EffectForward ==
    ASSUME PlatformInv, NEW r, RequestOK(r), Effect(r)
    PROVE  online'.src >= online.src
<1>1. online.src \in Nat
  BY DEF PlatformInv, PlatformTyped, Contents
<1>2. CASE /\ r.type = "write" /\ Live(r.lease)
           /\ online' = [ver |-> online.ver + 1, src |-> baselines[r.bl].source, by |-> r.bl]
  <2>1. /\ r.bl \in DOMAIN baselines /\ online.src <= baselines[r.bl].source
    BY <1>2 DEF RequestOK, Covers, UpToDate, Live
  <2>2. online'.src = baselines[r.bl].source /\ baselines[r.bl].source \in Nat
    BY <1>2, <2>1, BaselineFields DEF PlatformInv
  <2>3. QED
    BY <1>1, <2>1, <2>2
<1>3. CASE online' = online
  BY <1>1, <1>3
<1>4. QED
  BY <1>2, <1>3, EffectByType

(* No step replaces code of main that is online by older code.               *)
THEOREM ForwardOnly == Spec => NeverGoesBack
<1>1. Inv /\ [Next]_vars => [online'.src >= online.src]_vars
  <2> SUFFICES ASSUME Inv, Next PROVE online'.src >= online.src
    OBVIOUS
  <2>0. PlatformInv /\ online.src \in Nat
    BY DEF Inv, PlatformInv, PlatformTyped, Contents
  <2>1. CASE \E w \in Worktrees : Serve(w) \/ LoseAnswer(w) \/ Retransmit(w)
    <3>1. PICK w \in Worktrees : Serve(w) \/ LoseAnswer(w) \/ Retransmit(w)
      BY <2>1
    <3>2. sent[w] # None /\ Effect(sent[w])
      BY <3>1 DEF Serve, LoseAnswer, Retransmit, Hears
    <3>3. QED
      BY <2>0, <3>2, Parts, EffectForward DEF SentOK
  <2>2. CASE ServeOrphan
    BY <2>0, <2>2, EffectForward DEF ServeOrphan, PlatformInv
  <2>3. CASE online' = online
    BY <2>0, <2>3
  <2>4. ASSUME NEW w \in Worktrees, Step(w) PROVE online' = online
    <3>1. CASE \/ Refuse(w) \/ DropOldLease(w) \/ RecordLease(w) \/ LeaseRefused(w)
               \/ Finalize(w) \/ Keep(w) \/ ClearLease(w) \/ ClearBaseline(w) \/ GiveUp(w)
      BY <3>1 DEF Refuse, DropOldLease, RecordLease, LeaseRefused, Finalize, Keep,
                  ClearLease, ClearBaseline, GiveUp, Local, platform
    <3>2. CASE \/ AskFreeze(w) \/ RecordBaseline(w) \/ Proceed(w) \/ Renew(w)
               \/ Preflight(w) \/ Write(w) \/ GiveBack(w) \/ AskEnd(w)
      BY <3>2 DEF AskFreeze, RecordBaseline, Proceed, Renew, Preflight, Write, GiveBack,
                  AskEnd, Remote
    <3>3. QED
      BY <2>4, <3>1, <3>2 DEF Step
  <2>5. ASSUME NEW w \in Worktrees,
               Start(w) \/ StartEnd(w) \/ PrepareFails(w) \/ LoseRequest(w) \/ Kill(w)
        PROVE  online' = online
    BY <2>5 DEF Start, StartEnd, Load, PrepareFails, LoseRequest, Kill, platform
  <2>6. CASE Expire \/ Commit
    BY <2>3, <2>6 DEF Expire, Commit, platform
  <2>7. QED
    BY <2>1, <2>2, <2>3, <2>4, <2>5, <2>6 DEF Next
<1>2. QED
  BY <1>1, InvInit, InvNext, PTL DEF Spec, NeverGoesBack
=============================================================================
