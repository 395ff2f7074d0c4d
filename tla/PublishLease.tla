---------------------------- MODULE PublishLease ----------------------------
(***************************************************************************)
(* One command that publishes under the application's publish lease:       *)
(* lib/publish-lease-heartbeat.js keeps the lease alive, lib/cli.js asks   *)
(* it before every write, uploads files in lanes (runWithConcurrency),     *)
(* and gives the lease back or keeps it when the command ends.             *)
(*                                                                         *)
(* Time is discrete and shown by what is left: of the lease at the server  *)
(* and by the client's expiresAt; since the last tick of the timer, and    *)
(* since a renewal was sent.  A request may take any time: the time-outs   *)
(* of the client (120 s and more, and again after a 401) are as long as    *)
(* the lease itself.  A lease that is over is never renewed:               *)
(* somebody else may hold the application then.                            *)
(***************************************************************************)
EXTENDS Naturals

CONSTANTS
    Lanes,          \* RUNTIME_UPLOAD_CONCURRENCY workers
    Files,          \* bound: files to upload
    Resends,        \* bound: uploads sent again, of the whole command
    TTL,            \* --ttl
    RenewWindow,    \* DEFAULT_RENEW_WINDOW_MS
    Interval        \* DEFAULT_HEARTBEAT_INTERVAL_MS

ASSUME PublishLeaseAssumption ==
    /\ {TTL, Interval} \subseteq Nat \ {0}
    /\ {Files, Resends, RenewWindow} \subseteq Nat

VARIABLES
    remote,      \* time left of the lease at the server
    local,       \* time left by lease.expiresAt of the heartbeat
    record,      \* promotion.publishLease in state.json: "kept" or "cleared"
    renewal,     \* inFlight: "none", or how far the renewal request is
    age,         \* time since the renewal was sent, TTL if it is longer
    granted,     \* time left by the expiresAt of the answer on its way
    quiet,       \* time since the last tick of the timer
    lost,        \* lostError
    slowest,     \* history: the longest that a renewal took, or takes, so far
    main,        \* where the command is
    lane,        \* lane[w]: what upload worker w does
    files,       \* files not yet taken by a worker
    resends,     \* uploads sent again so far
    failed,      \* firstError, commandError
    attempted,   \* activeCommandScopedPublishLease.writeAttempted
    scoped,      \* activeCommandScopedPublishLease is set
    acquired,    \* acquiredByCommand: else the lease is of an earlier command
    staged,      \* the command stages its release: a success retains the lease
    written      \* history: an upload has reached the server

lease == <<remote, local, record>>
heart == <<renewal, age, granted, quiet, lost, slowest>>
uploads == <<lane, files, resends>>
command == <<main, failed, attempted, scoped, acquired, staged>>
vars == <<lease, heart, uploads, command, written>>

Renewals == {"none", "sent", "granted", "refused"}
Places == {"awaiting", "publishing", "stopping", "releasing", "ended"}
LaneStates == {"free", "ready", "waiting", "sending", "answer"}

TypeOK ==
    /\ {remote, local, granted, age, slowest} \subseteq 0..TTL
    /\ record \in {"kept", "cleared"}
    /\ renewal \in Renewals
    /\ quiet \in 0..Interval
    /\ main \in Places
    /\ lane \in [Lanes -> LaneStates]
    /\ files \in 0..Files
    /\ resends \in 0..Resends
    /\ {lost, failed, attempted, scoped, acquired, staged, written} \subseteq BOOLEAN

-----------------------------------------------------------------------------
LessUnbounded(n) == n - 1
Less(n) == IF n = 0 THEN 0 ELSE n - 1
Longer(n) == IF n < TTL THEN n + 1 ELSE n
ShouldRenewExpired == local = 0
ShouldRenew == local <= RenewWindow

(* resolvePublishLeaseForWrite: the lease was just acquired, or is the      *)
(* stored one of an earlier command; the heartbeat starts, and a lease near *)
(* its end is renewed first.  The answer that granted it may have been late.*)
Init ==
    /\ remote \in 0..TTL
    /\ acquired \in BOOLEAN
    /\ local = remote
    /\ record = "kept"
    /\ age = 0
    /\ slowest = 0
    /\ granted = 0
    /\ quiet = 0
    /\ IF ShouldRenew
       THEN renewal = "sent" /\ main = "awaiting" /\ scoped = FALSE
       ELSE renewal = "none" /\ main = "publishing" /\ scoped = acquired
    /\ lane = [w \in Lanes |-> "free"]
    /\ files = Files
    /\ resends = 0
    /\ staged \in BOOLEAN
    /\ lost = FALSE
    /\ failed = FALSE
    /\ attempted = FALSE
    /\ written = FALSE

-----------------------------------------------------------------------------
(* The heartbeat.                                                           *)
StartRenewal ==
    IF renewal = "none"
    THEN renewal' = "sent" /\ age' = 0
    ELSE UNCHANGED <<renewal, age>>

NoTick ==
    /\ quiet = Interval
    /\ quiet' = 0
    /\ main \in {"awaiting", "publishing"}
    /\ UNCHANGED <<renewal, age, granted, lost, slowest, lease, uploads, command, written>>

(* tick: only a heartbeat that is not stopped has a timer.                  *)
TimerTick ==
    /\ quiet = Interval
    /\ main \in {"awaiting", "publishing"}
    /\ quiet' = 0
    /\ IF ~lost /\ ShouldRenew THEN StartRenewal ELSE UNCHANGED <<renewal, age>>
    /\ UNCHANGED <<granted, lost, slowest, lease, uploads, command, written>>

(* The server prolongs a live lease; it refuses one that is over.           *)
RenewAtServer ==
    /\ renewal = "sent"
    /\ IF remote > 0
       THEN renewal' = "granted" /\ remote' = TTL /\ granted' = TTL
       ELSE renewal' = "refused" /\ UNCHANGED <<remote, granted>>
    /\ UNCHANGED <<age, quiet, lost, slowest, local, record, uploads, command, written>>

(* inFlight = null, once the request has ended.                             *)
NoRenewal == renewal' = "none" /\ age' = 0 /\ granted' = 0

(* The continuations of renewOnce: of the lanes that wait in beforeWrite,   *)
(* and of resolvePublishLeaseForWrite.                                      *)
Waiting == { w \in Lanes : lane[w] = "waiting" }

SendUnmarked(W) ==
    /\ lane' = [w \in Lanes |-> IF w \in W THEN "sending" ELSE lane[w]]
    /\ UNCHANGED attempted
Send(W) ==
    /\ lane' = [w \in Lanes |-> IF w \in W THEN "sending" ELSE lane[w]]
    /\ attempted' = IF W = {} THEN attempted ELSE TRUE

RejectNobody(W) == UNCHANGED <<lane, failed>>
Reject(W) ==
    /\ lane' = [w \in Lanes |-> IF w \in W THEN "free" ELSE lane[w]]
    /\ failed' = IF W = {} /\ main # "awaiting" THEN failed ELSE TRUE

RenewAnswered ==
    /\ renewal = "granted"
    /\ NoRenewal
    /\ local' = granted
    /\ record' = "kept"
    /\ Send(Waiting)
    /\ IF main = "awaiting"
       THEN main' = "publishing" /\ scoped' = acquired
       ELSE UNCHANGED <<main, scoped>>
    /\ UNCHANGED <<quiet, lost, slowest, remote, files, resends,
                   failed, acquired, staged, written>>

(* markLost: the server refused, or the connection broke or timed out on    *)
(* either way.                                                              *)
RenewFailed ==
    /\ renewal # "none"
    /\ NoRenewal
    /\ lost' = TRUE
    /\ Reject(Waiting)
    /\ main' = IF main = "awaiting" THEN "stopping" ELSE main
    /\ UNCHANGED <<quiet, slowest, lease, files, resends,
                   attempted, scoped, acquired, staged, written>>

-----------------------------------------------------------------------------
(* The upload workers.                                                      *)
TakeFile(w) ==
    /\ main = "publishing"
    /\ lane[w] = "free"
    /\ files > 0
    /\ ~failed
    /\ files' = files - 1
    /\ lane' = [lane EXCEPT ![w] = "ready"]
    /\ UNCHANGED <<resends, lease, heart, command, written>>

AlwaysHealthy == TRUE
Healthy == ~lost

(* beforeWrite.                                                             *)
CheckLease(w) ==
    /\ lane[w] = "ready"
    /\ \/ /\ ~Healthy
          /\ Reject({w})
          /\ UNCHANGED <<renewal, age, attempted>>
       \/ /\ Healthy
          /\ ~ShouldRenew
          /\ Send({w})
          /\ UNCHANGED <<renewal, age, failed>>
       \/ /\ Healthy
          /\ ShouldRenew
          /\ StartRenewal
          /\ lane' = [lane EXCEPT ![w] = "waiting"]
          /\ UNCHANGED <<attempted, failed>>
    /\ UNCHANGED <<granted, quiet, lost, slowest, lease, files, resends,
                   main, scoped, acquired, staged, written>>

UploadAtServer(w) ==
    /\ lane[w] = "sending"
    /\ lane' = [lane EXCEPT ![w] = "answer"]
    /\ written' = TRUE
    /\ UNCHANGED <<files, resends, lease, heart, command>>

UploadAnswered(w) ==
    /\ lane[w] = "answer"
    /\ lane' = [lane EXCEPT ![w] = "free"]
    /\ UNCHANGED <<files, resends, lease, heart, command, written>>

(* retryTransientFetch: beforeWrite comes first again.                      *)
UploadSentAgain(w) ==
    /\ lane[w] \in {"sending", "answer"}
    /\ resends < Resends
    /\ resends' = resends + 1
    /\ lane' = [lane EXCEPT ![w] = "ready"]
    /\ UNCHANGED <<files, lease, heart, command, written>>

UploadFailed(w) ==
    /\ lane[w] \in {"sending", "answer"}
    /\ Reject({w})
    /\ UNCHANGED <<files, resends, lease, heart,
                   main, attempted, scoped, acquired, staged, written>>

-----------------------------------------------------------------------------
(* The end of the command: runWithConcurrency waits for all its workers;    *)
(* the command may also fail elsewhere.                                     *)
Conclude ==
    /\ main = "publishing"
    /\ \A w \in Lanes : lane[w] = "free"
    /\ \E error \in BOOLEAN :
          /\ files = 0 \/ failed \/ error
          /\ failed' = (failed \/ error)
    /\ main' = "stopping"
    /\ UNCHANGED <<attempted, scoped, acquired, staged, lease, heart, uploads, written>>

(* finalizeCommandScopedPublishLease, once stop has waited for inFlight.    *)
FinishStopAtOnce ==
    /\ main = "stopping"
    /\ main' = IF scoped /\ (IF failed THEN ~attempted ELSE ~staged)
               THEN "releasing" ELSE "ended"
    /\ UNCHANGED <<failed, attempted, scoped, acquired, staged, lease, heart, uploads, written>>
FinishStop ==
    /\ main = "stopping"
    /\ renewal = "none"
    /\ main' = IF scoped /\ (IF failed THEN ~attempted ELSE ~staged)
               THEN "releasing" ELSE "ended"
    /\ UNCHANGED <<failed, attempted, scoped, acquired, staged, lease, heart, uploads, written>>

(* The server takes the lease back, or says that it is over already.        *)
ReleaseLease ==
    /\ main = "releasing"
    /\ remote' = 0
    /\ record' = "cleared"
    /\ main' = "ended"
    /\ UNCHANGED <<local, failed, attempted, scoped, acquired, staged, heart, uploads, written>>

(* The request fails, applied or not, or the release source turns out not   *)
(* to be in the main line.  The error fails a command that had succeeded;   *)
(* whether to release is then decided once more, if it was the request.     *)
ReleaseFailed ==
    /\ main = "releasing"
    /\ remote' \in {remote, 0}
    /\ \/ main' = "ended" /\ UNCHANGED scoped
       \/ ~failed /\ main' = "stopping" /\ UNCHANGED scoped
    /\ failed' = TRUE
    /\ UNCHANGED <<local, record, attempted, acquired, staged, heart, uploads, written>>

-----------------------------------------------------------------------------
(* Time passes while no tick is due.                                        *)
TimePasses ==
    /\ main # "ended"
    /\ main \in {"awaiting", "publishing"} => quiet < Interval
    /\ remote' = Less(remote)
    /\ local' = Less(local)
    /\ granted' = Less(granted)
    /\ quiet' = IF main \in {"awaiting", "publishing"} THEN quiet + 1 ELSE quiet
    /\ age' = IF renewal # "none" THEN Longer(age) ELSE age
    /\ slowest' = IF renewal # "none" /\ age' > slowest THEN age' ELSE slowest
    /\ UNCHANGED <<record, renewal, lost, uploads, command, written>>

Renewing == RenewAtServer \/ RenewAnswered \/ RenewFailed

Uploading(w) ==
    \/ CheckLease(w) \/ UploadAtServer(w) \/ UploadAnswered(w)
    \/ UploadSentAgain(w) \/ UploadFailed(w)

Ending == Conclude \/ FinishStop \/ ReleaseLease \/ ReleaseFailed

Next ==
    \/ TimerTick
    \/ Renewing
    \/ \E w \in Lanes : TakeFile(w) \/ Uploading(w)
    \/ Ending
    \/ TimePasses

Spec == Init /\ [][Next]_vars

(* Every request is answered or times out, and the event loop goes on.      *)
FairSpec ==
    /\ Spec
    /\ WF_vars(Renewing)
    /\ \A w \in Lanes : WF_vars(TakeFile(w)) /\ WF_vars(Uploading(w))
    /\ WF_vars(Ending)

-----------------------------------------------------------------------------
(* An upload is sent, for the first time or again, either with more than    *)
(* the renew window left of the lease, or as the answer of a renewal comes  *)
(* in, with all that is left of a whole lease when this renewal is          *)
(* deducted: beforeWrite never lets pass on an older grant, however long    *)
(* requests take and whoever shares the renewal.  (A renewal that took as   *)
(* long as the lease leaves nothing, and beforeWrite does not look at it.)  *)
WritesOnCheckedLease ==
    [][ \A w \in Lanes : lane[w] # "sending" /\ lane'[w] = "sending" =>
           \/ remote > RenewWindow
           \/ renewal = "granted" /\ remote + age >= TTL ]_vars

(* The lease of a command that publishes runs out behind its back only if a *)
(* renewal has taken longer than the heartbeat can make up for: than what a *)
(* tick leaves of the renew window, or than what a granted lease leaves     *)
(* beside it.  With the defaults that is more than 30 s, however long the   *)
(* command builds without a write.                                          *)
HeldWhilePublishing ==
    main = "publishing" /\ ~lost /\ remote = 0 =>
        Interval + slowest > RenewWindow \/ RenewWindow + slowest >= TTL

(* A command that fails gives its lease back only if nothing that it wrote  *)
(* can have reached the server; otherwise the lease stays for the review.   *)
ReviewBeforeRelease == main = "releasing" /\ failed => ~written

(* No late renewal brings back the record of a lease that was given back.   *)
ClearedForGood == [][record = "cleared" => record' = "cleared"]_vars

(* After a failed renewal no write is sent any more, also by lanes that had *)
(* passed their last check or send an upload again.                         *)
NoWriteAfterLoss ==
    [][lost => \A w \in Lanes : lane'[w] = "sending" => lane[w] = "sending"]_vars

(* The command ends: nobody waits for a renewal that is never answered.     *)
CommandEnds == <>(main = "ended")
=============================================================================
