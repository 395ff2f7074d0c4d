------------------------- MODULE PublishLeaseProofs -------------------------
(* Theorems about PublishLease.                                             *)
EXTENDS PublishLease, TLAPS

-----------------------------------------------------------------------------
(* What the command does and in which order, whatever the times are.        *)

Uploaded(w) == lane[w] \in {"sending", "answer"}

Order ==
    /\ TypeOK
    /\ lost => renewal = "none"
    /\ main = "awaiting" => renewal # "none"
    /\ main # "publishing" => \A w \in Lanes : lane[w] = "free"
    /\ main \in {"releasing", "ended"} => renewal = "none"
    /\ record = "cleared" => main = "ended"
    /\ written => attempted
    /\ \A w \in Lanes : Uploaded(w) => attempted
    /\ main = "releasing" /\ failed => ~attempted

LEMMA LessType ==
    ASSUME NEW m \in Nat, NEW n \in 0..m
    PROVE  /\ Less(n) \in 0..m
           /\ n > 0 => Less(n) = n - 1
           /\ n = 0 => Less(n) = 0
  BY DEF Less

LEMMA LongerType ==
    ASSUME NEW n \in 0..TTL
    PROVE  /\ Longer(n) \in 0..TTL
           /\ n < TTL => Longer(n) = n + 1
           /\ n = TTL => Longer(n) = TTL
  BY PublishLeaseAssumption DEF Longer

LEMMA SendEffect ==
    ASSUME Order, NEW W \in SUBSET Lanes, Send(W)
    PROVE  /\ lane' \in [Lanes -> LaneStates]
           /\ attempted' \in BOOLEAN
           /\ attempted => attempted'
           /\ W = {} => attempted' = attempted
           /\ W # {} => attempted'
           /\ \A w \in W : lane'[w] = "sending"
           /\ \A w \in Lanes \ W : lane'[w] = lane[w]
<1>1. lane \in [Lanes -> LaneStates]
  BY DEF Order, TypeOK
<1>2. "sending" \in LaneStates
  BY DEF LaneStates
<1>3. attempted \in BOOLEAN
  BY DEF Order, TypeOK
<1>4. QED
  BY <1>1, <1>2, <1>3 DEF Send

LEMMA OrderInit == Init => Order
<1> SUFFICES ASSUME Init PROVE Order
  OBVIOUS
<1>1. {remote, local, granted, age, slowest} \subseteq 0..TTL /\ quiet \in 0..Interval
  BY PublishLeaseAssumption DEF Init
<1>2. files \in 0..Files /\ resends \in 0..Resends
  BY PublishLeaseAssumption DEF Init
<1>3. lane \in [Lanes -> LaneStates]
  BY DEF Init, LaneStates
<1>4. renewal \in Renewals /\ main \in Places /\ record \in {"kept", "cleared"}
  BY DEF Init, Renewals, Places
<1>5. {lost, failed, attempted, scoped, acquired, staged, written} \subseteq BOOLEAN
  BY DEF Init
<1>6. TypeOK
  BY <1>1, <1>2, <1>3, <1>4, <1>5 DEF TypeOK
<1>7. QED
  BY <1>6 DEF Init, Order, Uploaded

LEMMA OrderStep == Order /\ [Next]_vars => Order'
<1> SUFFICES ASSUME Order, [Next]_vars PROVE Order'
  OBVIOUS
<1> USE PublishLeaseAssumption
<1>1. CASE TimerTick
  BY <1>1 DEF TimerTick, StartRenewal, Order, TypeOK, Renewals, Uploaded, lease, uploads, command
<1>2. CASE RenewAtServer
  BY <1>2 DEF RenewAtServer, Order, TypeOK, Renewals, Uploaded, uploads, command
<1>3. CASE RenewAnswered
  <2>1. main # "publishing" => Waiting = {}
    BY DEF Order, Waiting
  <2>2. /\ lane' \in [Lanes -> LaneStates]
        /\ attempted' \in BOOLEAN
        /\ attempted => attempted'
        /\ \A w \in Lanes : Uploaded(w)' => attempted'
        /\ main # "publishing" => attempted' = attempted
    <3>1. Send(Waiting) /\ Waiting \in SUBSET Lanes
      BY <1>3 DEF RenewAnswered, Waiting
    <3>2. \A w \in Lanes : Uploaded(w) => attempted
      BY DEF Order
    <3>3. QED
      BY <2>1, <3>1, <3>2, SendEffect DEF Uploaded
  <2>3. main # "publishing" => \A w \in Lanes : lane'[w] = "free"
    BY <1>3, <2>1 DEF RenewAnswered, Send, Order
  <2>4. QED
    BY <1>3, <2>2, <2>3 DEF RenewAnswered, NoRenewal, Order, TypeOK, Renewals, Places
<1>4. CASE RenewFailed
  <2>1. /\ lane' \in [Lanes -> LaneStates]
        /\ \A w \in Lanes : lane'[w] = lane[w] \/ lane'[w] = "free"
        /\ failed' \in BOOLEAN
    BY <1>4 DEF RenewFailed, Reject, Order, TypeOK, LaneStates
  <2>2. main # "publishing" => \A w \in Lanes : lane'[w] = "free"
    BY <2>1 DEF Order
  <2>3. QED
    BY <1>4, <2>1, <2>2 DEF RenewFailed, NoRenewal, Order, TypeOK, Renewals, Places, Uploaded, lease
<1>5. ASSUME NEW w \in Lanes, TakeFile(w) PROVE Order'
  BY <1>5 DEF TakeFile, Order, TypeOK, LaneStates, Uploaded, lease, heart, command
<1>6. ASSUME NEW w \in Lanes, CheckLease(w) PROVE Order'
  <2>0. main = "publishing"
    BY <1>6 DEF CheckLease, Order
  <2>1. CASE ~Healthy
    BY <1>6, <2>0, <2>1 DEF CheckLease, Reject, Order, TypeOK, LaneStates, Uploaded, Healthy, lease
  <2>2. CASE Healthy /\ ~ShouldRenew
    <3>1. Send({w}) /\ {w} \in SUBSET Lanes
      BY <1>6, <2>2 DEF CheckLease, Healthy
    <3>2. lane' \in [Lanes -> LaneStates] /\ attempted'
      BY <3>1, SendEffect
    <3>3. QED
      BY <1>6, <2>0, <2>2, <3>2 DEF CheckLease, Order, TypeOK, Healthy, lease
  <2>3. CASE Healthy /\ ShouldRenew
    BY <1>6, <2>0, <2>3 DEF CheckLease, StartRenewal, Order, TypeOK, Renewals, LaneStates, Uploaded,
       Healthy, lease
  <2>4. QED
    BY <2>1, <2>2, <2>3
<1>7. ASSUME NEW w \in Lanes,
             UploadAtServer(w) \/ UploadAnswered(w) \/ UploadSentAgain(w)
      PROVE  Order'
  <2>0. main = "publishing" /\ attempted
    BY <1>7 DEF UploadAtServer, UploadAnswered, UploadSentAgain, Order, Uploaded
  <2>1. lane' \in [Lanes -> LaneStates]
    BY <1>7 DEF UploadAtServer, UploadAnswered, UploadSentAgain, Order, TypeOK, LaneStates
  <2>2. resends' \in 0..Resends /\ written' \in BOOLEAN
    <3>1. resends \in 0..Resends /\ Resends \in Nat /\ written \in BOOLEAN
      BY DEF Order, TypeOK
    <3>2. resends' = resends \/ (resends < Resends /\ resends' = resends + 1)
      BY <1>7 DEF UploadAtServer, UploadAnswered, UploadSentAgain
    <3>3. written' = TRUE \/ written' = written
      BY <1>7 DEF UploadAtServer, UploadAnswered, UploadSentAgain
    <3>4. resends' \in 0..Resends
      BY <3>1, <3>2
    <3>5. written' \in BOOLEAN
      BY <3>1, <3>3
    <3>6. QED
      BY <3>4, <3>5
  <2>3. UNCHANGED <<lease, heart, command, files>>
    BY <1>7 DEF UploadAtServer, UploadAnswered, UploadSentAgain
  <2>4. QED
    BY <2>0, <2>1, <2>2, <2>3 DEF Order, TypeOK, lease, heart, command
<1>8. ASSUME NEW w \in Lanes, UploadFailed(w) PROVE Order'
  <2>0. main = "publishing"
    BY <1>8 DEF UploadFailed, Order
  <2>1. QED
    BY <1>8, <2>0 DEF UploadFailed, Reject, Order, TypeOK, LaneStates, Uploaded, lease, heart
<1>9. CASE Conclude
  BY <1>9 DEF Conclude, Order, TypeOK, Places, Uploaded, lease, heart, uploads
<1>10. CASE FinishStop
  BY <1>10 DEF FinishStop, Order, TypeOK, Places, Uploaded, lease, heart, uploads
<1>11. CASE ReleaseLease
  BY <1>11 DEF ReleaseLease, Order, TypeOK, Places, Uploaded, heart, uploads
<1>12. CASE ReleaseFailed
  BY <1>12 DEF ReleaseFailed, Order, TypeOK, Places, Uploaded, heart, uploads
<1>13. CASE TimePasses
  <2>1. {remote', local', granted'} \subseteq 0..TTL
    BY <1>13, LessType DEF TimePasses, Order, TypeOK
  <2>2. quiet' \in 0..Interval
    BY <1>13 DEF TimePasses, Order, TypeOK
  <2>3. {age', slowest'} \subseteq 0..TTL
    BY <1>13, LongerType DEF TimePasses, Order, TypeOK
  <2>4. QED
    BY <1>13, <2>1, <2>2, <2>3 DEF TimePasses, Order, TypeOK, Uploaded, uploads, command
<1>14. CASE UNCHANGED vars
  BY <1>14 DEF vars, lease, heart, uploads, command, Order, TypeOK, Uploaded
<1>15. QED
  BY <1>1, <1>2, <1>3, <1>4, <1>5, <1>6, <1>7, <1>8, <1>9, <1>10, <1>11, <1>12, <1>13, <1>14
  DEF Next, Renewing, Uploading, Ending

LEMMA OrderAlways == Spec => []Order
<1>1. QED
  BY OrderInit, OrderStep, PTL DEF Spec

(* The variables of the heartbeat, the workers and the command keep their   *)
(* types, the times their bounds.                                           *)
THEOREM TypeCorrect == Spec => []TypeOK
<1>1. Order => TypeOK
  BY DEF Order
<1>2. QED
  BY <1>1, OrderAlways, PTL

(* A command that fails gives the lease back only if none of its writes can *)
(* have reached the server.                                                 *)
THEOREM ReviewFirst == Spec => []ReviewBeforeRelease
<1>1. Order => ReviewBeforeRelease
  BY DEF Order, ReviewBeforeRelease
<1>2. QED
  BY <1>1, OrderAlways, PTL

(* No late renewal brings back the record of a lease that was given back:   *)
(* stop has waited for the renewal in flight.                               *)
THEOREM ClearedStays == Spec => ClearedForGood
<1>1. Order /\ [Next]_vars => [record = "cleared" => record' = "cleared"]_vars
  <2> SUFFICES ASSUME Order, [Next]_vars, record = "cleared" PROVE record' = "cleared"
    OBVIOUS
  <2>1. renewal = "none"
    BY DEF Order
  <2>2. QED
    BY <2>1 DEF Next, vars, lease, TimerTick, Renewing, RenewAtServer, RenewAnswered, RenewFailed,
       TakeFile, Uploading, CheckLease, UploadAtServer, UploadAnswered, UploadSentAgain,
       UploadFailed, Ending, Conclude, FinishStop, ReleaseLease, ReleaseFailed, TimePasses
<1>2. QED
  BY <1>1, OrderAlways, PTL DEF Spec, ClearedForGood

(* A heartbeat that has lost its lease lets no write pass.                  *)
THEOREM LossIsFinal == Spec => NoWriteAfterLoss
<1> DEFINE Stopped == lost => \A w \in Lanes : lane'[w] = "sending" => lane[w] = "sending"
<1>1. Order /\ [Next]_vars => [Stopped]_vars
  <2> SUFFICES ASSUME Order, [Next]_vars, lost, NEW w \in Lanes, lane'[w] = "sending"
               PROVE  lane[w] = "sending"
    OBVIOUS
  <2>1. renewal = "none" /\ lane \in [Lanes -> LaneStates]
    BY DEF Order, TypeOK
  <2>2. ASSUME NEW v \in Lanes, CheckLease(v) PROVE lane[w] = "sending"
    BY <2>1, <2>2 DEF CheckLease, Healthy, Reject, LaneStates
  <2>3. ASSUME NEW v \in Lanes,
               TakeFile(v) \/ UploadAtServer(v) \/ UploadAnswered(v)
               \/ UploadSentAgain(v) \/ UploadFailed(v)
        PROVE  lane[w] = "sending"
    BY <2>1, <2>3 DEF TakeFile, UploadAtServer, UploadAnswered, UploadSentAgain, UploadFailed,
       Reject, LaneStates
  <2>4. CASE TimerTick \/ Renewing \/ Ending \/ TimePasses \/ UNCHANGED vars
    BY <2>1, <2>4 DEF TimerTick, Renewing, RenewAtServer, RenewAnswered, RenewFailed, Ending,
       Conclude, FinishStop, ReleaseLease, ReleaseFailed, TimePasses, vars, uploads
  <2>5. QED
    BY <2>2, <2>3, <2>4 DEF Next, Uploading
<1>2. QED
  BY <1>1, OrderAlways, PTL DEF Spec, NoWriteAfterLoss

-----------------------------------------------------------------------------
(* What the heartbeat keeps true of the times.  The client never believes   *)
(* the lease to be longer than it is, and an answer on its way carries all  *)
(* that is left of a whole lease.  As long as no renewal was too slow, the  *)
(* next tick comes in time while no renewal is on its way; while one is, it *)
(* was sent early enough.                                                   *)
Prompt == Interval + slowest <= RenewWindow /\ RenewWindow + slowest < TTL

Running == main \in {"awaiting", "publishing"}

InTime ==
    /\ Running => local <= remote
    /\ Running /\ renewal = "granted" => granted <= remote /\ granted + age >= TTL
    /\ renewal # "none" => age <= slowest
    /\ Prompt /\ main = "publishing" =>
         IF renewal # "none" THEN local + age + Interval > RenewWindow
         ELSE lost \/ local + quiet > RenewWindow

LEMMA TimesTypes ==
    ASSUME Order
    PROVE  /\ {remote, local, granted, age, slowest, quiet} \subseteq Nat
           /\ {TTL, RenewWindow, Interval} \subseteq Nat
           /\ remote <= TTL /\ local <= TTL /\ age <= TTL /\ slowest <= TTL /\ quiet <= Interval
  BY PublishLeaseAssumption DEF Order, TypeOK

LEMMA InTimeInit == Init => InTime
  BY PublishLeaseAssumption DEF Init, InTime, ShouldRenew, Running, Prompt

LEMMA InTimeStep ==
    ASSUME Order, Order', InTime, [Next]_vars
    PROVE  InTime'
<1> USE TimesTypes
<1>1. CASE TimerTick
  <2>1. CASE ~lost /\ ShouldRenew /\ renewal = "none"
    BY <1>1, <2>1 DEF TimerTick, StartRenewal, InTime, Prompt, Running, lease, command
  <2>2. CASE ~(~lost /\ ShouldRenew) \/ renewal # "none"
    BY <1>1, <2>2 DEF TimerTick, StartRenewal, ShouldRenew, InTime, Prompt, Running, lease, command
  <2>3. QED
    BY <2>1, <2>2
<1>2. CASE RenewAtServer
  BY <1>2 DEF RenewAtServer, InTime, Prompt, Running, command
<1>3. CASE RenewAnswered
  <2>1. Running => granted <= remote /\ granted + age >= TTL /\ age <= slowest
    BY <1>3 DEF RenewAnswered, InTime
  <2>2. Running' => Running
    BY <1>3 DEF RenewAnswered, Running
  <2>3. Prompt' <=> Prompt
    BY <1>3 DEF RenewAnswered, Prompt
  <2>4. QED
    BY <1>3, <2>1, <2>2, <2>3 DEF RenewAnswered, NoRenewal, InTime, Prompt, Running
<1>4. CASE RenewFailed
  BY <1>4 DEF RenewFailed, NoRenewal, InTime, Prompt, Running, lease
<1>5. ASSUME NEW v \in Lanes,
             TakeFile(v) \/ UploadAtServer(v) \/ UploadAnswered(v)
             \/ UploadSentAgain(v) \/ UploadFailed(v)
      PROVE  InTime'
  <2>1. UNCHANGED <<lease, heart, main>>
    BY <1>5 DEF TakeFile, UploadAtServer, UploadAnswered, UploadSentAgain, UploadFailed, command
  <2>2. QED
    BY <2>1 DEF InTime, Prompt, Running, lease, heart
<1>6. ASSUME NEW v \in Lanes, CheckLease(v) PROVE InTime'
  <2>1. UNCHANGED <<granted, quiet, lost, slowest, lease, main>>
    BY <1>6 DEF CheckLease
  <2>2. CASE UNCHANGED <<renewal, age>>
    BY <2>1, <2>2 DEF InTime, Prompt, Running, lease
  <2>3. CASE Healthy /\ StartRenewal
    BY <2>1, <2>3 DEF StartRenewal, Healthy, InTime, Prompt, Running, lease
  <2>4. QED
    BY <1>6, <2>2, <2>3 DEF CheckLease
<1>7. CASE Ending
  <2>1. ~Running' /\ main' # "publishing"
    BY <1>7 DEF Ending, Conclude, FinishStop, ReleaseLease, ReleaseFailed, Running
  <2>2. UNCHANGED heart
    BY <1>7 DEF Ending, Conclude, FinishStop, ReleaseLease, ReleaseFailed
  <2>3. QED
    BY <2>1, <2>2 DEF InTime, heart
<1>8. CASE TimePasses
  <2>1. /\ remote' = Less(remote) /\ local' = Less(local) /\ granted' = Less(granted)
        /\ UNCHANGED <<main, renewal, lost>>
        /\ Running => quiet' = quiet + 1 /\ quiet < Interval
        /\ renewal # "none" => age' = Longer(age)
    BY <1>8 DEF TimePasses, command, Running
  <2>2. /\ {age', slowest'} \subseteq Nat
        /\ slowest <= slowest' /\ (renewal # "none" => age' <= slowest')
    <3>1. {age', slowest'} \subseteq Nat
      BY TimesTypes DEF Order, TypeOK
    <3>2. slowest' = IF renewal # "none" /\ age' > slowest THEN age' ELSE slowest
      BY <1>8 DEF TimePasses
    <3>3. QED
      BY <3>1, <3>2
  <2>3. (Running => local <= remote)'
    BY <2>1 DEF InTime, Running, Less
  <2>4. (Running /\ renewal = "granted" => granted <= remote /\ granted + age >= TTL)'
    BY <2>1 DEF InTime, Running, Less, Longer
  <2>5. ASSUME Prompt', main = "publishing"
        PROVE  IF renewal # "none" THEN local' + age' + Interval > RenewWindow
               ELSE lost \/ local' + quiet' > RenewWindow
    <3>1. Prompt
      BY <2>2, <2>5 DEF Prompt
    <3>2. CASE renewal # "none"
      <4>1. local + age + Interval > RenewWindow
        BY <2>5, <3>1, <3>2 DEF InTime
      <4>2. age' <= slowest' /\ Interval + slowest' <= RenewWindow /\ RenewWindow + slowest' < TTL
        BY <2>2, <2>5, <3>2 DEF Prompt
      <4>3. age' = age + 1
        BY <2>1, <2>2, <3>2, <4>2 DEF Longer
      <4>4. QED
        BY <2>1, <3>2, <4>1, <4>2, <4>3 DEF Less
    <3>3. CASE renewal = "none"
      BY <2>1, <2>5, <3>1, <3>3 DEF InTime, Prompt, Running, Less
    <3>4. QED
      BY <3>2, <3>3
  <2>6. QED
    BY <2>1, <2>2, <2>3, <2>4, <2>5 DEF InTime
<1>9. CASE UNCHANGED vars
  BY <1>9 DEF vars, lease, heart, command, InTime, Prompt, Running
<1>10. QED
  BY <1>1, <1>2, <1>3, <1>4, <1>5, <1>6, <1>7, <1>8, <1>9 DEF Next, Renewing, Uploading

LEMMA InTimeAlways == Spec => []InTime
<1>1. Order /\ Order' /\ InTime /\ [Next]_vars => InTime'
  BY InTimeStep
<1>2. QED
  BY <1>1, InTimeInit, OrderAlways, PTL DEF Spec

(* For every TTL, renew window and timer interval, and whatever time the    *)
(* requests take: the lease of a publishing command is over only if a       *)
(* renewal was slower than what these leave for it.                         *)
THEOREM LeaseHeld == Spec => []HeldWhilePublishing
<1>1. Order /\ InTime => HeldWhilePublishing
  <2> SUFFICES ASSUME Order, InTime, main = "publishing", ~lost, remote = 0, Prompt
               PROVE  FALSE
    BY TimesTypes DEF HeldWhilePublishing, Prompt
  <2>1. QED
    BY TimesTypes DEF InTime, Prompt, Running
<1>2. QED
  BY <1>1, OrderAlways, InTimeAlways, PTL

(* Every write, also one that waited for a shared renewal or is sent again, *)
(* is sent with more than the renew window left of the lease, or with all   *)
(* that the renewal it waited for has left of a whole one.                  *)
THEOREM WritesCovered == Spec => WritesOnCheckedLease
<1> DEFINE Covered ==
      \A w \in Lanes : lane[w] # "sending" /\ lane'[w] = "sending" =>
          \/ remote > RenewWindow
          \/ renewal = "granted" /\ remote + age >= TTL
<1>1. Order /\ InTime /\ [Next]_vars => [Covered]_vars
  <2> SUFFICES ASSUME Order, InTime, [Next]_vars,
                      NEW w \in Lanes, lane[w] # "sending", lane'[w] = "sending"
               PROVE  \/ remote > RenewWindow
                      \/ renewal = "granted" /\ remote + age >= TTL
    OBVIOUS
  <2>1. lane \in [Lanes -> LaneStates]
    BY DEF Order, TypeOK
  <2>2. CASE RenewAnswered
    <3>1. Send(Waiting) /\ Waiting \in SUBSET Lanes /\ renewal = "granted"
      BY <2>2 DEF RenewAnswered, Waiting
    <3>2. lane[w] = "waiting"
      BY <3>1, SendEffect DEF Waiting
    <3>3. Running
      BY <3>2 DEF Order, Running
    <3>4. QED
      BY <3>1, <3>3, TimesTypes DEF InTime
  <2>3. ASSUME NEW v \in Lanes, CheckLease(v)
        PROVE  remote > RenewWindow
    <3>1. Running
      BY <2>3 DEF CheckLease, Order, Running
    <3>2. ~ShouldRenew
      BY <2>1, <2>3 DEF CheckLease, Reject, LaneStates
    <3>3. QED
      BY <3>1, <3>2, TimesTypes DEF InTime, ShouldRenew
  <2>4. ASSUME NEW v \in Lanes,
               TakeFile(v) \/ UploadAtServer(v) \/ UploadAnswered(v)
               \/ UploadSentAgain(v) \/ UploadFailed(v)
        PROVE  FALSE
    BY <2>1, <2>4 DEF TakeFile, UploadAtServer, UploadAnswered, UploadSentAgain, UploadFailed,
       Reject, LaneStates
  <2>5. CASE TimerTick \/ RenewAtServer \/ RenewFailed \/ Ending \/ TimePasses \/ UNCHANGED vars
    BY <2>1, <2>5 DEF TimerTick, RenewAtServer, RenewFailed, Reject, Ending, Conclude,
       FinishStop, ReleaseLease, ReleaseFailed, TimePasses, vars, uploads
  <2>6. QED
    BY <2>2, <2>3, <2>4, <2>5 DEF Next, Renewing, Uploading
<1>2. QED
  BY <1>1, OrderAlways, InTimeAlways, PTL DEF Spec, WritesOnCheckedLease
=============================================================================
