---------------------------- MODULE CallHangupProofs ----------------------------
(* That a call that is over stays closed, that forgotten delayed leaves are   *)
(* paid for, and that no single failure leaves a membership for good, for any *)
(* number of calls, delayed leaves, failures and tasks.                       *)
EXTENDS CallHangup, FiniteSetTheorems, TLAPS

-----------------------------------------------------------------------------
(* Types                                                                   *)

LEMMA NewIds ==
    ASSUME NEW s \in Sessions, Unused(s) # {}
    PROVE  /\ NewId(s) \in Ids
           /\ NewId(s) \notin Known(s)
           /\ <<s, NewId(s)>> \notin pending
<1>1. PICK i \in Unused(s) : TRUE
  OBVIOUS
<1>2. NewId(s) \in Unused(s)
  BY <1>1 DEF NewId
<1> QED BY <1>2 DEF Unused

LEMMA Constants == /\ MaxSession \in Nat \ {0} /\ MaxId \in Nat \ {0} /\ MaxFaults \in Nat
                   /\ MaxTasks \in Nat
BY BoundsAssumption

\* The bounds of a behaviour, and slots.
LEMMA ModeFacts ==
    ASSUME TypeOK
    PROVE  /\ mode.tasks \in Nat
           /\ Sticky \in BOOLEAN /\ Encrypted \in BOOLEAN /\ Delayed \in BOOLEAN
           /\ \A s \in Sessions : Slot(s) \in Sessions
<1>1. mode \in Mode
  BY ModesAssumption DEF TypeOK
<1> QED BY <1>1, Constants DEF Mode, Sessions, Slot, Sticky, Encrypted, Delayed

\* A request counts the failure it is.
LEMMA RequestFaults ==
    ASSUME TypeOK, NEW o, Request(o)
    PROVE  /\ faults' \in 0 .. MaxFaults
           /\ faults' = IF o = "ok" THEN faults ELSE faults + 1
BY Constants DEF TypeOK, Request, Fault, Fine

LEMMA FaultType ==
    ASSUME TypeOK, Fault \/ Fine
    PROVE  faults' \in 0 .. MaxFaults /\ faults' >= faults
BY Constants DEF TypeOK, Fault, Fine

Delay == [id : Ids \cup {None}, active : BOOLEAN, lost : BOOLEAN]

LEMMA DelayTypes ==
    ASSUME TypeOK, NEW s \in Sessions, NEW i \in Ids \cup {None}, NEW a \in BOOLEAN,
           NEW l \in BOOLEAN,
           delay' = [delay EXCEPT ![s] = [id |-> i, active |-> a, lost |-> l]]
    PROVE  delay' \in [Sessions -> Delay]
<1>1. delay \in [Sessions -> Delay]
  BY DEF TypeOK, Delay
<1>2. [id |-> i, active |-> a, lost |-> l] \in Delay
  BY DEF Delay
<1> QED BY <1>1, <1>2

LEMMA DelayFacts ==
    ASSUME TypeOK, NEW s \in Sessions
    PROVE  /\ delay[s].id \in Ids \cup {None} /\ delay[s].active \in BOOLEAN
           /\ delay[s].lost \in BOOLEAN
           /\ delay \in [Sessions -> Delay]
BY DEF TypeOK, Delay

USE DEF Become, Loop, Lock, SetDelay, Lose

\* What a request schedules, if anything.
LEMMA ScheduleTypes ==
    ASSUME TypeOK, NEW s \in Sessions, NEW o, ScheduleRequest(s, o)
    PROVE  /\ faults' \in 0 .. MaxFaults /\ pending' \subseteq Sessions \X Ids
           /\ Scheduled(s, o) \in Ids \cup {None}
           /\ Scheduled(s, o) # None =>
                 Scheduled(s, o) = NewId(s) /\ Unused(s) # {} /\ Delayed /\ o = "ok"
<1>1. Request(o) /\ (Delayed => NewId(s) \in Ids)
  BY NewIds DEF ScheduleRequest
<1>2. pending' = pending \/ (Delayed /\ pending' = pending \cup {<<s, NewId(s)>>})
  BY DEF ScheduleRequest
<1> QED BY <1>1, <1>2, RequestFaults DEF TypeOK, Scheduled, ScheduleRequest

LEMMA JoinTypes ==
    ASSUME TypeOK, NEW s \in Sessions, Join(s) \/ JoinStep(s)
    PROVE  TypeOK'
<1>1. CASE Join(s)
  BY <1>1 DEF Join, TypeOK, serverVars, delayVars, loopVars, postVars, taskVars
<1>2. CASE \E o \in Outcomes : Schedule(s, o)
  <2> PICK o \in Outcomes : Schedule(s, o)
    BY <1>2
  <2>1. /\ faults' \in 0 .. MaxFaults /\ pending' \subseteq Sessions \X Ids
        /\ Scheduled(s, o) \in Ids \cup {None}
    BY ScheduleTypes DEF Schedule
  <2>2. hold' \in [Sessions -> Ids \cup {None}]
    BY <2>1 DEF Schedule, TypeOK
  <2> QED BY <2>1, <2>2 DEF Schedule, TypeOK, delayVars, loopVars, postVars, taskVars
<1>3. CASE \E o \in Outcomes : PublishJoin(s, o)
  <2> PICK o \in Outcomes : PublishJoin(s, o)
    BY <1>3
  <2>1. Request(o) /\ (joined' = joined \/ joined' = joined \cup {Slot(s)})
    BY DEF PublishJoin, PublishRequest, Enter
  <2>2. faults' \in 0 .. MaxFaults /\ joined' \subseteq Sessions
    BY <2>1, RequestFaults, ModeFacts DEF TypeOK
  <2> QED BY <2>2 DEF PublishJoin, TypeOK, delayVars, loopVars, postVars, taskVars
<1>4. CASE Provision(s)
  <2>1. faults' \in 0 .. MaxFaults
    BY <1>4, FaultType DEF Provision
  <2> QED BY <1>4, <2>1 DEF Provision, TypeOK, serverVars, delayVars, loopVars, postVars, taskVars
<1>5. CASE Confirm(s)
  <2>1. faults' \in 0 .. MaxFaults
    BY <1>5, FaultType DEF Confirm
  <2>2. hold[s] \in Ids \cup {None}
    BY DEF TypeOK
  <2>3. delay' \in [Sessions -> Delay]
    <3>1. CASE delay' = [delay EXCEPT ![s] = [id |-> hold[s], active |-> TRUE, lost |-> FALSE]]
      BY <3>1, <2>2, DelayTypes
    <3> QED BY <1>5, <3>1, DelayFacts DEF Confirm
  <2> QED BY <1>5, <2>1, <2>3 DEF Confirm, TypeOK, Delay, serverVars, taskVars
<1> QED BY <1>1, <1>2, <1>3, <1>4, <1>5 DEF JoinStep

LEMMA RequestTypes ==
    ASSUME TypeOK, NEW s \in Sessions, NEW o, PublishRequest(s, o) \/ LeftRequest(s, o)
    PROVE  faults' \in 0 .. MaxFaults /\ joined' \subseteq Sessions
<1>1. Request(o)
  BY DEF PublishRequest, LeftRequest
<1>2. joined' \in {joined, joined \cup {Slot(s)}, joined \ {Slot(s)}}
  BY DEF PublishRequest, LeftRequest, Enter, Exit
<1> QED BY <1>1, <1>2, RequestFaults, ModeFacts DEF TypeOK

LEMMA DroppedTypes ==
    ASSUME TypeOK, NEW s \in Sessions, DropLoops(s)
    PROVE  /\ loop' \in [Sessions -> {"off", "wait", "follow", "renew", "restore", "due",
                                       "protect", "publish"}]
           /\ {absent, observed, old}' \subseteq [Sessions -> BOOLEAN]
           /\ post' \in [Sessions -> {"off", "sleep", "ask", "missing"}]
           /\ asked' \in [Sessions -> Ids \cup {None}]
BY DEF TypeOK, DropLoops

LEMMA LeaveTypes ==
    ASSUME TypeOK, NEW s \in Sessions, LeaveCall(s) \/ LeaveStep(s) \/ Crash(s)
    PROVE  TypeOK'
<1>1. CASE LeaveCall(s)
  <2>1. joined' \subseteq Sessions /\ pending' \subseteq Sessions \X Ids
    <3>1. AbandonRequest(s)
      BY <1>1 DEF LeaveCall
    <3>2. CASE UNCHANGED serverVars
      BY <3>2 DEF serverVars, TypeOK
    <3>3. CASE Enter(s) /\ UNCHANGED pending
      BY <3>3, ModeFacts DEF Enter, TypeOK
    <3>4. CASE Unused(s) # {} /\ UNCHANGED joined /\ pending' = pending \cup {<<s, NewId(s)>>}
      BY <3>4, NewIds DEF TypeOK
    <3> QED BY <3>1, <3>2, <3>3, <3>4 DEF AbandonRequest
  <2>2. lock' \in [Sessions -> {"free", "restore", "protect", "cancel", "send"}]
    BY <1>1 DEF LeaveCall, ReleaseOfLoop, TypeOK
  <2>3. DropLoops(s)
    BY <1>1 DEF LeaveCall
  <2> QED BY <1>1, <2>1, <2>2, <2>3, DroppedTypes DEF LeaveCall, TypeOK, taskVars
<1>2. CASE TakeDelay(s)
  <2>1. delay' \in [Sessions -> Delay]
    BY <1>2, DelayTypes, DelayFacts DEF TakeDelay
  <2>2. hold' \in [Sessions -> Ids \cup {None}]
    BY <1>2, DelayFacts DEF TakeDelay, TypeOK
  <2>3. Sticky \in BOOLEAN
    BY ModeFacts
  <2> QED BY <1>2, <2>1, <2>2, <2>3
          DEF TakeDelay, TypeOK, Delay, serverVars, loopVars, postVars, taskVars
<1>3. CASE \E o \in Outcomes : FireHangup(s, o)
  <2> PICK o \in Outcomes : FireHangup(s, o)
    BY <1>3
  <2>1. faults' \in 0 .. MaxFaults
    BY RequestFaults DEF FireHangup
  <2>2. joined' \subseteq Sessions /\ pending' \subseteq Sessions \X Ids
    BY DEF FireHangup, TypeOK
  <2> QED BY <2>1, <2>2 DEF FireHangup, AfterFire, TypeOK, delayVars, loopVars, postVars, taskVars
<1>4. CASE \E o \in Outcomes : SendLeft(s, o)
  <2> PICK o \in Outcomes : SendLeft(s, o)
    BY <1>4
  <2>1. faults' \in 0 .. MaxFaults /\ joined' \subseteq Sessions
    BY RequestTypes DEF SendLeft
  <2> QED BY <2>1 DEF SendLeft, AfterLeft, TypeOK, delayVars, loopVars, postVars, taskVars
<1>5. CASE \E o \in Outcomes : CancelHangup(s, o)
  <2> PICK o \in Outcomes : CancelHangup(s, o)
    BY <1>5
  <2>1. faults' \in 0 .. MaxFaults /\ pending' \subseteq Sessions \X Ids
    BY RequestFaults DEF CancelHangup, CancelRequest, TypeOK
  <2> QED BY <2>1 DEF CancelHangup, TypeOK, delayVars, loopVars, postVars, taskVars
<1>6. CASE Crash(s)
  <2>1. faults' \in 0 .. MaxFaults /\ DropLoops(s)
    BY <1>6, FaultType DEF Crash
  <2>2. delay' \in [Sessions -> Delay]
    BY <1>6, DelayTypes DEF Crash
  <2>3. waiting' \in [Sessions -> 0 .. mode.tasks]
    BY <1>6, ModeFacts DEF Crash, TypeOK
  <2> QED BY <1>6, <2>1, <2>2, <2>3, DroppedTypes DEF Crash, TypeOK, Delay, serverVars
<1> QED BY <1>1, <1>2, <1>3, <1>4, <1>5, <1>6 DEF LeaveStep

Loops == {"off", "wait", "follow", "renew", "restore", "due", "protect", "publish"}

LEMMA EndTurnTypes ==
    ASSUME TypeOK, NEW s \in Sessions, NEW renewed \in BOOLEAN, EndTurn(s, renewed)
    PROVE  loop' \in [Sessions -> Loops] /\ waiting' \in [Sessions -> 0 .. mode.tasks]
<1>1. loop' \in [Sessions -> Loops]
  BY DEF EndTurn, TypeOK, Loops
<1>2. waiting[s] < mode.tasks => waiting[s] + 1 \in 0 .. mode.tasks
  BY ModeFacts DEF TypeOK
<1> QED BY <1>1, <1>2 DEF EndTurn, TypeOK

LEMMA LoopTypes ==
    ASSUME TypeOK, NEW s \in Sessions, LoopStep(s)
    PROVE  TypeOK'
<1>1. CASE Refresh(s)
  <2>1. InView(s) \in BOOLEAN /\ observed[s] \in BOOLEAN
    BY DEF InView, TypeOK
  <2> QED BY <1>1, <2>1
          DEF Refresh, Missed, TypeOK, serverVars, callVars, delayVars, postVars, taskVars
<1>2. CASE Ended(s) \/ EndedMidcall(s)
  <2>1. EndLoop(s)
    BY <1>2 DEF Ended, EndedMidcall
  <2> QED BY <2>1 DEF EndLoop, TypeOK, serverVars, delayVars, postVars, taskVars
<1>3. CASE EndLost(s)
  BY <1>3 DEF EndLost, TypeOK, serverVars, delayVars, postVars, taskVars
<1>4. CASE Renew(s)
  BY <1>4 DEF Renew, TypeOK, serverVars, callVars, postVars, taskVars
<1>5. CASE NotDue(s)
  <2>1. loop' \in [Sessions -> Loops] /\ waiting' \in [Sessions -> 0 .. mode.tasks]
    BY <1>5, EndTurnTypes DEF NotDue
  <2> QED BY <1>5, <2>1 DEF NotDue, TypeOK, Loops, serverVars, callVars, delayVars, postVars
<1>6. CASE Protect(s)
  BY <1>6 DEF Protect, TypeOK, serverVars, callVars, postVars, taskVars
<1>7. CASE ProtectGone(s)
  <2>1. delay' \in [Sessions -> Delay]
    BY <1>7, DelayTypes, DelayFacts DEF ProtectGone
  <2> QED BY <1>7, <2>1 DEF ProtectGone, TypeOK, Delay, serverVars, postVars, taskVars
<1>8. CASE \E o \in Outcomes : FollowFocus(s, o)
  <2> PICK o \in Outcomes : FollowFocus(s, o)
    BY <1>8
  <2>1. faults' \in 0 .. MaxFaults /\ joined' \subseteq Sessions
    BY RequestTypes DEF FollowFocus
  <2> QED BY <2>1 DEF FollowFocus, TypeOK, callVars, delayVars, postVars, taskVars
<1>9. CASE \E o \in Outcomes : Restore(s, o)
  <2> PICK o \in Outcomes : Restore(s, o)
    BY <1>9
  <2>1. /\ faults' \in 0 .. MaxFaults /\ pending' \subseteq Sessions \X Ids
        /\ Scheduled(s, o) \in Ids \cup {None}
    BY ScheduleTypes DEF Restore
  <2>2. delay' \in [Sessions -> Delay]
    BY <2>1, DelayTypes, DelayFacts DEF Restore
  <2> QED BY <2>1, <2>2 DEF Restore, TypeOK, Delay, callVars, postVars, taskVars
<1>10. CASE \E o \in Outcomes : Protected(s, o)
  <2> PICK o \in Outcomes : Protected(s, o)
    BY <1>10
  <2>1. faults' \in 0 .. MaxFaults
    BY RequestFaults DEF Protected
  <2> QED BY <2>1 DEF Protected, TypeOK, serverVars, callVars, postVars, taskVars
<1>11. CASE \E o \in Outcomes : PublishRenewal(s, o)
  <2> PICK o \in Outcomes : PublishRenewal(s, o)
    BY <1>11
  <2>1. faults' \in 0 .. MaxFaults /\ joined' \subseteq Sessions
    BY RequestTypes DEF PublishRenewal
  <2>2. loop' \in [Sessions -> Loops] /\ waiting' \in [Sessions -> 0 .. mode.tasks]
    BY EndTurnTypes DEF PublishRenewal
  <2> QED BY <2>1, <2>2
          DEF PublishRenewal, TypeOK, Loops, callVars, delayVars, postVars
<1> QED BY <1>1, <1>2, <1>3, <1>4, <1>5, <1>6, <1>7, <1>8, <1>9, <1>10, <1>11 DEF LoopStep

LEMMA TaskTypes ==
    ASSUME TypeOK, NEW s \in Sessions, RefreshStep(s) \/ PostponeStep(s) \/ ShareScreen(s)
           \/ Deliver(s) \/ Expire(s) \/ Age(s)
    PROVE  TypeOK'
<1>0. CASE NotSupported(s)
  <2>1. faults' \in 0 .. MaxFaults
    BY <1>0, FaultType DEF NotSupported
  <2>2. waiting' \in [Sessions -> 0 .. mode.tasks]
    BY <1>0, ModeFacts DEF NotSupported, TypeOK
  <2> QED BY <1>0, <2>1, <2>2
          DEF NotSupported, TypeOK, serverVars, callVars, delayVars, loopVars, postVars
<1>1. CASE TakeLock(s)
  <2>1. delay' \in [Sessions -> Delay]
    <3>1. CASE SetDelay(s, None, TRUE)
      BY <3>1, DelayTypes, DelayFacts
    <3>2. CASE UNCHANGED delay
      BY <3>2, DelayFacts
    <3> QED BY <1>1, <3>1, <3>2 DEF TakeLock, delayVars
  <2>2. lock' \in [Sessions -> {"free", "restore", "protect", "cancel", "send"}]
    <3>1. UNCHANGED lock \/ Lock(s, "cancel") \/ Lock(s, "send")
      BY <1>1 DEF TakeLock, delayVars
    <3> QED BY <3>1 DEF TypeOK
  <2>3. waiting' \in [Sessions -> 0 .. mode.tasks]
    BY <1>1, ModeFacts DEF TakeLock, TypeOK
  <2> QED BY <1>1, <2>1, <2>2, <2>3
          DEF TakeLock, TypeOK, Delay, serverVars, callVars, loopVars, postVars
<1>2. CASE \E o \in Outcomes : RefreshCancel(s, o)
  <2> PICK o \in Outcomes : RefreshCancel(s, o)
    BY <1>2
  <2>1. faults' \in 0 .. MaxFaults /\ pending' \subseteq Sessions \X Ids
    BY RequestFaults DEF RefreshCancel, CancelRequest, TypeOK
  <2>2. delay' \in [Sessions -> Delay]
    BY DelayTypes, DelayFacts DEF RefreshCancel
  <2> QED BY <2>1, <2>2 DEF RefreshCancel, TypeOK, Delay, callVars, loopVars, postVars, taskVars
<1>3. CASE \E o \in Outcomes : RefreshSend(s, o)
  <2> PICK o \in Outcomes : RefreshSend(s, o)
    BY <1>3
  <2>1. /\ faults' \in 0 .. MaxFaults /\ pending' \subseteq Sessions \X Ids
        /\ Scheduled(s, o) \in Ids \cup {None}
    BY ScheduleTypes DEF RefreshSend
  <2>2. delay' \in [Sessions -> Delay]
    BY <2>1, DelayTypes, DelayFacts DEF RefreshSend
  <2> QED BY <2>1, <2>2 DEF RefreshSend, TypeOK, Delay, callVars, loopVars, postVars, taskVars
<1>4. CASE Postpone(s)
  BY <1>4, DelayFacts
     DEF Postpone, TypeOK, serverVars, callVars, delayVars, loopVars, taskVars
<1>5. CASE Postponed(s)
  <2>1. faults' \in 0 .. MaxFaults
    BY <1>5, FaultType DEF Postponed
  <2> QED BY <1>5, <2>1
          DEF Postponed, TypeOK, serverVars, callVars, delayVars, loopVars, taskVars
<1>6. CASE NoteGone(s)
  <2>1. delay' \in [Sessions -> Delay]
    BY <1>6, DelayTypes, DelayFacts DEF NoteGone
  <2> QED BY <1>6, <2>1 DEF NoteGone, TypeOK, Delay, serverVars, callVars, loopVars, taskVars
<1>7. CASE ShareScreen(s)
  <2>1. publishing[s] + 1 \in 0 .. mode.tasks
    BY <1>7, ModeFacts DEF ShareScreen, TypeOK
  <2> QED BY <1>7, <2>1
          DEF ShareScreen, TypeOK, serverVars, callVars, delayVars, loopVars, postVars
<1>8. CASE Deliver(s)
  <2> PICK o \in Outcomes : ShareRequest(s, o)
    BY <1>8 DEF Deliver
  <2>1. faults' \in 0 .. MaxFaults /\ joined' \subseteq Sessions
    BY RequestTypes DEF ShareRequest
  <2>2. publishing[s] - 1 \in 0 .. mode.tasks
    BY ModeFacts DEF ShareRequest, TypeOK
  <2> QED BY <2>1, <2>2 DEF ShareRequest, TypeOK, callVars, delayVars, loopVars, postVars
<1>9. CASE Expire(s)
  <2> PICK i \in Ids : DelayedLeave(s, i)
    BY <1>9 DEF Expire
  <2>1. faults' \in 0 .. MaxFaults
    BY FaultType DEF DelayedLeave
  <2> QED BY <2>1
          DEF DelayedLeave, Exit, TypeOK, callVars, delayVars, loopVars, postVars, taskVars
<1>10. CASE Age(s)
  <2>1. faults' \in 0 .. MaxFaults
    BY <1>10, FaultType DEF Age
  <2> QED BY <1>10, <2>1 DEF Age, TypeOK, serverVars, callVars, delayVars, postVars, taskVars
<1> QED BY <1>0, <1>1, <1>2, <1>3, <1>4, <1>5, <1>6, <1>7, <1>8, <1>9, <1>10
        DEF RefreshStep, PostponeStep

LEMMA TypeStep ==
    ASSUME TypeOK, [Next]_vars
    PROVE  TypeOK'
<1>1. CASE UNCHANGED vars
  BY <1>1 DEF TypeOK, vars, serverVars, callVars, delayVars, loopVars, postVars, taskVars
<1>2. CASE Sync
  BY <1>2 DEF Sync, TypeOK, serverVars, callVars, delayVars, loopVars, postVars, taskVars
<1>3. CASE \E s \in Sessions : SessionStep(s)
  BY <1>3, JoinTypes, LeaveTypes, LoopTypes, TaskTypes DEF SessionStep
<1> QED BY <1>1, <1>2, <1>3 DEF Next

LEMMA TypeInit == Init => TypeOK
BY Constants, ModesAssumption DEF Init, TypeOK, Mode, Delay

-----------------------------------------------------------------------------
(* How the parts of a call fit together                                    *)

Joins == {"publish", "provision", "confirm"}

\* Who may hold the mutex, and which delayed leave each part means.
Shape(s) ==
    /\ phase[s] \in {"live", "hangup"} <=> delay[s].active
    /\ phase[s] \notin {"live", "hangup"} => delay[s].id = None /\ lock[s] = "free"
    /\ phase[s] # "live" => loop[s] = "off" /\ post[s] = "off"
    /\ loop[s] = "restore" <=> lock[s] = "restore"
    /\ loop[s] = "protect" <=> lock[s] = "protect"
    /\ delay[s].lost => delay[s].id = None
    /\ lock[s] \in {"cancel", "protect"} => delay[s].id # None
    /\ lock[s] \in {"send", "restore"} => delay[s].id = None
    /\ lock[s] \in {"cancel", "send"} \/ waiting[s] > 0 => Sticky /\ Encrypted
    /\ hold[s] # None => phase[s] \in Joins \cup {"fire", "left", "cancel"}
    /\ post[s] = "off" => asked[s] = None
    /\ Held(s, asked[s]) => asked[s] = delay[s].id
    /\ post[s] = "missing" => ~Held(s, asked[s])

Shapes == \A s \in Sessions : Shape(s)

\* A step of one call leaves what the other calls keep, and the delayed leaves
\* the server holds for them.
Same(t) ==
    /\ phase'[t] = phase[t] /\ hold'[t] = hold[t]
    /\ delay'[t] = delay[t] /\ lock'[t] = lock[t]
    /\ loop'[t] = loop[t] /\ post'[t] = post[t] /\ asked'[t] = asked[t]
    /\ waiting'[t] = waiting[t] /\ publishing'[t] = publishing[t]
SamePending(t) == \A i \in Ids : Held(t, i)' = Held(t, i)

LEMMA JoinOthers ==
    ASSUME TypeOK, NEW s \in Sessions, NEW t \in Sessions \ {s}, Join(s) \/ JoinStep(s)
    PROVE  Same(t) /\ SamePending(t) /\ mode' = mode
<1>1. Same(t)
  BY DEF Join, JoinStep, Schedule, PublishJoin, Provision, Confirm, Same, TypeOK, delayVars,
         loopVars, postVars, taskVars
<1>2. SamePending(t)
  BY DEF Join, JoinStep, Schedule, PublishJoin, Provision, Confirm, SamePending, Held,
         ScheduleRequest, serverVars
<1> QED BY <1>1, <1>2 DEF Join, JoinStep, Schedule, PublishJoin, Provision, Confirm

LEMMA LeaveOthers ==
    ASSUME TypeOK, NEW s \in Sessions, NEW t \in Sessions \ {s},
           LeaveCall(s) \/ LeaveStep(s) \/ Crash(s)
    PROVE  Same(t) /\ SamePending(t) /\ mode' = mode
<1>1. Same(t)
  BY DEF LeaveCall, LeaveStep, Crash, TakeDelay, FireHangup, SendLeft, CancelHangup, DropLoops,
         Same, TypeOK, delayVars, loopVars, postVars, taskVars
<1>2. SamePending(t)
  BY DEF LeaveCall, LeaveStep, Crash, TakeDelay, FireHangup, SendLeft, CancelHangup,
         AbandonRequest, CancelRequest, SamePending, Held, serverVars
<1> QED BY <1>1, <1>2 DEF LeaveCall, LeaveStep, Crash, TakeDelay, FireHangup, SendLeft,
                          CancelHangup

LEMMA LoopOthers ==
    ASSUME TypeOK, NEW s \in Sessions, NEW t \in Sessions \ {s}, LoopStep(s)
    PROVE  Same(t) /\ SamePending(t) /\ mode' = mode
<1>1. Same(t)
  <2>1. CASE Refresh(s)
    BY <2>1 DEF Refresh, Same, TypeOK, callVars, delayVars, postVars, taskVars
  <2>2. CASE Ended(s) \/ EndedMidcall(s)
    BY <2>2 DEF Ended, EndedMidcall, EndLoop, Same, TypeOK, delayVars, postVars, taskVars
  <2>3. CASE EndLost(s)
    BY <2>3 DEF EndLost, Same, TypeOK, delayVars, postVars, taskVars
  <2>4. CASE Renew(s)
    BY <2>4 DEF Renew, Same, TypeOK, callVars, postVars, taskVars
  <2>5. CASE NotDue(s)
    BY <2>5 DEF NotDue, Same, TypeOK, EndTurn, callVars, delayVars, postVars
  <2>6. CASE Protect(s)
    BY <2>6 DEF Protect, Same, TypeOK, callVars, postVars, taskVars
  <2>7. CASE ProtectGone(s)
    BY <2>7 DEF ProtectGone, Same, TypeOK, postVars, taskVars
  <2>8. CASE \E o \in Outcomes : FollowFocus(s, o)
    BY <2>8 DEF FollowFocus, Same, TypeOK, callVars, delayVars, postVars, taskVars
  <2>9. CASE \E o \in Outcomes : Restore(s, o)
    BY <2>9 DEF Restore, Same, TypeOK, callVars, postVars, taskVars
  <2>10. CASE \E o \in Outcomes : Protected(s, o)
    BY <2>10 DEF Protected, Same, TypeOK, callVars, postVars, taskVars
  <2>11. CASE \E o \in Outcomes : PublishRenewal(s, o)
    BY <2>11 DEF PublishRenewal, Same, TypeOK, EndTurn, callVars, delayVars, postVars
  <2> QED BY <2>1, <2>2, <2>3, <2>4, <2>5, <2>6, <2>7, <2>8, <2>9, <2>10, <2>11 DEF LoopStep
<1>2. SamePending(t)
  <2>1. CASE UNCHANGED pending
    BY <2>1 DEF SamePending, Held
  <2>2. CASE \E o \in Outcomes : Restore(s, o)
    BY <2>2 DEF Restore, ScheduleRequest, SamePending, Held
  <2>3. CASE NotDue(s) \/ \E o \in Outcomes : FollowFocus(s, o) \/ PublishRenewal(s, o)
    BY <2>1, <2>3 DEF NotDue, FollowFocus, PublishRenewal, serverVars
  <2>4. CASE Refresh(s) \/ Ended(s) \/ EndedMidcall(s) \/ EndLost(s) \/ Renew(s)
    BY <2>1, <2>4 DEF Refresh, Ended, EndedMidcall, EndLoop, EndLost, Renew, serverVars
  <2>5. CASE Protect(s) \/ ProtectGone(s) \/ \E o \in Outcomes : Protected(s, o)
    BY <2>1, <2>5 DEF Protect, ProtectGone, Protected, serverVars
  <2> QED BY <2>2, <2>3, <2>4, <2>5 DEF LoopStep
<1> QED BY <1>1, <1>2
  DEF LoopStep, Refresh, Ended, EndedMidcall, EndLoop, EndLost, Renew, NotDue, Protect,
      ProtectGone, FollowFocus, Restore, Protected, PublishRenewal

LEMMA TaskOthers ==
    ASSUME TypeOK, NEW s \in Sessions, NEW t \in Sessions \ {s},
           RefreshStep(s) \/ PostponeStep(s) \/ ShareScreen(s) \/ Deliver(s) \/ Expire(s)
           \/ Age(s)
    PROVE  Same(t) /\ SamePending(t) /\ mode' = mode
<1>1. Same(t)
  <2>0. CASE NotSupported(s)
    BY <2>0 DEF NotSupported, Same, TypeOK, callVars, delayVars, loopVars, postVars
  <2>1. CASE TakeLock(s)
    BY <2>1 DEF TakeLock, Same, TypeOK, callVars, delayVars, loopVars, postVars
  <2>2. CASE Postpone(s)
    BY <2>2 DEF Postpone, Same, TypeOK, callVars, delayVars, loopVars, taskVars
  <2>3. CASE Postponed(s)
    BY <2>3 DEF Postponed, Same, TypeOK, callVars, delayVars, loopVars, taskVars
  <2>4. CASE NoteGone(s)
    BY <2>4 DEF NoteGone, Same, TypeOK, callVars, loopVars, taskVars
  <2>5. CASE ShareScreen(s)
    BY <2>5 DEF ShareScreen, Same, TypeOK, callVars, delayVars, loopVars, postVars
  <2>6. CASE Age(s)
    BY <2>6 DEF Age, Same, TypeOK, callVars, delayVars, postVars, taskVars
  <2>7. CASE \E o \in Outcomes : RefreshCancel(s, o)
    BY <2>7 DEF RefreshCancel, Same, TypeOK, callVars, loopVars, postVars, taskVars
  <2>8. CASE \E o \in Outcomes : RefreshSend(s, o)
    BY <2>8 DEF RefreshSend, Same, TypeOK, callVars, loopVars, postVars, taskVars
  <2>9. CASE \E o \in Outcomes : ShareRequest(s, o)
    BY <2>9 DEF ShareRequest, Same, TypeOK, callVars, delayVars, loopVars, postVars
  <2>10. CASE \E i \in Ids : DelayedLeave(s, i)
    BY <2>10 DEF DelayedLeave, Same, TypeOK, callVars, delayVars, loopVars, postVars, taskVars
  <2> QED BY <2>0, <2>1, <2>2, <2>3, <2>4, <2>5, <2>6, <2>7, <2>8, <2>9, <2>10
          DEF RefreshStep, PostponeStep, Deliver, Expire
<1>2. SamePending(t)
  <2>1. CASE UNCHANGED pending
    BY <2>1 DEF SamePending, Held
  <2>2. CASE \E o \in Outcomes : RefreshCancel(s, o) \/ RefreshSend(s, o)
    BY <2>2 DEF RefreshCancel, RefreshSend, CancelRequest, ScheduleRequest, SamePending, Held
  <2>3. CASE Expire(s)
    BY <2>3 DEF Expire, DelayedLeave, SamePending, Held
  <2>4. CASE NotSupported(s) \/ TakeLock(s) \/ PostponeStep(s)
    BY <2>1, <2>4 DEF NotSupported, TakeLock, PostponeStep, Postpone, Postponed, NoteGone, serverVars
  <2>5. CASE ShareScreen(s) \/ Deliver(s) \/ Age(s)
    BY <2>1, <2>5 DEF ShareScreen, Deliver, ShareRequest, Age, serverVars
  <2> QED BY <2>2, <2>3, <2>4, <2>5 DEF RefreshStep
<1> QED BY <1>1, <1>2 DEF RefreshStep, PostponeStep, NotSupported, TakeLock, RefreshCancel, RefreshSend,
           Postpone, Postponed, NoteGone, ShareScreen, Deliver, ShareRequest, Expire,
           DelayedLeave, Age

LEMMA OthersStay ==
    ASSUME TypeOK, NEW s \in Sessions, NEW t \in Sessions \ {s}, SessionStep(s)
    PROVE  Same(t) /\ SamePending(t) /\ mode' = mode
BY JoinOthers, LeaveOthers, LoopOthers, TaskOthers DEF SessionStep

LEMMA NothingHeldForNone ==
    ASSUME TypeOK, NEW s
    PROVE  ~Held(s, None)
BY DEF TypeOK, Held, Ids, None

LEMMA JoinShape ==
    ASSUME TypeOK, NEW s \in Sessions, Shape(s), Join(s) \/ JoinStep(s)
    PROVE  Shape(s)'
<1> ~Held(s, None)
  BY NothingHeldForNone
<1>1. CASE Join(s)
    BY <1>1 DEF Join, serverVars, delayVars, loopVars, postVars, taskVars, Shape, Joins,
     Held, Known, Sticky, Encrypted, TypeOK
<1>2. CASE \E o \in Outcomes : Schedule(s, o)
    BY <1>2, NewIds DEF Schedule, ScheduleRequest, Scheduled, delayVars, loopVars, postVars,
     taskVars, Shape, Joins, Held, Known, Sticky, Encrypted, TypeOK
<1>3. CASE \E o \in Outcomes : PublishJoin(s, o)
    BY <1>3 DEF PublishJoin, delayVars, loopVars, postVars, taskVars, Shape, Joins, Held,
     Known, Sticky, Encrypted, TypeOK
<1>4. CASE Provision(s)
    BY <1>4 DEF Provision, serverVars, delayVars, loopVars, postVars, taskVars, Shape,
     Joins, Held, Known, Sticky, Encrypted, TypeOK
<1>5. CASE Confirm(s)
    BY <1>5, DelayFacts DEF Confirm, serverVars, taskVars, Shape, Joins, Held, Known,
     Sticky, Encrypted, TypeOK
<1> QED BY <1>1, <1>2, <1>3, <1>4, <1>5 DEF JoinStep

LEMMA LeaveShape ==
    ASSUME TypeOK, NEW s \in Sessions, Shape(s), LeaveCall(s) \/ LeaveStep(s) \/ Crash(s)
    PROVE  Shape(s)'
<1> ~Held(s, None)
  BY NothingHeldForNone
<1>1. CASE LeaveCall(s)
    BY <1>1, NewIds DEF LeaveCall, AbandonRequest, DropLoops, ReleaseOfLoop, serverVars,
     taskVars, Shape, Joins, Held, Known, Sticky, Encrypted, TypeOK
<1>2. CASE TakeDelay(s)
    BY <1>2, DelayFacts DEF TakeDelay, serverVars, loopVars, postVars, taskVars, Shape,
     Joins, Held, Known, Sticky, Encrypted, TypeOK
<1>3. CASE \E o \in Outcomes : FireHangup(s, o)
    BY <1>3 DEF FireHangup, AfterFire, delayVars, loopVars, postVars, taskVars, Shape,
     Joins, Held, Known, Sticky, Encrypted, TypeOK
<1>4. CASE \E o \in Outcomes : SendLeft(s, o)
    BY <1>4 DEF SendLeft, AfterLeft, delayVars, loopVars, postVars, taskVars, Shape, Joins,
     Held, Known, Sticky, Encrypted, TypeOK
<1>5. CASE \E o \in Outcomes : CancelHangup(s, o)
    BY <1>5 DEF CancelHangup, CancelRequest, delayVars, loopVars, postVars, taskVars, Shape,
     Joins, Held, Known, Sticky, Encrypted, TypeOK
<1>6. CASE Crash(s)
    BY <1>6 DEF Crash, DropLoops, serverVars, Shape, Joins, Held, Known, Sticky, Encrypted,
     TypeOK
<1> QED BY <1>1, <1>2, <1>3, <1>4, <1>5, <1>6 DEF LeaveStep

LEMMA LoopShape ==
    ASSUME TypeOK, NEW s \in Sessions, Shape(s), LoopStep(s)
    PROVE  Shape(s)'
<1> ~Held(s, None)
  BY NothingHeldForNone
<1>1. CASE Refresh(s)
    BY <1>1 DEF Refresh, serverVars, callVars, delayVars, postVars, taskVars, Shape, Joins,
     Held, Known, Sticky, Encrypted, TypeOK
<1>2. CASE Ended(s) \/ EndedMidcall(s)
    BY <1>2
      DEF Ended, EndedMidcall, EndLoop, serverVars, delayVars, postVars, taskVars, Shape, Joins,
          Held, Known, Sticky, Encrypted, TypeOK
<1>3. CASE EndLost(s)
    BY <1>3 DEF EndLost, serverVars, delayVars, postVars, taskVars, Shape, Joins, Held,
     Known, Sticky, Encrypted, TypeOK
<1>4. CASE Renew(s)
    BY <1>4 DEF Renew, serverVars, callVars, postVars, taskVars, Shape, Joins, Held, Known,
     Sticky, Encrypted, TypeOK
<1>5. CASE NotDue(s)
    BY <1>5 DEF NotDue, EndTurn, serverVars, callVars, delayVars, postVars, Shape, Joins,
     Held, Known, Sticky, Encrypted, TypeOK
<1>6. CASE Protect(s)
    BY <1>6 DEF Protect, serverVars, callVars, postVars, taskVars, Shape, Joins, Held,
     Known, Sticky, Encrypted, TypeOK
<1>7. CASE ProtectGone(s)
    BY <1>7 DEF ProtectGone, serverVars, postVars, taskVars, Shape, Joins, Held, Known,
     Sticky, Encrypted, TypeOK
<1>8. CASE \E o \in Outcomes : FollowFocus(s, o)
    BY <1>8 DEF FollowFocus, callVars, delayVars, postVars, taskVars, Shape, Joins, Held,
     Known, Sticky, Encrypted, TypeOK
<1>9. CASE \E o \in Outcomes : Restore(s, o)
    <2> PICK o \in Outcomes : Restore(s, o)
    BY <1>9
  <2>1. /\ Scheduled(s, o) \in Ids \cup {None}
        /\ Delayed => NewId(s) \in Ids /\ asked[s] # NewId(s)
    BY NewIds, ScheduleTypes DEF Restore, ScheduleRequest, Known
  <2>2. delay[s].id = None /\ ~Held(s, asked[s])
    BY DEF Restore, Shape
  <2>3. ~Held(s, asked[s])'
    BY <2>1, <2>2 DEF Restore, ScheduleRequest, Held, callVars, postVars, taskVars
  <2>4. phase[s] \in {"live", "hangup"} /\ delay[s].active
    BY DEF Restore, Shape
  <2>5. \/ delay'[s] = delay[s]
        \/ delay'[s] = [id |-> Scheduled(s, o), active |-> delay[s].active, lost |-> FALSE]
    BY DEF Restore, TypeOK
  <2> QED BY <2>1, <2>2, <2>3, <2>4, <2>5
    DEF Restore, callVars, postVars, taskVars, Shape, Sticky, Encrypted, TypeOK
<1>10. CASE \E o \in Outcomes : Protected(s, o)
    BY <1>10 DEF Protected, serverVars, callVars, postVars, taskVars, Shape, Joins, Held,
     Known, Sticky, Encrypted, TypeOK
<1>11. CASE \E o \in Outcomes : PublishRenewal(s, o)
    BY <1>11 DEF PublishRenewal, EndTurn, callVars, delayVars, postVars, Shape, Joins, Held,
     Known, Sticky, Encrypted, TypeOK
<1> QED BY <1>1, <1>2, <1>3, <1>4, <1>5, <1>6, <1>7, <1>8, <1>9, <1>10, <1>11 DEF LoopStep

LEMMA TaskShape ==
    ASSUME TypeOK, NEW s \in Sessions, Shape(s), RefreshStep(s) \/ PostponeStep(s)
           \/ ShareScreen(s) \/ Deliver(s) \/ Expire(s) \/ Age(s)
    PROVE  Shape(s)'
<1> ~Held(s, None)
  BY NothingHeldForNone
<1>0. CASE NotSupported(s)
    BY <1>0 DEF NotSupported, serverVars, callVars, delayVars, loopVars, postVars,
     Shape, Joins, Held, Known, Sticky, Encrypted, TypeOK
<1>1. CASE TakeLock(s)
    BY <1>1 DEF TakeLock, Closed, serverVars, callVars, delayVars, loopVars, postVars,
     Shape, Joins, Held, Known, Sticky, Encrypted, TypeOK
<1>2. CASE \E o \in Outcomes : RefreshCancel(s, o)
  <2> PICK o \in Outcomes : RefreshCancel(s, o)
    BY <1>2
  <2>1. phase[s] \in {"live", "hangup"} /\ delay[s].active /\ delay[s].id # None
    BY DEF RefreshCancel, Shape
  <2>2. pending' \in {pending, pending \ {<<s, delay[s].id>>}}
    BY DEF RefreshCancel, CancelRequest
  <2>3. CASE o = "ok" /\ Held(s, delay[s].id)
    <3>1. pending' = pending \ {<<s, delay[s].id>>}
      BY <2>3 DEF RefreshCancel, CancelRequest, Reached
    <3>2. ~Held(s, asked[s])'
      BY <3>1 DEF RefreshCancel, Shape, Held, postVars
    <3>3. delay'[s] = [id |-> None, active |-> delay[s].active, lost |-> TRUE]
      BY <2>3 DEF RefreshCancel, TypeOK
    <3> QED BY <2>1, <2>3, <3>2, <3>3
            DEF RefreshCancel, callVars, loopVars, postVars, taskVars, Shape, Sticky, Encrypted,
                TypeOK
  <2>4. CASE ~(o = "ok" /\ Held(s, delay[s].id))
    <3>1. Held(s, asked[s])' => Held(s, asked[s])
      BY <2>2 DEF RefreshCancel, Held, postVars
    <3> QED BY <2>1, <2>4, <3>1
            DEF RefreshCancel, callVars, loopVars, postVars, taskVars, Shape, Sticky, Encrypted,
                TypeOK
  <2> QED BY <2>3, <2>4
<1>3. CASE \E o \in Outcomes : RefreshSend(s, o)
    <2> PICK o \in Outcomes : RefreshSend(s, o)
    BY <1>3
  <2>1. /\ Scheduled(s, o) \in Ids \cup {None}
        /\ Delayed => NewId(s) \in Ids /\ asked[s] # NewId(s)
    BY NewIds, ScheduleTypes DEF RefreshSend, ScheduleRequest, Known
  <2>2. delay[s].id = None /\ ~Held(s, asked[s])
    BY DEF RefreshSend, Shape
  <2>3. ~Held(s, asked[s])'
    BY <2>1, <2>2 DEF RefreshSend, ScheduleRequest, Held, callVars, loopVars, postVars, taskVars
  <2>4. phase[s] \in {"live", "hangup"} /\ delay[s].active
    BY DEF RefreshSend, Shape
  <2>5. \/ delay'[s] = delay[s]
        \/ delay'[s] = [id |-> Scheduled(s, o), active |-> delay[s].active, lost |-> FALSE]
    BY DEF RefreshSend, TypeOK
  <2> QED BY <2>1, <2>2, <2>3, <2>4, <2>5
    DEF RefreshSend, callVars, loopVars, postVars, taskVars, Shape, Sticky, Encrypted, TypeOK
<1>4. CASE Postpone(s)
    BY <1>4, DelayFacts DEF Postpone, serverVars, callVars, delayVars, loopVars, taskVars,
     Shape, Joins, Held, Known, Sticky, Encrypted, TypeOK
<1>5. CASE Postponed(s)
    BY <1>5 DEF Postponed, serverVars, callVars, delayVars, loopVars, taskVars, Shape,
     Joins, Held, Known, Sticky, Encrypted, TypeOK
<1>6. CASE NoteGone(s)
    BY <1>6 DEF NoteGone, SameDelay, serverVars, callVars, loopVars, taskVars, Shape, Joins,
     Held, Known, Sticky, Encrypted, TypeOK
<1>7. CASE ShareScreen(s)
    BY <1>7 DEF ShareScreen, serverVars, callVars, delayVars, loopVars, postVars, Shape,
     Joins, Held, Known, Sticky, Encrypted, TypeOK
<1>8. CASE Deliver(s)
    BY <1>8 DEF Deliver, ShareRequest, callVars, delayVars, loopVars, postVars, Shape,
     Joins, Held, Known, Sticky, Encrypted, TypeOK
<1>9. CASE Expire(s)
    BY <1>9 DEF Expire, DelayedLeave, callVars, delayVars, loopVars, postVars, taskVars,
     Shape, Joins, Held, Known, Sticky, Encrypted, TypeOK
<1>10. CASE Age(s)
    BY <1>10 DEF Age, serverVars, callVars, delayVars, postVars, taskVars, Shape, Joins,
     Held, Known, Sticky, Encrypted, TypeOK
<1> QED BY <1>0, <1>1, <1>2, <1>3, <1>4, <1>5, <1>6, <1>7, <1>8, <1>9, <1>10
  DEF RefreshStep, PostponeStep

LEMMA ShapesStep ==
    ASSUME TypeOK, Shapes, [Next]_vars
    PROVE  Shapes'
<1>1. CASE UNCHANGED vars
  BY <1>1 DEF Shapes, Shape, Held, Sticky, Encrypted, vars, serverVars, callVars, delayVars,
              loopVars, postVars, taskVars
<1>2. CASE Sync
  BY <1>2 DEF Sync, Shapes, Shape, Held, Sticky, Encrypted, serverVars, callVars, delayVars,
              loopVars, postVars, taskVars
<1>3. CASE \E s \in Sessions : SessionStep(s)
  <2> PICK s \in Sessions : SessionStep(s)
    BY <1>3
  <2>1. Shape(s)'
    BY JoinShape, LeaveShape, LoopShape, TaskShape DEF SessionStep, Shapes
  <2>2. ASSUME NEW t \in Sessions \ {s}
        PROVE  Shape(t)'
    <3>1. Same(t) /\ SamePending(t) /\ mode' = mode /\ Shape(t)
      BY OthersStay DEF Shapes
    <3>2. TypeOK'
      BY TypeStep
    <3>3. Held(t, asked[t])' => Held(t, asked[t])
      <4>1. Held(t, asked[t])' => asked'[t] \in Ids
        BY <3>2 DEF Held, TypeOK
      <4> QED BY <3>1, <4>1 DEF Same, SamePending, Held
    <3> QED BY <3>1, <3>3 DEF Shape, Same, Sticky, Encrypted
  <2> QED BY <2>1, <2>2 DEF Shapes
<1> QED BY <1>1, <1>2, <1>3 DEF Next

LEMMA ShapesInit == Init => Shapes
BY DEF Init, Shapes, Shape, Held

LEMMA ShapesAlways == Spec => [](TypeOK /\ Shapes)
<1>1. Init => TypeOK /\ Shapes
  BY TypeInit, ShapesInit
<1>2. TypeOK /\ Shapes /\ [Next]_vars => (TypeOK /\ Shapes)'
  BY TypeStep, ShapesStep
<1> QED BY <1>1, <1>2, PTL DEF Spec

\* The variables keep to their types: the mutex, the loops and the tasks of a
\* call to their places, and the counters to their bounds.
THEOREM TypeCorrect == Spec => []TypeOK
BY ShapesAlways, PTL

\* After hang_up took the delay id no refresh that still waits for the mutex
\* schedules a delayed leave again, whatever order the tasks run in.
THEOREM ClosedStaysClosed == Spec => []ClosedForGood
<1>1. Shapes => ClosedForGood
  BY DEF Shapes, Shape, ClosedForGood, Over
<1> QED BY <1>1, ShapesAlways, PTL

-----------------------------------------------------------------------------
(* Forgotten delayed leaves                                                *)

\* What a step of s forgets is what it or its server forgot before, or x.
ForgetsOnly(s, x) ==
    \A i \in Ids \ {x} :
        Held(s, i)' /\ i \notin Known(s)' => Held(s, i) /\ i \notin Known(s)

ForgetsNothing(s) == ForgetsOnly(s, None)
PaidFor(s) ==
    \/ ForgetsNothing(s) /\ faults' >= faults
    \/ faults' = faults + 1 /\ \E x \in Ids : ForgetsOnly(s, x)
    \/ /\ faults' = faults /\ s \notin Left /\ s \in Left'
       /\ \E x \in Ids : ForgetsOnly(s, x)

LEMMA NothingScheduled ==
    ASSUME NEW s \in Sessions, NEW x, pending' \subseteq pending,
           \A i \in Ids \ {x} : i \in Known(s) /\ Held(s, i)' => i \in Known(s)'
    PROVE  ForgetsOnly(s, x)
BY DEF ForgetsOnly, Held

LEMMA JoinForgets ==
    ASSUME TypeOK, NEW s \in Sessions, Shape(s), Join(s) \/ JoinStep(s)
    PROVE  PaidFor(s)
<1> faults \in Nat
  BY Constants DEF TypeOK
<1>1. CASE Join(s)
    BY <1>1 DEF Join, serverVars, delayVars, loopVars, postVars, taskVars, PaidFor,
     ForgetsNothing, ForgetsOnly, Request, Fault, Fine, Shape, Joins, Held, Known, TypeOK,
     Left, PublishRequest, LeftRequest
<1>2. CASE \E o \in Outcomes : Schedule(s, o)
    BY <1>2, NewIds DEF Schedule, ScheduleRequest, Scheduled, delayVars, loopVars, postVars,
     taskVars, PaidFor, ForgetsNothing, ForgetsOnly, Request, Fault, Fine, Shape, Joins,
     Held, Known, TypeOK, Left, PublishRequest, LeftRequest
<1>3. CASE \E o \in Outcomes : PublishJoin(s, o)
    BY <1>3 DEF PublishJoin, delayVars, loopVars, postVars, taskVars, PaidFor,
     ForgetsNothing, ForgetsOnly, Request, Fault, Fine, Shape, Joins, Held, Known, TypeOK,
     Left, PublishRequest, LeftRequest
<1>4. CASE Provision(s)
    BY <1>4 DEF Provision, serverVars, delayVars, loopVars, postVars, taskVars, PaidFor,
     ForgetsNothing, ForgetsOnly, Request, Fault, Fine, Shape, Joins, Held, Known, TypeOK,
     Left, PublishRequest, LeftRequest
<1>5. CASE Confirm(s)
    BY <1>5, DelayFacts DEF Confirm, serverVars, taskVars, PaidFor, ForgetsNothing,
     ForgetsOnly, Request, Fault, Fine, Shape, Joins, Held, Known, TypeOK, Left,
     PublishRequest, LeftRequest
<1> QED BY <1>1, <1>2, <1>3, <1>4, <1>5 DEF JoinStep

LEMMA LeaveForgets ==
    ASSUME TypeOK, NEW s \in Sessions, Shape(s), LeaveCall(s) \/ LeaveStep(s) \/ Crash(s)
    PROVE  PaidFor(s)
<1> faults \in Nat
  BY Constants DEF TypeOK
<1>1. CASE LeaveCall(s)
  <2>1. Known(s)' = {delay[s].id, hold[s], None} /\ faults' = faults
    BY <1>1 DEF LeaveCall, DropLoops, Known, TypeOK
  <2>2. \A i \in Ids : i \in Known(s) /\ Held(s, i) => i \in Known(s)'
    BY <2>1 DEF Known, Shape
  <2>3. s \notin Left /\ s \in Left'
    BY <1>1 DEF LeaveCall, Left, TypeOK
  <2>4. CASE pending' = pending
    <3>1. ForgetsOnly(s, None)
      BY <2>2, <2>4 DEF ForgetsOnly, Held
    <3> QED BY <2>1, <3>1 DEF PaidFor, ForgetsNothing
  <2>5. CASE Unused(s) # {} /\ pending' = pending \cup {<<s, NewId(s)>>}
    <3>1. ForgetsOnly(s, NewId(s)) /\ NewId(s) \in Ids
      BY <2>2, <2>5, NewIds DEF ForgetsOnly, Held
    <3> QED BY <2>1, <2>3, <3>1 DEF PaidFor
  <2> QED BY <1>1, <2>4, <2>5 DEF LeaveCall, AbandonRequest, serverVars
<1>2. CASE TakeDelay(s)
    BY <1>2, DelayFacts DEF TakeDelay, serverVars, loopVars, postVars, taskVars, PaidFor,
     ForgetsNothing, ForgetsOnly, Request, Fault, Fine, Shape, Joins, Held, Known, TypeOK,
     Left, PublishRequest, LeftRequest
<1>3. CASE \E o \in Outcomes : FireHangup(s, o)
  <2> PICK o \in Outcomes : FireHangup(s, o)
    BY <1>3
  <2>1. /\ pending' \in {pending, pending \ {<<s, hold[s]>>}}
        /\ faults' = IF o = "ok" THEN faults ELSE faults + 1
    BY RequestFaults DEF FireHangup
  <2>2. Known(s)' = {delay[s].id, None, asked[s]}
    BY DEF FireHangup, Known, TypeOK, delayVars, postVars
  <2>3. ForgetsOnly(s, hold[s])
    BY <2>1, <2>2, NothingScheduled DEF Known
  <2>4. CASE o = "ok"
    <3>1. <<s, hold[s]>> \notin pending'
      BY <2>4 DEF FireHangup, Reached, Held
    <3>2. ForgetsOnly(s, None)
      BY <2>3, <3>1 DEF ForgetsOnly, Held
    <3> QED BY <2>1, <2>4, <3>2 DEF PaidFor, ForgetsNothing
  <2>5. CASE o # "ok"
    BY <2>1, <2>3, <2>5 DEF PaidFor, ForgetsNothing, TypeOK
  <2> QED BY <2>4, <2>5
<1>4. CASE \E o \in Outcomes : SendLeft(s, o)
    BY <1>4 DEF SendLeft, AfterLeft, delayVars, loopVars, postVars, taskVars, PaidFor,
     ForgetsNothing, ForgetsOnly, Request, Fault, Fine, Shape, Joins, Held, Known, TypeOK,
     Left, PublishRequest, LeftRequest
<1>5. CASE \E o \in Outcomes : CancelHangup(s, o)
  <2> PICK o \in Outcomes : CancelHangup(s, o)
    BY <1>5
  <2>1. /\ pending' \in {pending, pending \ {<<s, hold[s]>>}}
        /\ faults' = IF o = "ok" THEN faults ELSE faults + 1
    BY RequestFaults DEF CancelHangup, CancelRequest
  <2>2. Known(s)' = {delay[s].id, None, asked[s]}
    BY DEF CancelHangup, Known, TypeOK, delayVars, postVars
  <2>3. ForgetsOnly(s, hold[s])
    BY <2>1, <2>2, NothingScheduled DEF Known
  <2>4. CASE o = "ok"
    <3>1. pending' = pending \ {<<s, hold[s]>>}
      BY <2>4 DEF CancelHangup, CancelRequest, Reached
    <3>2. ForgetsOnly(s, None)
      BY <2>3, <3>1 DEF ForgetsOnly, Held
    <3> QED BY <2>1, <2>4, <3>2 DEF PaidFor, ForgetsNothing
  <2>5. CASE o # "ok"
    BY <2>1, <2>3, <2>5 DEF PaidFor, ForgetsNothing, TypeOK
  <2> QED BY <2>4, <2>5
<1>6. CASE Crash(s)
  <2>1. faults' = faults + 1 /\ pending' = pending
    BY <1>6 DEF Crash, Fault, serverVars
  <2>2. hold[s] = None \/ delay[s].id = None
    BY DEF Shape, Joins
  <2>3. PICK x \in Ids \cup {None} :
            \A i \in Ids : i \in Known(s) /\ Held(s, i) => i = x
    <3>1. CASE hold[s] = None
      BY <3>1, DelayFacts DEF Known, Shape, Ids, None
    <3>2. CASE delay[s].id = None
      BY <3>2 DEF Known, Shape, Ids, None, TypeOK
    <3> QED BY <2>2, <3>1, <3>2
  <2>4. ForgetsOnly(s, x)
    BY <2>1, <2>3 DEF ForgetsOnly, Held
  <2> QED BY <2>1, <2>4 DEF PaidFor, ForgetsNothing
<1> QED BY <1>1, <1>2, <1>3, <1>4, <1>5, <1>6 DEF LeaveStep

LEMMA LoopForgets ==
    ASSUME TypeOK, NEW s \in Sessions, Shape(s), LoopStep(s)
    PROVE  PaidFor(s)
<1> faults \in Nat
  BY Constants DEF TypeOK
<1>1. CASE Refresh(s)
    BY <1>1 DEF Refresh, serverVars, callVars, delayVars, postVars, taskVars, PaidFor,
     ForgetsNothing, ForgetsOnly, Request, Fault, Fine, Shape, Joins, Held, Known, TypeOK,
     Left, PublishRequest, LeftRequest
<1>2. CASE Ended(s) \/ EndedMidcall(s)
    BY <1>2
      DEF Ended, EndedMidcall, EndLoop, serverVars, delayVars, postVars, taskVars, PaidFor,
          ForgetsNothing, ForgetsOnly, Request, Fault, Fine, Shape, Joins, Held, Known, TypeOK,
          Left, PublishRequest, LeftRequest
<1>3. CASE EndLost(s)
    BY <1>3 DEF EndLost, serverVars, delayVars, postVars, taskVars, PaidFor, ForgetsNothing,
     ForgetsOnly, Request, Fault, Fine, Shape, Joins, Held, Known, TypeOK, Left,
     PublishRequest, LeftRequest
<1>4. CASE Renew(s)
    BY <1>4 DEF Renew, serverVars, callVars, postVars, taskVars, PaidFor, ForgetsNothing,
     ForgetsOnly, Request, Fault, Fine, Shape, Joins, Held, Known, TypeOK, Left,
     PublishRequest, LeftRequest
<1>5. CASE NotDue(s)
    BY <1>5 DEF NotDue, EndTurn, serverVars, callVars, delayVars, postVars, PaidFor,
     ForgetsNothing, ForgetsOnly, Request, Fault, Fine, Shape, Joins, Held, Known, TypeOK,
     Left, PublishRequest, LeftRequest
<1>6. CASE Protect(s)
    BY <1>6 DEF Protect, serverVars, callVars, postVars, taskVars, PaidFor, ForgetsNothing,
     ForgetsOnly, Request, Fault, Fine, Shape, Joins, Held, Known, TypeOK, Left,
     PublishRequest, LeftRequest
<1>7. CASE ProtectGone(s)
  <2>1. pending' = pending /\ faults' = faults /\ ~Held(s, delay[s].id)
    BY <1>7 DEF ProtectGone, serverVars
  <2>2. Known(s)' = {None, hold[s], asked[s]}
    BY <1>7 DEF ProtectGone, Known, TypeOK, postVars
  <2>3. ForgetsOnly(s, None)
    BY <2>1, <2>2 DEF ForgetsOnly, Known, Held
  <2> QED BY <2>1, <2>3 DEF PaidFor, ForgetsNothing
<1>8. CASE \E o \in Outcomes : FollowFocus(s, o)
    BY <1>8 DEF FollowFocus, callVars, delayVars, postVars, taskVars, PaidFor,
     ForgetsNothing, ForgetsOnly, Request, Fault, Fine, Shape, Joins, Held, Known, TypeOK,
     Left, PublishRequest, LeftRequest
<1>9. CASE \E o \in Outcomes : Restore(s, o)
    BY <1>9, NewIds DEF Restore, ScheduleRequest, Scheduled, callVars, postVars, taskVars, PaidFor,
     ForgetsNothing, ForgetsOnly, Request, Fault, Fine, Shape, Joins, Held, Known, TypeOK,
     Left, PublishRequest, LeftRequest
<1>10. CASE \E o \in Outcomes : Protected(s, o)
    BY <1>10 DEF Protected, serverVars, callVars, postVars, taskVars, PaidFor,
     ForgetsNothing, ForgetsOnly, Request, Fault, Fine, Shape, Joins, Held, Known, TypeOK,
     Left, PublishRequest, LeftRequest
<1>11. CASE \E o \in Outcomes : PublishRenewal(s, o)
    BY <1>11 DEF PublishRenewal, EndTurn, callVars, delayVars, postVars, PaidFor,
     ForgetsNothing, ForgetsOnly, Request, Fault, Fine, Shape, Joins, Held, Known, TypeOK,
     Left, PublishRequest, LeftRequest
<1> QED BY <1>1, <1>2, <1>3, <1>4, <1>5, <1>6, <1>7, <1>8, <1>9, <1>10, <1>11 DEF LoopStep

LEMMA TaskForgets ==
    ASSUME TypeOK, NEW s \in Sessions, Shape(s), RefreshStep(s) \/ PostponeStep(s)
           \/ ShareScreen(s) \/ Deliver(s) \/ Expire(s) \/ Age(s)
    PROVE  PaidFor(s)
<1> faults \in Nat
  BY Constants DEF TypeOK
<1>0. CASE NotSupported(s)
    BY <1>0 DEF NotSupported, serverVars, callVars, delayVars, loopVars, postVars,
     PaidFor, ForgetsNothing, ForgetsOnly, Request, Fault, Fine, Shape, Joins, Held, Known,
     TypeOK, Left, PublishRequest, LeftRequest
<1>1. CASE TakeLock(s)
    BY <1>1 DEF TakeLock, Closed, serverVars, callVars, delayVars, loopVars, postVars,
     PaidFor, ForgetsNothing, ForgetsOnly, Request, Fault, Fine, Shape, Joins, Held, Known,
     TypeOK, Left, PublishRequest, LeftRequest
<1>2. CASE \E o \in Outcomes : RefreshCancel(s, o)
  <2> PICK o \in Outcomes : RefreshCancel(s, o)
    BY <1>2
  <2>1. /\ pending' \in {pending, pending \ {<<s, delay[s].id>>}}
        /\ faults' >= faults
    BY RequestFaults DEF RefreshCancel, CancelRequest
  <2>2. \A i \in Ids : i \in Known(s) /\ Held(s, i)' => i \in Known(s)'
    <3>1. CASE o = "ok" /\ Held(s, delay[s].id)
      <4>1. pending' = pending \ {<<s, delay[s].id>>}
        BY <3>1 DEF RefreshCancel, CancelRequest, Reached
      <4>2. Known(s)' = {None, hold[s], asked[s]}
        BY <3>1 DEF RefreshCancel, Known, TypeOK, callVars, postVars
      <4> QED BY <4>1, <4>2 DEF Known, Held
    <3>2. CASE ~(o = "ok" /\ Held(s, delay[s].id))
      BY <3>2 DEF RefreshCancel, Known, callVars, postVars
    <3> QED BY <3>1, <3>2
  <2>3. ForgetsOnly(s, None)
    BY <2>1, <2>2, NothingScheduled
  <2> QED BY <2>1, <2>3 DEF PaidFor, ForgetsNothing
<1>3. CASE \E o \in Outcomes : RefreshSend(s, o)
    BY <1>3, NewIds DEF RefreshSend, ScheduleRequest, Scheduled, callVars, loopVars, postVars,
     taskVars, PaidFor, ForgetsNothing, ForgetsOnly, Request, Fault, Fine, Shape, Joins,
     Held, Known, TypeOK, Left, PublishRequest, LeftRequest
<1>4. CASE Postpone(s)
  <2>1. pending' = pending /\ faults' = faults
    BY <1>4 DEF Postpone, serverVars
  <2>2. Known(s)' = {delay[s].id, hold[s]}
    BY <1>4 DEF Postpone, Known, TypeOK, callVars, delayVars
  <2>3. \A i \in Ids : i \in Known(s) /\ Held(s, i) => i \in Known(s)'
    BY <2>2 DEF Known, Shape
  <2>4. ForgetsOnly(s, None)
    BY <2>1, <2>3 DEF ForgetsOnly, Held
  <2> QED BY <2>1, <2>4 DEF PaidFor, ForgetsNothing
<1>5. CASE Postponed(s)
    BY <1>5 DEF Postponed, serverVars, callVars, delayVars, loopVars, taskVars, PaidFor,
     ForgetsNothing, ForgetsOnly, Request, Fault, Fine, Shape, Joins, Held, Known, TypeOK,
     Left, PublishRequest, LeftRequest
<1>6. CASE NoteGone(s)
  <2>1. pending' = pending /\ faults' = faults /\ ~Held(s, asked[s])
    BY <1>6 DEF NoteGone, Shape, serverVars
  <2>2. \/ Known(s)' = {delay[s].id, hold[s], None}
        \/ Known(s)' = {None, hold[s]} /\ delay[s].id = asked[s]
    BY <1>6 DEF NoteGone, SameDelay, Known, TypeOK, callVars
  <2>3. ForgetsOnly(s, None)
    BY <2>1, <2>2 DEF ForgetsOnly, Known, Held
  <2> QED BY <2>1, <2>3 DEF PaidFor, ForgetsNothing
<1>7. CASE ShareScreen(s)
    BY <1>7 DEF ShareScreen, serverVars, callVars, delayVars, loopVars, postVars, PaidFor,
     ForgetsNothing, ForgetsOnly, Request, Fault, Fine, Shape, Joins, Held, Known, TypeOK,
     Left, PublishRequest, LeftRequest
<1>8. CASE Deliver(s)
    BY <1>8 DEF Deliver, ShareRequest, callVars, delayVars, loopVars, postVars, PaidFor,
     ForgetsNothing, ForgetsOnly, Request, Fault, Fine, Shape, Joins, Held, Known, TypeOK,
     Left, PublishRequest, LeftRequest
<1>9. CASE Expire(s)
    BY <1>9 DEF Expire, DelayedLeave, callVars, delayVars, loopVars, postVars, taskVars,
     PaidFor, ForgetsNothing, ForgetsOnly, Request, Fault, Fine, Shape, Joins, Held, Known,
     TypeOK, Left, PublishRequest, LeftRequest
<1>10. CASE Age(s)
    BY <1>10 DEF Age, serverVars, callVars, delayVars, postVars, taskVars, PaidFor,
     ForgetsNothing, ForgetsOnly, Request, Fault, Fine, Shape, Joins, Held, Known, TypeOK,
     Left, PublishRequest, LeftRequest
<1> QED BY <1>0, <1>1, <1>2, <1>3, <1>4, <1>5, <1>6, <1>7, <1>8, <1>9, <1>10
  DEF RefreshStep, PostponeStep

LEMMA StepForgets ==
    ASSUME TypeOK, Shapes, NEW s \in Sessions, SessionStep(s)
    PROVE  PaidFor(s)
BY JoinForgets, LeaveForgets, LoopForgets, TaskForgets DEF SessionStep, Shapes

\* A call that is over, or about to be, stays so.
LEMMA LeftStays ==
    ASSUME TypeOK, NEW s \in Sessions, SessionStep(s), s \in Left
    PROVE  s \in Left'
<1>1. CASE Join(s) \/ JoinStep(s)
  BY <1>1 DEF Join, JoinStep, Schedule, PublishJoin, Provision, Confirm, Left
<1>2. CASE LeaveCall(s) \/ LeaveStep(s) \/ Crash(s)
  BY <1>2 DEF LeaveCall, LeaveStep, TakeDelay, FireHangup, SendLeft, CancelHangup, Crash, AfterFire,
              AfterLeft, Left, TypeOK
<1>3. CASE LoopStep(s)
  BY <1>3
    DEF LoopStep, Refresh, Ended, EndedMidcall, EndLoop, EndLost, Renew, NotDue, Protect,
        ProtectGone, FollowFocus, Restore, Protected, PublishRenewal, Left, callVars
<1>4. CASE RefreshStep(s) \/ PostponeStep(s) \/ ShareScreen(s)
  BY <1>4
    DEF RefreshStep, NotSupported, TakeLock, RefreshCancel, RefreshSend, PostponeStep, Postpone,
        Postponed, NoteGone, ShareScreen, Left, callVars
<1>5. CASE Deliver(s) \/ Expire(s) \/ Age(s)
  BY <1>5 DEF Deliver, ShareRequest, Expire, DelayedLeave, Age, Left, callVars
<1> QED BY <1>1, <1>2, <1>3, <1>4, <1>5 DEF SessionStep

LEMMA Finite ==
    ASSUME NEW F, NEW L, F \subseteq Sessions \X Ids, L \subseteq Sessions
    PROVE  /\ IsFiniteSet(F) /\ IsFiniteSet(L)
           /\ Cardinality(F) \in Nat /\ Cardinality(L) \in Nat
<1>1. IsFiniteSet(Sessions) /\ IsFiniteSet(Ids)
  BY Constants, FS_Interval DEF Sessions, Ids
<1>2. IsFiniteSet(Sessions \X Ids)
  BY <1>1, FS_Product
<1>3. IsFiniteSet(F) /\ IsFiniteSet(L)
  BY <1>1, <1>2, FS_Subset
<1> QED BY <1>3, FS_CardinalityType

\* The count of the forgotten, step by step.
LEMMA ForgottenStep ==
    ASSUME TypeOK, Shapes, ForgottenAreCounted, NEW s \in Sessions, SessionStep(s)
    PROVE  ForgottenAreCounted'
<1>1. TypeOK'
  BY TypeStep DEF Next
<1>2. \A t \in Sessions \ {s} : Same(t) /\ SamePending(t)
  BY OthersStay
<1>3. ASSUME NEW x \in Ids \cup {None}, ForgetsOnly(s, x)
      PROVE  Forgotten' \subseteq Forgotten \cup {<<s, x>>}
  <2> SUFFICES ASSUME NEW p \in Forgotten', p # <<s, x>>
               PROVE  p \in Forgotten
    OBVIOUS
  <2>1. PICK t \in Sessions, i \in Ids : p = <<t, i>>
    BY <1>1 DEF Forgotten, TypeOK
  <2>2. Held(t, i)' /\ i \notin Known(t)'
    BY <2>1 DEF Forgotten, Held
  <2>3. Held(t, i) /\ i \notin Known(t)
    <3>1. CASE t = s
      BY <1>3, <2>1, <2>2, <3>1 DEF ForgetsOnly
    <3>2. CASE t # s
      BY <1>2, <2>2, <3>2 DEF Same, SamePending, Known
    <3> QED BY <3>1, <3>2
  <2> QED BY <2>1, <2>3 DEF Forgotten, Held
<1>4. Left \subseteq Left'
  <2> SUFFICES ASSUME NEW t \in Left
               PROVE  t \in Left'
    OBVIOUS
  <2>1. CASE t = s
    BY <2>1, LeftStays
  <2>2. CASE t # s
    BY <1>2, <2>2 DEF Left, Same
  <2> QED BY <2>1, <2>2
<1>5. /\ IsFiniteSet(Forgotten) /\ IsFiniteSet(Left) /\ IsFiniteSet(Left')
      /\ IsFiniteSet(Forgotten') /\ Cardinality(Forgotten') \in Nat
      /\ Cardinality(Forgotten) \in Nat /\ Cardinality(Left) \in Nat
      /\ Cardinality(Left') \in Nat /\ Cardinality(Left) <= Cardinality(Left')
      /\ faults \in Nat /\ faults' \in Nat
  <2>1. /\ IsFiniteSet(Forgotten') /\ IsFiniteSet(Left')
        /\ Cardinality(Forgotten') \in Nat /\ Cardinality(Left') \in Nat
    <3>1. Forgotten' \subseteq Sessions \X Ids /\ Left' \subseteq Sessions
      BY <1>1 DEF Forgotten, Left, TypeOK
    <3> QED BY <3>1, Finite
  <2>2. Cardinality(Left) <= Cardinality(Left')
    BY <1>4, <2>1, FS_Subset
  <2>3. Forgotten \subseteq Sessions \X Ids /\ Left \subseteq Sessions
    BY DEF Forgotten, Left, TypeOK
  <2>4. /\ IsFiniteSet(Forgotten) /\ IsFiniteSet(Left)
        /\ Cardinality(Forgotten) \in Nat /\ Cardinality(Left) \in Nat
    BY <2>3, Finite
  <2>5. faults \in Nat /\ faults' \in Nat
    BY <1>1, Constants DEF TypeOK
  <2> QED BY <2>1, <2>2, <2>4, <2>5
<1>6. CASE ForgetsNothing(s) /\ faults' >= faults
  <2>1. Forgotten' \subseteq Forgotten
    <3>1. Forgotten' \subseteq Forgotten \cup {<<s, None>>}
      BY <1>3, <1>6 DEF ForgetsNothing
    <3>2. <<s, None>> \notin Forgotten'
      BY <1>1 DEF Forgotten, TypeOK, Ids, None
    <3> QED BY <3>1, <3>2
  <2>2. Cardinality(Forgotten') <= Cardinality(Forgotten)
    BY <1>5, <2>1, FS_Subset
  <2> QED BY <1>5, <1>6, <2>2 DEF ForgottenAreCounted
<1>7. ASSUME NEW x \in Ids, ForgetsOnly(s, x)
      PROVE  Cardinality(Forgotten') <= Cardinality(Forgotten) + 1
  <2>1. Forgotten' \subseteq Forgotten \cup {<<s, x>>}
    BY <1>3, <1>7
  <2>2. /\ IsFiniteSet(Forgotten \cup {<<s, x>>})
        /\ \/ Cardinality(Forgotten \cup {<<s, x>>}) = Cardinality(Forgotten)
           \/ Cardinality(Forgotten \cup {<<s, x>>}) = Cardinality(Forgotten) + 1
    BY <1>5, FS_AddElement
  <2>3. Cardinality(Forgotten') <= Cardinality(Forgotten \cup {<<s, x>>})
    BY <2>1, <2>2, FS_Subset
  <2> QED BY <1>5, <2>2, <2>3
<1>8. CASE faults' = faults + 1 /\ \E x \in Ids : ForgetsOnly(s, x)
  BY <1>5, <1>7, <1>8 DEF ForgottenAreCounted
<1>9. CASE /\ faults' = faults /\ s \notin Left /\ s \in Left'
           /\ \E x \in Ids : ForgetsOnly(s, x)
  <2>1. Cardinality(Left \cup {s}) = Cardinality(Left) + 1 /\ IsFiniteSet(Left \cup {s})
    BY <1>5, <1>9, FS_AddElement
  <2>2. Left \cup {s} \subseteq Left'
    BY <1>4, <1>9
  <2>3. Cardinality(Left \cup {s}) <= Cardinality(Left')
    BY <1>5, <2>2, FS_Subset
  <2> QED BY <1>5, <1>7, <1>9, <2>1, <2>3 DEF ForgottenAreCounted
<1> QED BY <1>6, <1>8, <1>9, StepForgets DEF PaidFor

\* Every delayed leave the server holds and nobody remembers is paid for by a
\* failure, or by the end of a call that dropped its loop on the way.
THEOREM ForgottenArePaidFor == Spec => []ForgottenAreCounted
<1>1. Init => ForgottenAreCounted
  <2> SUFFICES ASSUME Init
               PROVE  ForgottenAreCounted
    OBVIOUS
  <2>1. Forgotten = {} /\ Left = {} /\ faults = 0
    BY DEF Init, Forgotten, Left
  <2> QED BY <2>1, FS_EmptySet DEF ForgottenAreCounted
<1>2. TypeOK /\ Shapes /\ ForgottenAreCounted /\ [Next]_vars => ForgottenAreCounted'
  <2> SUFFICES ASSUME TypeOK, Shapes, ForgottenAreCounted, [Next]_vars
               PROVE  ForgottenAreCounted'
    OBVIOUS
  <2>1. CASE UNCHANGED vars \/ Sync
    <3>1. /\ pending' = pending /\ faults' = faults /\ phase' = phase
          /\ delay' = delay /\ hold' = hold /\ asked' = asked
      BY <2>1 DEF Sync, vars, serverVars, callVars, delayVars, postVars
    <3> QED BY <3>1 DEF ForgottenAreCounted, Forgotten, Left, Known
  <2>2. CASE \E s \in Sessions : SessionStep(s)
    BY <2>2, ForgottenStep
  <2> QED BY <2>1, <2>2 DEF Next
<1> QED BY <1>1, <1>2, ShapesAlways, PTL DEF Spec

-----------------------------------------------------------------------------
(* Ghosts                                                                  *)

\* Where the documented limits do not apply: a screen share that is answered
\* late brings a membership back, and a crash between the cancel and the send
\* of a refresh leaves none pending.
Plain == ~mode.sharing /\ ~(Delayed /\ Sticky /\ Encrypted /\ mode.crashing)

\* What went wrong; that the server has no delayed events counts for one.
Lacking == IF Delayed THEN 0 ELSE 1
Troubles == faults + Lacking

\* A joined slot nothing is pending for, and a slot no call is in.
Exposed(x) == x \in joined /\ \A p \in pending : Slot(p[1]) # x
IdlePhases == {"none", "schedule", "gone"}
Idle(x) == \A s \in Sessions : Slot(s) = x => phase[s] \in IdlePhases

\* One call after the other.
Alone == \A s, t \in Sessions : s < t /\ phase[t] # "none" => phase[s] = "gone"

\* A call has its delayed leave pending, or something went wrong, or a refresh
\* is about to send a new one.
Covered(s) ==
    /\ phase[s] \in Joins => Held(s, hold[s]) \/ Troubles >= 1
    /\ phase[s] = "live" => Held(s, delay[s].id) \/ Troubles >= 1 \/ lock[s] = "send"
    /\ phase[s] \in {"hangup", "fire", "left"} /\ Exposed(Slot(s)) =>
          Troubles >= 1 \/ lock[s] = "send"
    /\ phase[s] = "cancel" => Slot(s) \notin joined
    /\ publishing[s] = 0

CallsCovered == \A s \in Sessions : Covered(s)
IdleTakesTwo == \A x \in Sessions : Exposed(x) /\ Idle(x) => Troubles >= 2

IInv ==
    /\ TypeOK
    /\ Shapes
    /\ Alone
    /\ Plain => CallsCovered /\ IdleTakesTwo

LEMMA Phases ==
    ASSUME TypeOK, NEW s \in Sessions, SessionStep(s)
    PROVE  /\ phase[s] = "gone" => phase'[s] = "gone"
           /\ phase[s] # "none" => phase'[s] # "none"
           /\ phase'[s] = "schedule" => phase[s] \in {"none", "schedule"}
           /\ phase[s] = "none" /\ phase'[s] # "none" => \A t \in 1 .. s - 1 : phase[t] = "gone"
<1>1. CASE Join(s) \/ JoinStep(s)
  BY <1>1 DEF Join, JoinStep, Schedule, PublishJoin, Provision, Confirm, TypeOK
<1>2. CASE LeaveCall(s) \/ LeaveStep(s) \/ Crash(s)
  BY <1>2 DEF LeaveCall, LeaveStep, TakeDelay, FireHangup, SendLeft, CancelHangup, Crash, AfterFire,
              AfterLeft, TypeOK
<1>3. CASE LoopStep(s)
  BY <1>3
    DEF LoopStep, Refresh, Ended, EndedMidcall, EndLoop, EndLost, Renew, NotDue, Protect,
        ProtectGone, FollowFocus, Restore, Protected, PublishRenewal, callVars
<1>4. CASE RefreshStep(s) \/ PostponeStep(s) \/ ShareScreen(s)
  BY <1>4
    DEF RefreshStep, NotSupported, TakeLock, RefreshCancel, RefreshSend, PostponeStep, Postpone,
        Postponed, NoteGone, ShareScreen, callVars
<1>5. CASE Deliver(s) \/ Expire(s) \/ Age(s)
  BY <1>5 DEF Deliver, ShareRequest, Expire, DelayedLeave, Age, callVars
<1> QED BY <1>1, <1>2, <1>3, <1>4, <1>5 DEF SessionStep

LEMMA AloneStep ==
    ASSUME TypeOK, Alone, NEW s \in Sessions, SessionStep(s)
    PROVE  Alone'
<1> SUFFICES ASSUME NEW a \in Sessions, NEW b \in Sessions, a < b, phase'[b] # "none"
             PROVE  phase'[a] = "gone"
  BY DEF Alone
<1>1. \A t \in Sessions \ {s} : phase'[t] = phase[t]
  BY OthersStay DEF Same
<1>2. CASE b = s
  <2>1. a \in 1 .. s - 1
    BY <1>2, Constants DEF Sessions
  <2> QED BY <1>1, <1>2, <2>1, Phases DEF Alone
<1>3. CASE b # s
  BY <1>1, <1>3, Phases DEF Alone
<1> QED BY <1>2, <1>3

-----------------------------------------------------------------------------
(* What a step shows of a slot                                             *)

LEMMA HeldHides ==
    ASSUME NEW s, NEW i, Held(s, i)
    PROVE  ~Exposed(Slot(s))
BY DEF Held, Exposed

LEMMA HeldHidesNext ==
    ASSUME NEW s, NEW i, <<s, i>> \in pending'
    PROVE  ~Exposed(Slot(s))'
BY DEF Exposed, Slot, Sticky

LEMMA ServerStays ==
    ASSUME mode' = mode, UNCHANGED serverVars, NEW s
    PROVE  /\ Exposed(Slot(s))' = Exposed(Slot(s)) /\ Slot(s)' = Slot(s)
           /\ \A i : (<<s, i>> \in pending') = Held(s, i)
           /\ joined' = joined
BY DEF Exposed, Slot, Sticky, Held, serverVars

LEMMA StepKeepsMode ==
    ASSUME NEW s \in Sessions, SessionStep(s)
    PROVE  mode' = mode
<1>1. CASE Join(s) \/ JoinStep(s)
  BY <1>1 DEF Join, JoinStep, Schedule, PublishJoin, Provision, Confirm
<1>2. CASE LeaveCall(s) \/ LeaveStep(s) \/ Crash(s)
  BY <1>2 DEF LeaveCall, LeaveStep, TakeDelay, FireHangup, SendLeft, CancelHangup, Crash
<1>3. CASE LoopStep(s)
  BY <1>3
    DEF LoopStep, Refresh, Ended, EndedMidcall, EndLoop, EndLost, Renew, NotDue, Protect,
        ProtectGone, FollowFocus, Restore, Protected, PublishRenewal
<1>4. CASE RefreshStep(s) \/ PostponeStep(s) \/ ShareScreen(s)
  BY <1>4
    DEF RefreshStep, NotSupported, TakeLock, RefreshCancel, RefreshSend, PostponeStep, Postpone,
        Postponed, NoteGone, ShareScreen
<1>5. CASE Deliver(s) \/ Expire(s) \/ Age(s)
  BY <1>5 DEF Deliver, ShareRequest, Expire, DelayedLeave, Age
<1> QED BY <1>1, <1>2, <1>3, <1>4, <1>5 DEF SessionStep

LEMMA FaultsGrow ==
    ASSUME TypeOK, NEW s \in Sessions, SessionStep(s), Shape(s)
    PROVE  /\ faults \in Nat /\ faults' \in Nat /\ faults' >= faults
           /\ Troubles \in Nat /\ Troubles' \in Nat /\ Troubles' >= Troubles
           /\ Troubles >= faults /\ Troubles' >= faults'
           /\ ~Delayed => Troubles >= 1
           /\ faults' = faults + 1 => Troubles' = Troubles + 1
<1>1. faults \in Nat
  BY Constants DEF TypeOK
<1>2. PaidFor(s)
  BY JoinForgets, LeaveForgets, LoopForgets, TaskForgets DEF SessionStep
<1>3. faults' \in Nat
  BY TypeStep, Constants DEF TypeOK, Next
<1>4. faults' >= faults
  BY <1>1, <1>2, <1>3 DEF PaidFor
<1>5. Lacking \in Nat /\ Lacking' = Lacking /\ (~Delayed => Lacking = 1)
  BY StepKeepsMode DEF Lacking, Delayed
<1>6. ASSUME NEW f \in Nat, NEW g \in Nat, NEW l \in Nat, g >= f
      PROVE  /\ f + l \in Nat /\ g + l \in Nat /\ g + l >= f + l
             /\ f + l >= f /\ g + l >= g
             /\ l = 1 => f + l >= 1
             /\ g = f + 1 => g + l = f + l + 1
  BY <1>6
<1>7. Troubles = faults + Lacking /\ Troubles' = faults' + Lacking
  BY <1>5 DEF Troubles
<1>8. /\ faults + Lacking \in Nat /\ faults' + Lacking \in Nat
      /\ faults' + Lacking >= faults + Lacking
      /\ faults + Lacking >= faults /\ faults' + Lacking >= faults'
      /\ Lacking = 1 => faults + Lacking >= 1
      /\ faults' = faults + 1 => faults' + Lacking = faults + Lacking + 1
  BY <1>1, <1>3, <1>4, <1>5, <1>6, Zenon
<1> QED BY <1>1, <1>3, <1>4, <1>5, <1>7, <1>8, Zenon

\* A step of s changes the slot of s alone.
LEMMA JoinedMoves ==
    ASSUME NEW s \in Sessions, SessionStep(s)
    PROVE  joined' \in {joined, joined \cup {Slot(s)}, joined \ {Slot(s)}}
<1>1. CASE Join(s) \/ JoinStep(s)
  BY <1>1 DEF Join, JoinStep, Schedule, PublishJoin, PublishRequest, Enter, Provision, Confirm,
              serverVars
<1>2. CASE LeaveCall(s) \/ LeaveStep(s) \/ Crash(s)
  BY <1>2 DEF LeaveCall, AbandonRequest, LeaveStep, TakeDelay, FireHangup, SendLeft, LeftRequest,
              CancelHangup, Crash, Enter, Exit, serverVars
<1>3. CASE LoopStep(s)
  <2>1. CASE \E o \in Outcomes : FollowFocus(s, o) \/ PublishRenewal(s, o)
    BY <2>1 DEF FollowFocus, PublishRenewal, PublishRequest, Enter
  <2>2. CASE UNCHANGED joined
    BY <2>2
  <2>3. CASE Refresh(s) \/ Ended(s) \/ EndedMidcall(s) \/ EndLost(s) \/ Renew(s) \/ NotDue(s)
    BY <2>2, <2>3 DEF Refresh, Ended, EndedMidcall, EndLoop, EndLost, Renew, NotDue, serverVars
  <2>4. CASE Protect(s) \/ ProtectGone(s) \/ \E o \in Outcomes : Restore(s, o) \/ Protected(s, o)
    BY <2>2, <2>4 DEF Protect, ProtectGone, Restore, Protected, serverVars
  <2> QED BY <1>3, <2>1, <2>3, <2>4 DEF LoopStep
<1>4. CASE RefreshStep(s) \/ PostponeStep(s) \/ ShareScreen(s)
  BY <1>4
    DEF RefreshStep, NotSupported, TakeLock, RefreshCancel, RefreshSend, PostponeStep, Postpone,
        Postponed, NoteGone, ShareScreen, serverVars
<1>5. CASE Deliver(s) \/ Expire(s) \/ Age(s)
  BY <1>5 DEF Deliver, ShareRequest, PublishRequest, Expire, DelayedLeave, Age, Enter, Exit,
              serverVars
<1> QED BY <1>1, <1>2, <1>3, <1>4, <1>5 DEF SessionStep

LEMMA OtherSlots ==
    ASSUME TypeOK, NEW s \in Sessions, SessionStep(s), NEW x, x # Slot(s)
    PROVE  Exposed(x)' = Exposed(x) /\ (x \in joined' <=> x \in joined)
<1>1. mode' = mode /\ \A t \in Sessions \ {s} : SamePending(t)
  BY OthersStay, StepKeepsMode
<1>2. x \in joined' <=> x \in joined
  BY JoinedMoves
<1>3. \A p : p[1] # s => (p \in pending' <=> p \in pending)
  <2>1. pending' \subseteq Sessions \X Ids /\ pending \subseteq Sessions \X Ids
    BY TypeStep DEF TypeOK, Next
  <2> QED BY <1>1, <2>1 DEF SamePending, Held
<1>4. \A t : Slot(t)' = Slot(t)
  BY <1>1 DEF Slot, Sticky
<1> QED BY <1>2, <1>3, <1>4 DEF Exposed

\* Before and after a call, only the server acts on its slot.
LEMMA QuietSteps ==
    ASSUME TypeOK, NEW s \in Sessions, Shape(s), SessionStep(s), publishing[s] = 0,
           phase[s] \in IdlePhases
    PROVE  /\ joined' \subseteq joined
           /\ \/ phase[s] = "schedule" /\ phase'[s] = "publish"
              \/ Exposed(Slot(s))' => Exposed(Slot(s))
<1>1. CASE mode' = mode /\ UNCHANGED serverVars
  BY <1>1, ServerStays
<1>2. CASE Join(s) \/ Crash(s)
  BY <1>1, <1>2 DEF Join, Crash
<1>3. CASE \E o \in Outcomes : Schedule(s, o)
  BY <1>3 DEF Schedule, TypeOK
<1>4. CASE LoopStep(s) \/ PostponeStep(s)
  BY <1>4
    DEF LoopStep, Refresh, Ended, EndedMidcall, EndLoop, EndLost, Renew, NotDue, Protect,
        ProtectGone, FollowFocus, Restore, Protected, PublishRenewal, PostponeStep, Postpone,
        Postponed, NoteGone, Shape, IdlePhases
<1>5. CASE RefreshStep(s)
  <2>1. NotSupported(s) \/ TakeLock(s)
    BY <1>5 DEF RefreshStep, RefreshCancel, RefreshSend, Shape, IdlePhases
  <2> QED BY <1>1, <2>1 DEF NotSupported, TakeLock
<1>6. CASE Expire(s)
  <2>1. mode' = mode /\ joined' = joined \ {Slot(s)}
    BY <1>6 DEF Expire, DelayedLeave, Exit
  <2> QED BY <2>1 DEF Exposed, Slot, Sticky
<1>7. phase[s] \notin {"publish", "provision", "confirm", "live", "hangup", "fire", "left", "cancel"}
  BY DEF IdlePhases
<1>8. ~Deliver(s) /\ ~LeaveCall(s) /\ ~LeaveStep(s) /\ ~ShareScreen(s) /\ ~Age(s)
  BY <1>7 DEF Deliver, ShareRequest, LeaveCall, LeaveStep, TakeDelay, FireHangup, SendLeft,
              CancelHangup, ShareScreen, Age
<1>9. JoinStep(s) => \E o \in Outcomes : Schedule(s, o)
  BY <1>7 DEF JoinStep, PublishJoin, Provision, Confirm
<1> QED BY <1>2, <1>3, <1>4, <1>5, <1>6, <1>8, <1>9 DEF SessionStep

-----------------------------------------------------------------------------
(* A call stays covered                                                    *)

LEMMA Undisturbed ==
    ASSUME NEW s \in Sessions, Covered(s), mode' = mode, UNCHANGED serverVars,
           Troubles \in Nat, Troubles' \in Nat, Troubles' >= Troubles,
           phase'[s] = phase[s], hold'[s] = hold[s], delay'[s].id = delay[s].id,
           publishing'[s] = publishing[s], lock[s] = "send" => lock'[s] = "send"
    PROVE  Covered(s)'
<1>1. /\ Exposed(Slot(s))' = Exposed(Slot(s)) /\ Slot(s)' = Slot(s) /\ joined' = joined
      /\ \A i : (<<s, i>> \in pending') = Held(s, i)
  BY ServerStays
<1> QED BY <1>1 DEF Covered, Held

LEMMA JoinCovered ==
    ASSUME TypeOK, NEW s \in Sessions, Shape(s), Plain, Covered(s), Join(s) \/ JoinStep(s)
    PROVE  Covered(s)'
<1>0. /\ faults \in Nat /\ faults' \in Nat /\ faults' >= faults
      /\ Troubles \in Nat /\ Troubles' \in Nat /\ Troubles' >= Troubles
      /\ Troubles >= faults /\ Troubles' >= faults'
      /\ ~Delayed => Troubles >= 1
      /\ faults' = faults + 1 => Troubles' = Troubles + 1
      /\ mode' = mode
      /\ ~Held(s, None)
  BY FaultsGrow, StepKeepsMode, NothingHeldForNone DEF SessionStep
<1>1. CASE Join(s)
    BY <1>0, <1>1, ServerStays DEF Join, delayVars, loopVars, postVars, taskVars, Covered,
     Shape, Joins, Held, TypeOK, Request, Fault, Fine
<1>2. CASE \E o \in Outcomes : Schedule(s, o)
  <2> PICK o \in Outcomes : Schedule(s, o)
    BY <1>2
  <2>1. /\ phase'[s] = "publish" /\ publishing' = publishing
        /\ hold'[s] = Scheduled(s, o)
    BY DEF Schedule, TypeOK, taskVars
  <2>2. CASE Delayed /\ o = "ok"
    <3>1. <<s, hold'[s]>> \in pending'
      BY <2>1, <2>2 DEF Schedule, ScheduleRequest, Scheduled, Reached
    <3> QED BY <1>0, <2>1, <3>1 DEF Covered, Held
  <2>0. CASE ~Delayed
    BY <1>0, <2>0, <2>1 DEF Covered
  <2>3. CASE o # "ok"
    <3>1. faults' = faults + 1
      BY <2>3 DEF Schedule, ScheduleRequest, Request, Fault
    <3> QED BY <1>0, <2>1, <3>1 DEF Covered
  <2> QED BY <2>0, <2>2, <2>3
<1>3. CASE \E o \in Outcomes : PublishJoin(s, o)
    BY <1>0, <1>3, HeldHidesNext DEF PublishJoin, delayVars, loopVars, postVars, taskVars,
     Covered, Shape, Joins, Held, TypeOK, Request, Fault, Fine
<1>4. CASE Provision(s)
  <2>1. CASE Fine /\ Become(s, "confirm")
    <3>1. /\ phase'[s] = "confirm" /\ hold' = hold /\ publishing' = publishing
          /\ UNCHANGED serverVars /\ phase[s] \in Joins
      BY <1>4, <2>1 DEF Provision, Joins, TypeOK, taskVars
    <3>2. <<s, hold'[s]>> \in pending' \/ Troubles' >= 1
      BY <1>0, <3>1 DEF Covered, Held, serverVars
    <3> QED BY <3>1, <3>2 DEF Covered, Held
  <2>2. CASE Fault /\ Become(s, "fire")
    <3>1. Troubles' >= 1 /\ phase'[s] = "fire" /\ publishing' = publishing
      BY <1>0, <1>4, <2>2 DEF Provision, Fault, TypeOK, taskVars
    <3> QED BY <3>1 DEF Covered, Joins
  <2> QED BY <1>4, <2>1, <2>2 DEF Provision
<1>5. CASE Confirm(s)
  <2>1. CASE Fine /\ Become(s, "live")
             /\ delay' = [delay EXCEPT ![s] = [id |-> hold[s], active |-> TRUE, lost |-> FALSE]]
    <3>1. phase'[s] = "live" /\ delay'[s].id = hold[s] /\ publishing' = publishing
      BY <1>5, <2>1 DEF Confirm, TypeOK, taskVars
    <3>2. Held(s, hold[s]) \/ Troubles >= 1
      BY <1>5 DEF Confirm, Covered, Joins
    <3>3. <<s, delay'[s].id>> \in pending' \/ Troubles' >= 1
      BY <1>0, <1>5, <3>1, <3>2 DEF Confirm, Held, serverVars
    <3> QED BY <3>1, <3>3 DEF Covered, Held, Joins
  <2>2. CASE Fault /\ Become(s, "fire")
    <3>1. Troubles' >= 1 /\ phase'[s] = "fire" /\ publishing' = publishing
      BY <1>0, <1>5, <2>2 DEF Confirm, Fault, TypeOK, taskVars
    <3> QED BY <3>1 DEF Covered, Joins
  <2> QED BY <1>5, <2>1, <2>2 DEF Confirm
<1> QED BY <1>1, <1>2, <1>3, <1>4, <1>5 DEF JoinStep

LEMMA LeaveCovered ==
    ASSUME TypeOK, NEW s \in Sessions, Shape(s), Plain, Covered(s),
           LeaveCall(s) \/ LeaveStep(s) \/ Crash(s)
    PROVE  Covered(s)'
<1>0. /\ faults \in Nat /\ faults' \in Nat /\ faults' >= faults
      /\ Troubles \in Nat /\ Troubles' \in Nat /\ Troubles' >= Troubles
      /\ Troubles >= faults /\ Troubles' >= faults'
      /\ ~Delayed => Troubles >= 1
      /\ faults' = faults + 1 => Troubles' = Troubles + 1
      /\ mode' = mode
      /\ ~Held(s, None)
  BY FaultsGrow, StepKeepsMode, NothingHeldForNone DEF SessionStep
<1>1. CASE LeaveCall(s)
    BY <1>0, <1>1, HeldHidesNext, NewIds DEF LeaveCall, AbandonRequest, DropLoops,
     ReleaseOfLoop, serverVars, taskVars, Covered, Shape, Joins, Held, TypeOK, Request,
     Fault, Fine
<1>2. CASE TakeDelay(s)
    BY <1>0, <1>2, ServerStays, DelayFacts DEF TakeDelay, loopVars, postVars, taskVars,
     Covered, Shape, Joins, Held, TypeOK, Request, Fault, Fine
<1>3. CASE \E o \in Outcomes : FireHangup(s, o)
  <2> PICK o \in Outcomes : FireHangup(s, o)
    BY <1>3
  <2>1. phase'[s] \in {"left", "gone"} /\ publishing' = publishing
    BY DEF FireHangup, AfterFire, TypeOK, taskVars
  <2>2. CASE Held(s, hold[s]) /\ Reached(o)
    <3>1. Slot(s)' \notin joined'
      BY <1>0, <2>2 DEF FireHangup, Slot, Sticky
    <3> QED BY <1>0, <2>1, <3>1 DEF Covered, Joins, Exposed
  <2>3. CASE o # "ok"
    <3>1. faults' >= 1
      BY <1>0, <2>3 DEF FireHangup, Request, Fault
    <3> QED BY <1>0, <2>1, <3>1 DEF Covered, Joins
  <2>4. CASE ~Held(s, hold[s])
    <3>1. UNCHANGED serverVars
      BY <2>4 DEF FireHangup, serverVars
    <3>2. Exposed(Slot(s))' = Exposed(Slot(s))
      BY <1>0, <3>1, ServerStays
    <3>3. Exposed(Slot(s)) => Troubles >= 1
      BY DEF FireHangup, Covered, Shape
    <3> QED BY <1>0, <2>1, <3>2, <3>3 DEF Covered, Joins
  <2> QED BY <2>2, <2>3, <2>4 DEF Reached
<1>4. CASE \E o \in Outcomes : SendLeft(s, o)
  <2> PICK o \in Outcomes : SendLeft(s, o)
    BY <1>4
  <2>1. phase'[s] \in {"cancel", "gone"} /\ publishing' = publishing
    BY DEF SendLeft, AfterLeft, TypeOK, taskVars
  <2>2. phase'[s] = "cancel" => o = "ok"
    BY DEF SendLeft, AfterLeft, TypeOK
  <2>3. o = "ok" => Slot(s)' \notin joined'
    BY <1>0 DEF SendLeft, LeftRequest, Reached, Exit, Slot, Sticky
  <2> QED BY <2>1, <2>2, <2>3 DEF Covered, Joins
<1>5. CASE \E o \in Outcomes : CancelHangup(s, o)
    BY <1>0, <1>5, HeldHidesNext DEF CancelHangup, CancelRequest, delayVars, loopVars,
     postVars, taskVars, Covered, Shape, Joins, Held, TypeOK, Request, Fault, Fine
<1>6. CASE Crash(s)
    BY <1>0, <1>6, HeldHidesNext DEF Crash, DropLoops, serverVars, Covered, Shape, Joins,
     Held, TypeOK, Request, Fault, Fine
<1> QED BY <1>1, <1>2, <1>3, <1>4, <1>5, <1>6 DEF LeaveStep

LEMMA LoopCovered ==
    ASSUME TypeOK, NEW s \in Sessions, Shape(s), Plain, Covered(s), LoopStep(s)
    PROVE  Covered(s)'
<1>0. /\ faults \in Nat /\ faults' \in Nat /\ faults' >= faults
      /\ Troubles \in Nat /\ Troubles' \in Nat /\ Troubles' >= Troubles
      /\ Troubles >= faults /\ Troubles' >= faults'
      /\ ~Delayed => Troubles >= 1
      /\ faults' = faults + 1 => Troubles' = Troubles + 1
      /\ mode' = mode
      /\ ~Held(s, None)
  BY FaultsGrow, StepKeepsMode, NothingHeldForNone DEF SessionStep
<1>1. CASE Refresh(s)
  BY <1>0, <1>1, Undisturbed DEF Refresh, callVars, delayVars, taskVars
<1>2. CASE Ended(s) \/ EndedMidcall(s)
  <2>1. EndLoop(s)
    BY <1>2 DEF Ended, EndedMidcall
  <2> QED BY <1>0, <2>1, Undisturbed DEF EndLoop, delayVars, taskVars
<1>3. CASE EndLost(s)
    BY <1>0, <1>3, ServerStays DEF EndLost, delayVars, postVars, taskVars, Covered, Shape,
     Joins, Held, TypeOK, Request, Fault, Fine
<1>4. CASE Renew(s)
    BY <1>0, <1>4, ServerStays DEF Renew, callVars, postVars, taskVars, Covered, Shape,
     Joins, Held, TypeOK, Request, Fault, Fine
<1>5. CASE NotDue(s)
    BY <1>0, <1>5, ServerStays DEF NotDue, EndTurn, callVars, delayVars, postVars, Covered,
     Shape, Joins, Held, TypeOK, Request, Fault, Fine
<1>6. CASE Protect(s)
    BY <1>0, <1>6, ServerStays DEF Protect, callVars, postVars, taskVars, Covered, Shape,
     Joins, Held, TypeOK, Request, Fault, Fine
<1>7. CASE ProtectGone(s)
    BY <1>0, <1>7, ServerStays DEF ProtectGone, postVars, taskVars, Covered, Shape, Joins,
     Held, TypeOK, Request, Fault, Fine
<1>8. CASE \E o \in Outcomes : FollowFocus(s, o)
    BY <1>0, <1>8, HeldHidesNext DEF FollowFocus, callVars, delayVars, postVars, taskVars,
     Covered, Shape, Joins, Held, TypeOK, Request, Fault, Fine
<1>9. CASE \E o \in Outcomes : Restore(s, o)
  <2> PICK o \in Outcomes : Restore(s, o)
    BY <1>9
  <2>1. phase'[s] = phase[s] /\ phase[s] \in {"live", "hangup"} /\ publishing' = publishing
    BY DEF Restore, Shape, callVars, taskVars
  <2>0. CASE ~Delayed
    BY <1>0, <2>0, <2>1 DEF Covered, Joins
  <2>2. CASE Delayed /\ o = "ok"
    <3>1. NewId(s) \in Ids
      BY <2>2, NewIds DEF Restore, ScheduleRequest
    <3>2. <<s, NewId(s)>> \in pending' /\ delay'[s].id = NewId(s)
      BY <2>2, <3>1 DEF Restore, ScheduleRequest, Scheduled, Reached, TypeOK, Ids, None
    <3>3. ~Exposed(Slot(s))'
      BY <3>2, HeldHidesNext
    <3> QED BY <2>1, <3>2, <3>3 DEF Covered, Held, Joins
  <2>3. CASE o # "ok"
    <3>1. faults' >= 1
      BY <1>0, <2>3 DEF Restore, ScheduleRequest, Request, Fault
    <3> QED BY <1>0, <2>1, <3>1 DEF Covered, Joins
  <2> QED BY <2>0, <2>2, <2>3
<1>10. CASE \E o \in Outcomes : Protected(s, o)
    BY <1>0, <1>10, ServerStays DEF Protected, callVars, postVars, taskVars, Covered, Shape,
     Joins, Held, TypeOK, Request, Fault, Fine
<1>11. CASE \E o \in Outcomes : PublishRenewal(s, o)
    BY <1>0, <1>11, HeldHidesNext DEF PublishRenewal, EndTurn, callVars, delayVars,
     postVars, Covered, Shape, Joins, Held, TypeOK, Request, Fault, Fine
<1> QED BY <1>1, <1>2, <1>3, <1>4, <1>5, <1>6, <1>7, <1>8, <1>9, <1>10, <1>11 DEF LoopStep

LEMMA TaskCovered ==
    ASSUME TypeOK, NEW s \in Sessions, Shape(s), Plain, Covered(s), RefreshStep(s) \/ PostponeStep(s)
           \/ ShareScreen(s) \/ Deliver(s) \/ Expire(s) \/ Age(s)
    PROVE  Covered(s)'
<1>0. /\ faults \in Nat /\ faults' \in Nat /\ faults' >= faults
      /\ Troubles \in Nat /\ Troubles' \in Nat /\ Troubles' >= Troubles
      /\ Troubles >= faults /\ Troubles' >= faults'
      /\ ~Delayed => Troubles >= 1
      /\ faults' = faults + 1 => Troubles' = Troubles + 1
      /\ mode' = mode
      /\ ~Held(s, None)
  BY FaultsGrow, StepKeepsMode, NothingHeldForNone DEF SessionStep
<1>11. CASE NotSupported(s)
  <2>1. /\ phase' = phase /\ hold' = hold /\ delay' = delay /\ lock' = lock
        /\ publishing' = publishing /\ UNCHANGED serverVars
    BY <1>11 DEF NotSupported, callVars, delayVars
  <2> QED BY <1>0, <2>1, Undisturbed
<1>1. CASE TakeLock(s)
  <2>1. /\ phase' = phase /\ hold' = hold /\ publishing' = publishing /\ UNCHANGED serverVars
        /\ lock[s] = "free"
    BY <1>1 DEF TakeLock, callVars
  <2>2. delay'[s].id = delay[s].id
    <3>1. CASE UNCHANGED delay
      BY <3>1
    <3>2. CASE delay[s].id = None /\ SetDelay(s, None, TRUE)
      BY <3>2 DEF TypeOK
    <3> QED BY <1>1, <3>1, <3>2 DEF TakeLock, delayVars
  <2> QED BY <1>0, <2>1, <2>2, Undisturbed
<1>2. CASE \E o \in Outcomes : RefreshCancel(s, o)
  <2> PICK o \in Outcomes : RefreshCancel(s, o)
    BY <1>2
  <2>1. phase'[s] = phase[s] /\ phase[s] \in {"live", "hangup"} /\ publishing' = publishing
    BY DEF RefreshCancel, Shape, callVars, taskVars
  <2>2. CASE o = "ok" /\ Held(s, delay[s].id)
    <3>1. lock'[s] = "send"
      BY <2>2 DEF RefreshCancel, TypeOK
    <3> QED BY <1>0, <2>1, <3>1 DEF Covered, Joins
  <2>3. CASE o # "ok"
    <3>1. faults' >= 1
      BY <1>0, <2>3 DEF RefreshCancel, CancelRequest, Request, Fault
    <3> QED BY <1>0, <2>1, <3>1 DEF Covered, Joins
  <2>4. CASE o = "ok" /\ ~Held(s, delay[s].id)
    <3>1. delay' = delay /\ hold' = hold
      BY <2>4 DEF RefreshCancel, callVars
    <3>2. UNCHANGED serverVars
      BY <2>4 DEF RefreshCancel, CancelRequest, Held, serverVars
    <3>3. lock[s] # "send"
      BY DEF RefreshCancel
    <3> QED BY <1>0, <2>1, <3>1, <3>2, <3>3, Undisturbed
  <2> QED BY <2>2, <2>3, <2>4
<1>3. CASE \E o \in Outcomes : RefreshSend(s, o)
  <2> PICK o \in Outcomes : RefreshSend(s, o)
    BY <1>3
  <2>1. phase'[s] = phase[s] /\ phase[s] \in {"live", "hangup"} /\ publishing' = publishing
    BY DEF RefreshSend, Shape, callVars, taskVars
  <2>0. CASE ~Delayed
    BY <1>0, <2>0, <2>1 DEF Covered, Joins
  <2>2. CASE Delayed /\ o = "ok"
    <3>1. NewId(s) \in Ids
      BY <2>2, NewIds DEF RefreshSend, ScheduleRequest
    <3>2. <<s, NewId(s)>> \in pending' /\ delay'[s].id = NewId(s)
      BY <2>2, <3>1 DEF RefreshSend, ScheduleRequest, Scheduled, Reached, TypeOK, Ids, None
    <3>3. ~Exposed(Slot(s))'
      BY <3>2, HeldHidesNext
    <3> QED BY <2>1, <3>2, <3>3 DEF Covered, Held, Joins
  <2>3. CASE o # "ok"
    <3>1. faults' >= 1
      BY <1>0, <2>3 DEF RefreshSend, ScheduleRequest, Request, Fault
    <3> QED BY <1>0, <2>1, <3>1 DEF Covered, Joins
  <2> QED BY <2>0, <2>2, <2>3
<1>4. CASE Postpone(s)
  BY <1>0, <1>4, Undisturbed DEF Postpone, callVars, delayVars, taskVars
<1>5. CASE Postponed(s)
    BY <1>0, <1>5, ServerStays DEF Postponed, callVars, delayVars, loopVars, taskVars,
     Covered, Shape, Joins, Held, TypeOK, Request, Fault, Fine
<1>6. CASE NoteGone(s)
  <2>1. /\ phase' = phase /\ phase[s] = "live" /\ publishing' = publishing /\ hold' = hold
        /\ lock' = lock /\ lock[s] = "free" /\ UNCHANGED serverVars
    BY <1>6 DEF NoteGone, Shape, callVars, taskVars
  <2>2. CASE SameDelay(s)
    <3>1. Troubles' >= 1
      BY <1>0, <1>6, <2>1, <2>2 DEF NoteGone, SameDelay, Shape, Covered
    <3> QED BY <1>0, <2>1, <3>1 DEF Covered, Joins
  <2>3. CASE ~SameDelay(s)
    <3>1. delay' = delay
      BY <1>6, <2>3 DEF NoteGone
    <3> QED BY <1>0, <2>1, <3>1, Undisturbed
  <2> QED BY <2>2, <2>3
<1>7. CASE ShareScreen(s)
  BY <1>7 DEF ShareScreen, Plain
<1>8. CASE Deliver(s)
    BY <1>0, <1>8, HeldHidesNext DEF Deliver, ShareRequest, callVars, delayVars, loopVars,
     postVars, Covered, Shape, Joins, Held, TypeOK, Request, Fault, Fine
<1>9. CASE Expire(s)
  <2> PICK i \in Ids : DelayedLeave(s, i)
    BY <1>9 DEF Expire
  <2>1. /\ phase' = phase /\ hold' = hold /\ delay' = delay /\ publishing' = publishing
    BY DEF DelayedLeave, callVars, delayVars, taskVars
  <2>2. Slot(s)' \notin joined' /\ ~Exposed(Slot(s))'
    BY <1>0 DEF DelayedLeave, Exit, Exposed, Slot, Sticky
  <2>3. CASE Kept(s, i)
    <3>1. faults' >= 1
      BY <1>0, <2>3 DEF DelayedLeave, Fault
    <3> QED BY <1>0, <2>1, <2>2, <3>1 DEF Covered
  <2>4. CASE ~Kept(s, i)
    <3>1. phase[s] \in Joins => hold[s] # i
      BY <2>4 DEF Kept, Joins
    <3>2. phase[s] = "live" => delay[s].id # i
      BY <2>4 DEF Kept
    <3>3. lock' = lock
      BY DEF DelayedLeave, delayVars
    <3>4. \A j : j # i => ((<<s, j>> \in pending') = Held(s, j))
      BY DEF DelayedLeave, Held
    <3> QED BY <1>0, <2>1, <2>2, <3>1, <3>2, <3>3, <3>4 DEF Covered, Held
  <2> QED BY <2>3, <2>4
<1>10. CASE Age(s)
    BY <1>0, <1>10, ServerStays DEF Age, callVars, delayVars, postVars, taskVars, Covered,
     Shape, Joins, Held, TypeOK, Request, Fault, Fine
<1> QED BY <1>1, <1>2, <1>3, <1>4, <1>5, <1>6, <1>7, <1>8, <1>9, <1>10, <1>11
  DEF RefreshStep, PostponeStep

LEMMA StillCovered ==
    ASSUME TypeOK, NEW s \in Sessions, Shape(s), Plain, Covered(s), SessionStep(s)
    PROVE  Covered(s)'
BY JoinCovered, LeaveCovered, LoopCovered, TaskCovered DEF SessionStep

\* A call that ends, and leaves its slot joined with nothing pending for it,
\* has had two failures.
LEMMA EndTakesTwo ==
    ASSUME TypeOK, NEW s \in Sessions, Shape(s), Plain, Covered(s), SessionStep(s),
           phase[s] \notin IdlePhases, phase'[s] = "gone", Exposed(Slot(s))'
    PROVE  Troubles' >= 2
<1>0. /\ faults \in Nat /\ faults' \in Nat /\ faults' >= faults
      /\ Troubles \in Nat /\ Troubles' \in Nat /\ Troubles' >= Troubles
      /\ Troubles >= faults /\ Troubles' >= faults'
      /\ ~Delayed => Troubles >= 1
      /\ faults' = faults + 1 => Troubles' = Troubles + 1
      /\ mode' = mode
  BY FaultsGrow, StepKeepsMode
<1>1. CASE Crash(s)
  <2>1. faults' = faults + 1 /\ UNCHANGED serverVars /\ mode.crashing
    BY <1>1 DEF Crash, Fault
  <2>2. ~Delayed \/ lock[s] # "send"
    BY <2>1 DEF Plain, Shape
  <2>3. Exposed(Slot(s))
    BY <1>0, <2>1, ServerStays
  <2>4. Troubles >= 1
    <3>0. SUFFICES ASSUME Delayed PROVE Troubles >= 1
      BY <1>0
    <3>1. CASE phase[s] \in Joins \cup {"live"}
      BY <2>2, <2>3, <3>0, <3>1, HeldHides DEF Covered
    <3>2. CASE phase[s] \in {"hangup", "fire", "left"}
      BY <2>2, <2>3, <3>0, <3>2 DEF Covered
    <3>3. CASE phase[s] = "cancel"
      BY <2>3, <3>3 DEF Covered, Exposed
    <3> QED BY <3>1, <3>2, <3>3 DEF TypeOK, IdlePhases, Joins
  <2> QED BY <1>0, <2>1, <2>4
<1>2. CASE \E o \in Outcomes : FireHangup(s, o)
  <2> PICK o \in Outcomes : FireHangup(s, o)
    BY <1>2
  <2>1. Held(s, hold[s]) /\ Reached(o)
    BY DEF FireHangup, AfterFire, Reached, TypeOK
  <2>2. Slot(s)' \notin joined'
    BY <1>0, <2>1 DEF FireHangup, Slot, Sticky
  <2> QED BY <2>2 DEF Exposed
<1>3. CASE \E o \in Outcomes : SendLeft(s, o)
  <2> PICK o \in Outcomes : SendLeft(s, o)
    BY <1>3
  <2>1. CASE o = "ok"
    <3>1. Slot(s)' \notin joined'
      BY <1>0, <2>1 DEF SendLeft, LeftRequest, Reached, Exit, Slot, Sticky
    <3> QED BY <3>1 DEF Exposed
  <2>2. CASE o # "ok"
    <3>1. faults' = faults + 1
      BY <2>2 DEF SendLeft, LeftRequest, Request, Fault
    <3>2. Exposed(Slot(s))
      BY <1>0 DEF SendLeft, LeftRequest, Exit, Exposed, Slot, Sticky
    <3>3. Troubles >= 1
      BY <3>2 DEF SendLeft, Covered, Shape
    <3> QED BY <1>0, <3>1, <3>3
  <2> QED BY <2>1, <2>2
<1>4. CASE \E o \in Outcomes : CancelHangup(s, o)
  <2>1. Slot(s)' \notin joined'
    BY <1>0, <1>4 DEF CancelHangup, Covered, Slot, Sticky
  <2> QED BY <2>1 DEF Exposed
<1>5. CASE Join(s) \/ JoinStep(s) \/ LeaveCall(s) \/ TakeDelay(s)
  BY <1>5 DEF Join, JoinStep, Schedule, PublishJoin, Provision, Confirm, LeaveCall, TakeDelay,
              TypeOK
<1>6. phase'[s] # phase[s]
  BY DEF IdlePhases
<1>7. ~LoopStep(s)
  BY <1>6
    DEF LoopStep, Refresh, Ended, EndedMidcall, EndLoop, EndLost, Renew, NotDue, Protect,
        ProtectGone, FollowFocus, Restore, Protected, PublishRenewal, callVars
<1>8. ~RefreshStep(s) /\ ~PostponeStep(s) /\ ~ShareScreen(s)
  BY <1>6
    DEF RefreshStep, NotSupported, TakeLock, RefreshCancel, RefreshSend, PostponeStep, Postpone,
        Postponed, NoteGone, ShareScreen, callVars
<1>9. ~Deliver(s) /\ ~Expire(s) /\ ~Age(s)
  BY <1>6 DEF Deliver, ShareRequest, Expire, DelayedLeave, Age, callVars
<1> QED BY <1>1, <1>2, <1>3, <1>4, <1>5, <1>7, <1>8, <1>9 DEF SessionStep, LeaveStep

\* The other calls of the slot are over, or have not begun, while one acts.
LEMMA OthersCovered ==
    ASSUME TypeOK, Shapes, Alone, CallsCovered, NEW s \in Sessions, SessionStep(s),
           NEW t \in Sessions \ {s}
    PROVE  Covered(t)'
<1>0. /\ faults \in Nat /\ faults' \in Nat /\ faults' >= faults
      /\ Troubles \in Nat /\ Troubles' \in Nat /\ Troubles' >= Troubles
      /\ Troubles >= faults /\ Troubles' >= faults'
      /\ ~Delayed => Troubles >= 1
      /\ faults' = faults + 1 => Troubles' = Troubles + 1
      /\ Slot(t)' = Slot(t) /\ Covered(t) /\ Covered(s) /\ Shape(s)
  BY FaultsGrow, StepKeepsMode DEF Shapes, CallsCovered, Slot, Sticky
<1>1. Same(t)
  BY OthersStay
<1>2. \A i \in Ids : Held(t, i) => <<t, i>> \in pending'
  BY OthersStay DEF SamePending, Held
<1>3. Held(t, hold[t]) => <<t, hold[t]>> \in pending'
  BY <1>2 DEF Held, TypeOK
<1>4. Held(t, delay[t].id) => <<t, delay[t].id>> \in pending'
  BY <1>2 DEF Held, TypeOK
<1>5. ASSUME phase[t] \in {"hangup", "fire", "left", "cancel"}
      PROVE  phase[s] \in {"none", "gone"}
  BY <1>5, Constants DEF Alone, Sessions
<1>6. ASSUME phase[t] \in {"hangup", "fire", "left"}, Exposed(Slot(t))'
      PROVE  Exposed(Slot(t))
  <2>1. CASE Slot(t) = Slot(s)
    <3>1. Exposed(Slot(s))'
      BY <1>0, <1>6, <2>1, StepKeepsMode DEF Slot, Sticky
    <3>2. phase[s] \in IdlePhases /\ phase[s] # "schedule" /\ publishing[s] = 0
      BY <1>0, <1>5, <1>6 DEF IdlePhases, Covered
    <3> QED BY <1>0, <2>1, <3>1, <3>2, QuietSteps
  <2>2. CASE Slot(t) # Slot(s)
    <3>1. Exposed(Slot(t))' => Exposed(Slot(t))
      BY <1>0, <2>2, OtherSlots, StepKeepsMode DEF Exposed, Slot, Sticky
    <3> QED BY <1>6, <3>1
  <2> QED BY <2>1, <2>2
<1>7. ASSUME phase[t] = "cancel"
      PROVE  Slot(t) \notin joined'
  <2>1. Slot(t) \notin joined /\ phase[s] \in {"none", "gone"} /\ publishing[s] = 0
    BY <1>0, <1>5, <1>7 DEF Covered
  <2>2. joined' \subseteq joined
    BY <1>0, <2>1, QuietSteps DEF IdlePhases
  <2> QED BY <2>1, <2>2
<1> QED BY <1>0, <1>1, <1>3, <1>4, <1>6, <1>7 DEF Covered, Same, Held

LEMMA IdleStep ==
    ASSUME TypeOK, Shapes, Plain, CallsCovered, IdleTakesTwo, NEW s \in Sessions, SessionStep(s)
    PROVE  IdleTakesTwo'
<1> SUFFICES ASSUME NEW x \in Sessions, Exposed(x)', Idle(x)'
             PROVE  Troubles' >= 2
  BY DEF IdleTakesTwo
<1>0. /\ faults \in Nat /\ faults' \in Nat /\ faults' >= faults
      /\ Troubles \in Nat /\ Troubles' \in Nat /\ Troubles' >= Troubles
      /\ Troubles >= faults /\ Troubles' >= faults'
      /\ ~Delayed => Troubles >= 1
      /\ faults' = faults + 1 => Troubles' = Troubles + 1
      /\ Covered(s) /\ Shape(s) /\ publishing[s] = 0
      /\ \A t \in Sessions : Slot(t)' = Slot(t) /\ Slot(t) \in Sessions
  BY FaultsGrow, StepKeepsMode, ModeFacts DEF Shapes, CallsCovered, Covered, Slot, Sticky
<1>1. \A t \in Sessions \ {s} : phase'[t] = phase[t]
  BY OthersStay DEF Same
<1>2. \A t \in Sessions \ {s} : Slot(t) = x => phase[t] \in IdlePhases
  BY <1>0, <1>1 DEF Idle
<1>3. CASE x # Slot(s)
  <2>1. Exposed(x) /\ Idle(x)
    BY <1>2, <1>3, OtherSlots DEF Idle
  <2> QED BY <1>0, <2>1 DEF IdleTakesTwo
<1>4. CASE x = Slot(s) /\ phase[s] \in IdlePhases
  <2>1. phase'[s] \in IdlePhases /\ Exposed(Slot(s))'
    BY <1>0, <1>4 DEF Idle, Exposed
  <2>2. Exposed(x)
    BY <1>0, <1>4, <2>1, QuietSteps DEF IdlePhases
  <2>3. Idle(x)
    BY <1>2, <1>4 DEF Idle
  <2> QED BY <1>0, <2>2, <2>3 DEF IdleTakesTwo
<1>5. CASE x = Slot(s) /\ phase[s] \notin IdlePhases
  <2>1. phase'[s] \in IdlePhases /\ Exposed(Slot(s))'
    BY <1>0, <1>5 DEF Idle, Exposed
  <2>2. phase'[s] = "gone"
    BY <1>5, <2>1, Phases DEF IdlePhases
  <2> QED BY <1>0, <1>5, <2>1, <2>2, EndTakesTwo
<1> QED BY <1>3, <1>4, <1>5

LEMMA InductiveInit == Init => IInv
<1> SUFFICES ASSUME Init
             PROVE  IInv
  OBVIOUS
<1>1. Alone /\ CallsCovered /\ IdleTakesTwo
  BY DEF Init, Alone, CallsCovered, Covered, IdleTakesTwo, Exposed, Joins
<1> QED BY <1>1, TypeInit, ShapesInit DEF IInv

LEMMA InductiveStep == IInv /\ [Next]_vars => IInv'
<1> SUFFICES ASSUME IInv, [Next]_vars
             PROVE  IInv'
  OBVIOUS
<1>1. TypeOK' /\ Shapes'
  BY TypeStep, ShapesStep DEF IInv
<1>2. CASE UNCHANGED vars \/ Sync
  <2>1. /\ mode' = mode /\ phase' = phase /\ hold' = hold /\ delay' = delay /\ lock' = lock
        /\ publishing' = publishing /\ faults' = faults /\ UNCHANGED serverVars
    BY <1>2 DEF Sync, vars, callVars, delayVars, taskVars
  <2>2. Alone' /\ (Plain' <=> Plain)
    BY <2>1 DEF IInv, Alone, Plain, Sticky, Encrypted, Delayed
  <2>3. CallsCovered => CallsCovered'
    BY <2>1
      DEF Troubles, Lacking, Delayed, CallsCovered, Covered, Exposed, Held, Slot, Sticky,
          serverVars
  <2>4. IdleTakesTwo => IdleTakesTwo'
    BY <2>1 DEF Troubles, Lacking, Delayed, IdleTakesTwo, Exposed, Idle, Slot, Sticky, serverVars
  <2> QED BY <1>1, <2>2, <2>3, <2>4 DEF IInv
<1>3. CASE \E s \in Sessions : SessionStep(s)
  <2> PICK s \in Sessions : SessionStep(s)
    BY <1>3
  <2>1. Alone'
    BY AloneStep DEF IInv
  <2>2. Plain' <=> Plain
    BY StepKeepsMode DEF Plain, Sticky, Encrypted, Delayed
  <2>3. ASSUME Plain
        PROVE  CallsCovered'
    <3>1. Covered(s)'
      BY <2>3, StillCovered DEF IInv, Shapes, CallsCovered
    <3>2. \A t \in Sessions \ {s} : Covered(t)'
      BY <2>3, OthersCovered DEF IInv
    <3> QED BY <3>1, <3>2 DEF CallsCovered
  <2>4. ASSUME Plain
        PROVE  IdleTakesTwo'
    BY <2>4, IdleStep DEF IInv
  <2> QED BY <1>1, <2>1, <2>2, <2>3, <2>4 DEF IInv
<1> QED BY <1>2, <1>3 DEF Next

\* The inductive invariant: calls are shaped as their phase says, one is on at a time,
\* and, where Plain, each has its delayed leave pending or a failure that explains why
\* not (join, renew_membership, refresh_managed_hangup, hang_up).
THEOREM Inductive == Spec => []IInv
BY InductiveInit, InductiveStep, PTL DEF Spec

\* Where the server has delayed events, no single failure, a lost request, an answer
\* lost, a stall or a crash, leaves a membership in the room that nothing will ever take
\* out, wherever it strikes, except where Plain says so; where it has none, nothing less
\* than a failure does (join, refresh_encrypted_hangup, restore_hangup, hang_up).
THEOREM GhostsTakeTwo == Spec => [](Plain => GhostTakesTwo)
<1>1. IInv => (Plain => GhostTakesTwo)
  <2> SUFFICES ASSUME IInv, Plain, NEW s \in Sessions, Ghost(s)
               PROVE  faults >= (IF Delayed THEN 2 ELSE 1)
    BY DEF GhostTakesTwo
  <2>1. Exposed(Slot(s)) /\ Slot(s) \in Sessions
    BY ModeFacts DEF Ghost, Exposed, IInv
  <2>2. Idle(Slot(s))
    BY DEF Ghost, Idle, IdlePhases
  <2>3. faults \in Nat
    BY Constants DEF IInv, TypeOK
  <2>4. Troubles >= 2
    BY <2>1, <2>2 DEF IInv, IdleTakesTwo
  <2> QED BY <2>3, <2>4 DEF Troubles, Lacking
<1> QED BY <1>1, Inductive, PTL
=============================================================================
