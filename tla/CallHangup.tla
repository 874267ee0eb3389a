------------------------------ MODULE CallHangup ------------------------------
(***************************************************************************)
(* One device in one call: its membership in the room, and the delayed     *)
(* leave that takes the membership out again when the device disappears.   *)
(* calls/runtime.rs (join, update loop, renewal, detached refresh of an    *)
(* encrypted delayed leave, screen sharing) and calls/mod.rs (hang_up, the *)
(* managed postpone loop).                                                 *)
(*                                                                         *)
(* Several tasks share DelayState under an async mutex: the update loop,   *)
(* the postpone loop, detached refreshes and hang_up.  `lock` names the    *)
(* task that holds the mutex across a request.  leave_call drops the two   *)
(* loops wherever they await; detached refreshes and a screen share update *)
(* live on.                                                                *)
(*                                                                         *)
(* A server that has no delayed events schedules no leave; then nothing    *)
(* takes out a membership that was left behind but its own expiry, which   *)
(* is hours away and not modelled.                                         *)
(*                                                                         *)
(* A request is answered, is lost on its way, or is carried out with the   *)
(* answer lost.  Time is not modelled: a delayed leave that somebody       *)
(* postpones fires only as a fault, any other one fires at some time.      *)
(***************************************************************************)
EXTENDS Integers, FiniteSets

CONSTANTS
    Modes,        \* the kinds of room and call a behaviour may be about
    MaxSession,   \* bound on the calls the device makes, one after the other
    MaxId,        \* bound on the delayed leaves of one call known at a time
    MaxFaults,    \* bound on lost requests, stalls and crashes
    MaxTasks      \* bound on the refreshes, and on the publishes, left running

ASSUME BoundsAssumption ==
    /\ {MaxSession, MaxId} \subseteq Nat \ {0}
    /\ {MaxFaults, MaxTasks} \subseteq Nat

Sessions == 1 .. MaxSession

\* sticky: Matrix2 mode, sticky events and a new member id per join; encrypted:
\* the room; delayed: whether the server has delayed events; sharing and crashing:
\* whether the screen share flag is ever published, the app ever killed; calls and
\* tasks: how many there are at most.
Mode == [sticky : BOOLEAN, encrypted : BOOLEAN, delayed : BOOLEAN, sharing : BOOLEAN,
         crashing : BOOLEAN, calls : Sessions, tasks : 0 .. MaxTasks]
ASSUME ModesAssumption == Modes \subseteq Mode

Ids == 1 .. MaxId
None == 0                                     \* an Option without a value
Outcomes == {"ok", "failed", "unanswered"}

VARIABLES
    mode,         \* the kind of this behaviour; it never changes
    joined,       \* membership slots whose latest event is a join, on the server
    pending,      \* delayed leaves the server holds: pairs <<session, id>>
    view,         \* joined, as the device last synced it
    faults,       \* how much went wrong so far
    phase,        \* where each call stands
    hold,         \* the delay id a join, or hang_up, carries
    delay,        \* DelayState
    lock,         \* what the task holding the DelayState mutex waits for
    ending,       \* whether the loop asked for leave_call (terminate)
    loop,         \* the update loop
    absent,       \* ... and whether its last refresh missed the membership
    observed,     \* State.own_observed
    old,          \* whether the call is past its first 30 seconds
    post,         \* the managed postpone loop
    asked,        \* ... and the id it asked the server to restart
    waiting,      \* detached refreshes that wait for the mutex
    publishing    \* membership publishes under way that no loop waits for

serverVars == <<joined, pending>>
callVars   == <<phase, hold, ending>>
delayVars  == <<delay, lock>>
loopVars   == <<loop, absent, observed, old>>
postVars   == <<post, asked>>
taskVars   == <<waiting, publishing>>
vars == <<mode, serverVars, view, faults, callVars, delayVars, loopVars, postVars,
          taskVars>>

Sticky == mode.sticky
Encrypted == mode.encrypted
Delayed == mode.delayed                       \* delayed_events_support().any()

TypeOK ==
    /\ mode \in Modes
    /\ joined \subseteq Sessions
    /\ pending \subseteq Sessions \X Ids
    /\ view \subseteq Sessions
    /\ faults \in 0 .. MaxFaults
    /\ phase \in [Sessions -> {"none", "schedule", "publish", "provision", "confirm",
                               "live", "hangup", "fire", "left", "cancel", "gone"}]
    /\ hold \in [Sessions -> Ids \cup {None}]
    /\ delay \in [Sessions -> [id : Ids \cup {None}, active : BOOLEAN, lost : BOOLEAN]]
    /\ lock \in [Sessions -> {"free", "restore", "protect", "cancel", "send"}]
    /\ loop \in [Sessions -> {"off", "wait", "follow", "renew", "restore", "due",
                              "protect", "publish"}]
    /\ {ending, absent, observed, old} \subseteq [Sessions -> BOOLEAN]
    /\ post \in [Sessions -> {"off", "sleep", "ask", "missing"}]
    /\ asked \in [Sessions -> Ids \cup {None}]
    /\ {waiting, publishing} \subseteq [Sessions -> 0 .. mode.tasks]

Init ==
    /\ mode \in Modes
    /\ joined = {} /\ pending = {} /\ view = {} /\ faults = 0
    /\ phase = [s \in Sessions |-> "none"]
    /\ hold = [s \in Sessions |-> None]
    /\ delay = [s \in Sessions |-> [id |-> None, active |-> FALSE, lost |-> FALSE]]
    /\ lock = [s \in Sessions |-> "free"]
    /\ loop = [s \in Sessions |-> "off"]
    /\ ending = [s \in Sessions |-> FALSE]
    /\ absent = [s \in Sessions |-> FALSE]
    /\ observed = [s \in Sessions |-> FALSE]
    /\ old = [s \in Sessions |-> FALSE]
    /\ post = [s \in Sessions |-> "off"]
    /\ asked = [s \in Sessions |-> None]
    /\ waiting = [s \in Sessions |-> 0]
    /\ publishing = [s \in Sessions |-> 0]

-----------------------------------------------------------------------------
(* Requests                                                                *)

\* The state event has one key per device, a sticky membership a fresh member
\* id per join.
Slot(s) == IF Sticky THEN s ELSE 1

Fault == faults < MaxFaults /\ faults' = faults + 1
Fine == UNCHANGED faults
Request(o) == IF o = "ok" THEN Fine ELSE Fault
Reached(o) == o # "failed"

Enter(s) == joined' = joined \cup {Slot(s)}
Exit(s) == joined' = joined \ {Slot(s)}

PublishRequest(s, o) ==
    /\ Request(o)
    /\ IF Reached(o) THEN Enter(s) ELSE UNCHANGED joined

LeftRequest(s, o) ==
    /\ Request(o)
    /\ IF Reached(o) THEN Exit(s) ELSE UNCHANGED joined

\* Ids are opaque and never come back; one that nobody remembers is used again
\* here to keep them few.
Known(s) == {delay[s].id, hold[s], asked[s]}
Unused(s) == {i \in Ids : i \notin Known(s) /\ <<s, i>> \notin pending}
NewId(s) == CHOOSE i \in Unused(s) : TRUE

\* Without delayed events, or when the server does not say whether it has them,
\* nothing is scheduled.
ScheduleRequest(s, o) ==
    /\ Delayed => Unused(s) # {}
    /\ Request(o)
    /\ pending' = IF Delayed /\ Reached(o) THEN pending \cup {<<s, NewId(s)>>} ELSE pending

ScheduledBlindly(s, o) == IF o = "ok" THEN NewId(s) ELSE None - 1
Scheduled(s, o) == IF Delayed /\ o = "ok" THEN NewId(s) ELSE None

\* Send and cancel of a delayed leave are refused when the server no longer
\* holds it.
Held(s, i) == <<s, i>> \in pending
CancelRequest(s, i, o) ==
    /\ Request(o)
    /\ pending' = IF Reached(o) THEN pending \ {<<s, i>>} ELSE pending

Become(s, where) == phase' = [phase EXCEPT ![s] = where]
Loop(s, where) == loop' = [loop EXCEPT ![s] = where]
Lock(s, what) == lock' = [lock EXCEPT ![s] = what]
SetDelay(s, i, lost) ==
    delay' = [delay EXCEPT ![s] = [id |-> i, active |-> delay[s].active, lost |-> lost]]

\* The server answered that it no longer holds the delayed leave.
LoseQuietly(s) == SetDelay(s, None, FALSE)
Lose(s) == SetDelay(s, None, TRUE)

-----------------------------------------------------------------------------
(* Joining                                                                 *)

Join(s) ==
    /\ phase[s] = "none"
    /\ s <= mode.calls
    /\ \A t \in 1 .. s - 1 : phase[t] = "gone"
    /\ Become(s, "schedule")
    /\ UNCHANGED <<mode, serverVars, view, faults, hold, ending, delayVars, loopVars, postVars,
                   taskVars>>

Schedule(s, o) ==
    /\ phase[s] = "schedule"
    /\ ScheduleRequest(s, o)
    /\ hold' = [hold EXCEPT ![s] = Scheduled(s, o)]
    /\ Become(s, "publish")
    /\ UNCHANGED <<mode, joined, view, ending, delayVars, loopVars, postVars, taskVars>>

PublishJoin(s, o) ==
    /\ phase[s] = "publish"
    /\ PublishRequest(s, o)
    /\ Become(s, IF o = "ok" THEN "provision" ELSE "fire")
    /\ UNCHANGED <<mode, pending, view, hold, ending, delayVars, loopVars, postVars, taskVars>>

\* The SFU grants a token for this identity.  A second publish that moves the
\* membership to another focus leaves the same slot joined.
Provision(s) ==
    /\ phase[s] = "provision"
    /\ \/ Fine /\ Become(s, "confirm")
       \/ Fault /\ Become(s, "fire")
    /\ UNCHANGED <<mode, serverVars, view, hold, ending, delayVars, loopVars, postVars, taskVars>>

\* confirm_join, and the tasks the call gets.
Confirm(s) ==
    /\ phase[s] = "confirm"
    /\ \/ /\ Fine
          /\ Become(s, "live")
          /\ hold' = [hold EXCEPT ![s] = None]
          /\ delay' = [delay EXCEPT ![s] = [id |-> hold[s], active |-> TRUE, lost |-> FALSE]]
          /\ Loop(s, "wait")
          /\ post' = [post EXCEPT ![s] = "sleep"]
       \/ /\ Fault
          /\ Become(s, "fire")
          /\ UNCHANGED <<hold, delay, loop, post>>
    /\ UNCHANGED <<mode, serverVars, view, ending, lock, absent, observed, old, asked, taskVars>>

-----------------------------------------------------------------------------
(* Leaving                                                                 *)

\* The update and the postpone task are dropped where they await.
DropLoops(s) ==
    /\ Loop(s, "off")
    /\ absent' = [absent EXCEPT ![s] = FALSE]
    /\ observed' = [observed EXCEPT ![s] = FALSE]
    /\ old' = [old EXCEPT ![s] = FALSE]
    /\ post' = [post EXCEPT ![s] = "off"]
    /\ asked' = [asked EXCEPT ![s] = None]

\* Dropping the update loop also frees the mutex when the loop holds it.
ReleaseOfLoop(s) == IF lock[s] \in {"restore", "protect"} THEN "free" ELSE lock[s]

\* The request the dropped loop was waiting for got through, or did not.
AbandonRequest(s) ==
    \/ UNCHANGED serverVars
    \/ loop[s] \in {"publish", "follow"} /\ Enter(s) /\ UNCHANGED pending
    \/ lock[s] = "restore" /\ Delayed /\ Unused(s) # {} /\ UNCHANGED joined
         /\ pending' = pending \cup {<<s, NewId(s)>>}

LeaveCall(s) ==
    /\ phase[s] = "live"
    /\ Become(s, "hangup")
    /\ ending' = [ending EXCEPT ![s] = FALSE]
    /\ AbandonRequest(s)
    /\ DropLoops(s)
    /\ Lock(s, ReleaseOfLoop(s))
    /\ UNCHANGED <<mode, view, faults, hold, delay, taskVars>>

\* hang_up closes DelayState and takes the id with it.
TakeDelay(s) ==
    /\ phase[s] = "hangup"
    /\ lock[s] = "free"
    /\ delay' = [delay EXCEPT ![s] = [id |-> None, active |-> FALSE, lost |-> @.lost]]
    /\ hold' = [hold EXCEPT ![s] = delay[s].id]
    /\ Become(s, IF Sticky \/ delay[s].id = None THEN "left" ELSE "fire")
    /\ UNCHANGED <<mode, serverVars, view, faults, ending, lock, loopVars, postVars, taskVars>>

AfterFire(s, o) == IF o = "ok" /\ Held(s, hold[s]) THEN "gone" ELSE "left"

\* fire_hangup, for a state membership and for a join that is retracted.
FireHangup(s, o) ==
    /\ phase[s] = "fire"
    /\ Request(o)
    /\ LET done == Held(s, hold[s]) /\ Reached(o)
       IN  /\ pending' = IF done THEN pending \ {<<s, hold[s]>>} ELSE pending
           /\ joined' = IF done THEN joined \ {Slot(s)} ELSE joined
    /\ Become(s, AfterFire(s, o))
    /\ hold' = [hold EXCEPT ![s] = None]
    /\ UNCHANGED <<mode, view, ending, delayVars, loopVars, postVars, taskVars>>

\* send_left_membership; for a sticky membership it goes first, and the
\* delayed leave is cancelled only once it is known to be out.
AfterLeftAlways(s, o) == IF hold[s] # None THEN "cancel" ELSE "gone"
AfterLeft(s, o) == IF hold[s] # None /\ o = "ok" THEN "cancel" ELSE "gone"

SendLeft(s, o) ==
    /\ phase[s] = "left"
    /\ LeftRequest(s, o)
    /\ Become(s, AfterLeft(s, o))
    /\ hold' = [hold EXCEPT ![s] = IF AfterLeft(s, o) = "cancel" THEN @ ELSE None]
    /\ UNCHANGED <<mode, pending, view, ending, delayVars, loopVars, postVars, taskVars>>

CancelHangup(s, o) ==
    /\ phase[s] = "cancel"
    /\ CancelRequest(s, hold[s], o)
    /\ Become(s, "gone")
    /\ hold' = [hold EXCEPT ![s] = None]
    /\ UNCHANGED <<mode, joined, view, ending, delayVars, loopVars, postVars, taskVars>>

\* The app is killed or the machine dies.
Crash(s) ==
    /\ mode.crashing
    /\ phase[s] \notin {"none", "gone"}
    /\ Fault
    /\ Become(s, "gone")
    /\ hold' = [hold EXCEPT ![s] = None]
    /\ delay' = [delay EXCEPT ![s] = [id |-> None, active |-> FALSE, lost |-> FALSE]]
    /\ Lock(s, "free")
    /\ ending' = [ending EXCEPT ![s] = FALSE]
    /\ DropLoops(s)
    /\ waiting' = [waiting EXCEPT ![s] = 0]
    /\ UNCHANGED <<mode, serverVars, view, publishing>>

-----------------------------------------------------------------------------
(* The update loop                                                         *)

InView(s) == Slot(s) \in view

NeverMissed(s) == FALSE
Missed(s) == observed[s] /\ ~InView(s)

\* refresh: absent once seen and missing, ended when never seen for too long.
Refresh(s) ==
    /\ loop[s] = "wait"
    /\ InView(s) \/ observed[s] \/ ~old[s]
    /\ observed' = [observed EXCEPT ![s] = @ \/ InView(s)]
    /\ absent' = [absent EXCEPT ![s] = Missed(s)]
    /\ \/ Loop(s, "renew")
       \/ ~Sticky /\ InView(s) /\ Loop(s, "follow")
    /\ UNCHANGED <<mode, serverVars, view, faults, callVars, delayVars, old, postVars, taskVars>>

\* follow_oldest_focus publishes from inside refresh.
FollowFocus(s, o) ==
    /\ loop[s] = "follow"
    /\ PublishRequest(s, o)
    /\ Loop(s, "renew")
    /\ UNCHANGED <<mode, pending, view, callVars, delayVars, absent, observed, old, postVars,
                   taskVars>>

\* terminate only starts leave_call; the loop goes on unless it returns.
EndLoop(s) ==
    /\ loop[s] = "wait"
    /\ ending' = [ending EXCEPT ![s] = TRUE]
    /\ Loop(s, "off")
    /\ UNCHANGED <<mode, serverVars, view, faults, phase, hold, delayVars, absent, observed, old,
                   postVars, taskVars>>

Ended(s) == ~InView(s) /\ ~observed[s] /\ old[s] /\ EndLoop(s)

\* slot_closed_midcall, encryption_changed: the slot is closed, or the room gets
\* encrypted, at any time.
EndedMidcall(s) == EndLoop(s)

LostAndAbsent(s) == absent[s] /\ delay[s].lost

EndLost(s) ==
    /\ loop[s] = "renew"
    /\ lock[s] = "free"
    /\ LostAndAbsent(s)
    /\ ending' = [ending EXCEPT ![s] = TRUE]
    /\ Loop(s, "wait")
    /\ UNCHANGED <<mode, serverVars, view, faults, phase, hold, delayVars, absent, observed, old,
                   postVars, taskVars>>

Renew(s) ==
    /\ loop[s] = "renew"
    /\ lock[s] = "free"
    /\ ~LostAndAbsent(s)
    /\ IF delay[s].lost
       THEN Lock(s, "restore") /\ Loop(s, "restore")
       ELSE UNCHANGED lock /\ Loop(s, "due")
    /\ UNCHANGED <<mode, serverVars, view, faults, callVars, delay, absent, observed, old,
                   postVars, taskVars>>

Restore(s, o) ==
    /\ loop[s] = "restore"
    /\ ScheduleRequest(s, o)
    /\ IF Scheduled(s, o) # None THEN SetDelay(s, Scheduled(s, o), FALSE) ELSE UNCHANGED delay
    /\ Lock(s, "free")
    /\ Loop(s, "due")
    /\ UNCHANGED <<mode, joined, view, callVars, absent, observed, old, postVars, taskVars>>

\* The end of a turn: a sticky delayed leave is encrypted for the roster of
\* its time and is replaced after a change, or after a renewal.
EndTurn(s, renewed) ==
    /\ Loop(s, "wait")
    /\ \/ Sticky /\ Encrypted /\ waiting[s] < mode.tasks
          /\ waiting' = [waiting EXCEPT ![s] = @ + 1]
       \/ ~(renewed /\ Sticky /\ Encrypted) /\ UNCHANGED waiting

NotDue(s) ==
    /\ loop[s] = "due"
    /\ ~absent[s]
    /\ EndTurn(s, FALSE)
    /\ UNCHANGED <<mode, serverVars, view, faults, callVars, delayVars, absent, observed, old,
                   postVars, publishing>>

\* protect_membership_renewal, up to its request.
Protect(s) ==
    /\ loop[s] = "due"
    /\ lock[s] = "free"
    /\ IF delay[s].id # None
       THEN Lock(s, "protect") /\ Loop(s, "protect")
       ELSE UNCHANGED lock /\ Loop(s, IF delay[s].lost THEN "wait" ELSE "publish")
    /\ UNCHANGED <<mode, serverVars, view, faults, callVars, delay, absent, observed, old,
                   postVars, taskVars>>

Protected(s, o) ==
    /\ loop[s] = "protect"
    /\ Held(s, delay[s].id) \/ o # "ok"
    /\ Request(o)
    /\ Loop(s, IF o = "ok" THEN "publish" ELSE "wait")
    /\ Lock(s, "free")
    /\ UNCHANGED <<mode, serverVars, view, callVars, delay, absent, observed, old, postVars,
                   taskVars>>

\* The server refuses to restart the leave: it has fired, and the call ends.
ProtectGone(s) ==
    /\ loop[s] = "protect"
    /\ ~Held(s, delay[s].id)
    /\ ending' = [ending EXCEPT ![s] = TRUE]
    /\ Lose(s)
    /\ Lock(s, "free")
    /\ Loop(s, "wait")
    /\ UNCHANGED <<mode, serverVars, view, faults, phase, hold, absent, observed, old, postVars,
                   taskVars>>

PublishRenewal(s, o) ==
    /\ loop[s] = "publish"
    /\ PublishRequest(s, o)
    /\ EndTurn(s, o = "ok")
    /\ UNCHANGED <<mode, pending, view, callVars, delayVars, absent, observed, old, postVars,
                   publishing>>

-----------------------------------------------------------------------------
(* refresh_encrypted_hangup, detached                                      *)

NeverClosed(s) == FALSE
Closed(s) == ~delay[s].active

\* The server has no delayed events, or does not say whether it has them.
NotSupported(s) ==
    /\ waiting[s] > 0
    /\ IF Delayed THEN Fault ELSE Fine
    /\ waiting' = [waiting EXCEPT ![s] = @ - 1]
    /\ UNCHANGED <<mode, serverVars, view, callVars, delayVars, loopVars, postVars, publishing>>

TakeLock(s) ==
    /\ Delayed
    /\ waiting[s] > 0
    /\ lock[s] = "free"
    /\ waiting' = [waiting EXCEPT ![s] = @ - 1]
    /\ \/ Closed(s) /\ UNCHANGED delayVars
       \/ ~Closed(s) /\ delay[s].id # None /\ Lock(s, "cancel") /\ UNCHANGED delay
       \/ ~Closed(s) /\ delay[s].id = None /\ Lock(s, "send") /\ SetDelay(s, None, TRUE)
    /\ UNCHANGED <<mode, serverVars, view, faults, callVars, loopVars, postVars, publishing>>

RefreshCancel(s, o) ==
    /\ lock[s] = "cancel"
    /\ CancelRequest(s, delay[s].id, o)
    /\ IF o = "ok" /\ Held(s, delay[s].id)
       THEN Lock(s, "send") /\ SetDelay(s, None, TRUE)
       ELSE Lock(s, "free") /\ UNCHANGED delay
    /\ UNCHANGED <<mode, joined, view, callVars, loopVars, postVars, taskVars>>

RefreshSend(s, o) ==
    /\ lock[s] = "send"
    /\ ScheduleRequest(s, o)
    /\ IF Scheduled(s, o) # None THEN SetDelay(s, Scheduled(s, o), FALSE) ELSE UNCHANGED delay
    /\ Lock(s, "free")
    /\ UNCHANGED <<mode, joined, view, callVars, loopVars, postVars, taskVars>>

-----------------------------------------------------------------------------
(* The managed postpone loop                                               *)

Postpone(s) ==
    /\ post[s] = "sleep"
    /\ lock[s] = "free"
    /\ delay[s].id # None
    /\ asked' = [asked EXCEPT ![s] = delay[s].id]
    /\ post' = [post EXCEPT ![s] = "ask"]
    /\ UNCHANGED <<mode, serverVars, view, faults, callVars, delayVars, loopVars, taskVars>>

Postponed(s) ==
    /\ post[s] = "ask"
    /\ \/ Held(s, asked[s]) /\ Fine /\ post' = [post EXCEPT ![s] = "sleep"]
       \/ Fault /\ post' = [post EXCEPT ![s] = "sleep"]
       \/ ~Held(s, asked[s]) /\ Fine /\ post' = [post EXCEPT ![s] = "missing"]
    /\ UNCHANGED <<mode, serverVars, view, callVars, delayVars, loopVars, asked, taskVars>>

AnyDelay(s) == TRUE
SameDelay(s) == delay[s].id = asked[s]

NoteGone(s) ==
    /\ post[s] = "missing"
    /\ lock[s] = "free"
    /\ IF SameDelay(s) THEN Lose(s) ELSE UNCHANGED delay
    /\ post' = [post EXCEPT ![s] = "sleep"]
    /\ asked' = [asked EXCEPT ![s] = None]
    /\ UNCHANGED <<mode, serverVars, view, faults, callVars, lock, loopVars, taskVars>>

-----------------------------------------------------------------------------
(* Screen sharing, the server, the clock                                   *)

\* set_screen_sharing clones the membership under the state mutex and
\* publishes it after the mutex is released, as a task of its own.
ShareScreen(s) ==
    /\ mode.sharing
    /\ phase[s] = "live"
    /\ publishing[s] < mode.tasks
    /\ publishing' = [publishing EXCEPT ![s] = @ + 1]
    /\ UNCHANGED <<mode, serverVars, view, faults, callVars, delayVars, loopVars, postVars, waiting>>

ShareRequest(s, o) ==
    /\ publishing[s] > 0
    /\ PublishRequest(s, o)
    /\ publishing' = [publishing EXCEPT ![s] = @ - 1]
    /\ UNCHANGED <<mode, pending, view, callVars, delayVars, loopVars, postVars, waiting>>

\* A delayed leave somebody still postpones.
Kept(s, i) ==
    \/ phase[s] = "live" /\ delay[s].id = i
    \/ phase[s] \in {"publish", "provision", "confirm"} /\ hold[s] = i

DelayedLeave(s, i) ==
    /\ Held(s, i)
    /\ IF Kept(s, i) THEN Fault ELSE Fine
    /\ Exit(s)
    /\ pending' = pending \ {<<s, i>>}
    /\ UNCHANGED <<mode, view, callVars, delayVars, loopVars, postVars, taskVars>>

Sync ==
    /\ view # joined
    /\ view' = joined
    /\ UNCHANGED <<mode, serverVars, faults, callVars, delayVars, loopVars, postVars, taskVars>>

\* Thirty seconds without a sync are a fault.
Age(s) ==
    /\ phase[s] = "live"
    /\ ~old[s]
    /\ IF Slot(s) \in joined /\ ~InView(s) /\ ~observed[s] THEN Fault ELSE Fine
    /\ old' = [old EXCEPT ![s] = TRUE]
    /\ UNCHANGED <<mode, serverVars, view, callVars, delayVars, loop, absent, observed, postVars,
                   taskVars>>

-----------------------------------------------------------------------------

JoinStep(s) ==
    \/ \E o \in Outcomes : Schedule(s, o) \/ PublishJoin(s, o)
    \/ Provision(s)
    \/ Confirm(s)

LeaveStep(s) ==
    \/ TakeDelay(s)
    \/ \E o \in Outcomes : FireHangup(s, o) \/ SendLeft(s, o) \/ CancelHangup(s, o)

LoopStep(s) ==
    \/ Refresh(s)
    \/ Ended(s)
    \/ EndedMidcall(s)
    \/ EndLost(s)
    \/ Renew(s)
    \/ NotDue(s)
    \/ Protect(s)
    \/ ProtectGone(s)
    \/ \E o \in Outcomes :
          FollowFocus(s, o) \/ Restore(s, o) \/ Protected(s, o) \/ PublishRenewal(s, o)

RefreshStep(s) ==
    \/ NotSupported(s)
    \/ TakeLock(s)
    \/ \E o \in Outcomes : RefreshCancel(s, o) \/ RefreshSend(s, o)

PostponeStep(s) ==
    \/ Postpone(s)
    \/ Postponed(s)
    \/ NoteGone(s)

Deliver(s) == \E o \in Outcomes : ShareRequest(s, o)
Expire(s) == \E i \in Ids : DelayedLeave(s, i)

SessionStep(s) ==
    \/ Join(s)
    \/ JoinStep(s)
    \/ LeaveCall(s)
    \/ LeaveStep(s)
    \/ Crash(s)
    \/ LoopStep(s)
    \/ RefreshStep(s)
    \/ PostponeStep(s)
    \/ ShareScreen(s)
    \/ Deliver(s)
    \/ Expire(s)
    \/ Age(s)

Next == Sync \/ \E s \in Sessions : SessionStep(s)

Spec == Init /\ [][Next]_vars

\* The tasks are polled to their end and the mutex is handed out in the order
\* it was asked for, which is what the strong fairness of its users says.  The
\* server keeps its clock and syncs keep coming.  Nobody has to join, leave or
\* share a screen, and no fairness makes anything fail.
Fairness ==
    /\ WF_vars(Sync)
    /\ \A s \in Sessions :
        /\ WF_vars(JoinStep(s))
        /\ WF_vars(ending[s] /\ LeaveCall(s))
        /\ SF_vars(LeaveStep(s))
        /\ SF_vars(LoopStep(s))
        /\ SF_vars(RefreshStep(s))
        /\ SF_vars(PostponeStep(s))
        /\ WF_vars(Deliver(s))
        /\ WF_vars(Age(s))
        /\ WF_vars(\E i \in Ids : ~Kept(s, i) /\ DelayedLeave(s, i))

LiveSpec == Spec /\ Fairness

-----------------------------------------------------------------------------
(* Properties                                                              *)

Over(s) == phase[s] \in {"fire", "left", "cancel", "gone"}

\* After hang_up closed DelayState no refresh that was still on its way
\* schedules another delayed leave for the call.
ClosedForGood ==
    \A s \in Sessions : Over(s) => delay[s].id = None /\ lock[s] = "free"

\* A delayed leave that nobody remembers, and that takes the device out of a
\* later call when it fires, costs a failure, or the end of a call: leave_call
\* may drop the update loop while it restores the delayed leave.
Forgotten == {p \in pending : p[2] \notin Known(p[1])}
Left == {s \in Sessions : phase[s] \in {"hangup", "fire", "left", "cancel", "gone"}}
ForgottenAreCounted == Cardinality(Forgotten) <= faults + Cardinality(Left)

\* No single failure leaves a membership behind that nothing takes out: when
\* a call is over and its slot is still joined, a delayed leave is pending
\* for the slot, or another call has the slot, or two things went wrong.  On a
\* server without delayed events one is enough.
Ghost(s) ==
    /\ phase[s] = "gone"
    /\ Slot(s) \in joined
    /\ \A p \in pending : Slot(p[1]) # Slot(s)
    /\ \A t \in Sessions : Slot(t) = Slot(s) => phase[t] \in {"none", "gone"}
    /\ publishing[s] = 0
GhostTakesTwo == \A s \in Sessions : Ghost(s) => faults >= (IF Delayed THEN 2 ELSE 1)

\* While the loops run, a call the room no longer shows is shown again or
\* ends: a fired delayed leave never leaves a device talking unseen.
SeenOrEnded ==
    \A s \in Sessions :
        (phase[s] = "live" /\ Slot(s) \notin joined)
            ~> (Slot(s) \in joined \/ phase[s] # "live")

\* A delayed leave the client still counts on, and the server no longer
\* holds, is found out: it is replaced or the call ends.
ProtectedOrEnded ==
    \A s \in Sessions :
        (phase[s] = "live" /\ delay[s].id # None /\ ~Held(s, delay[s].id))
            ~> (phase[s] # "live" \/ Held(s, delay[s].id))

\* Whatever a call leaves behind, its slot is vacated, unless the next call
\* has taken it over, or a screen share update nobody waited for came after; on a
\* server without delayed events only if nothing went wrong.
SlotVacated ==
    \A s \in Sessions :
        (phase[s] = "gone" /\ ~mode.sharing /\ (Delayed \/ faults = 0)) ~>
            (Slot(s) \notin joined \/ \E t \in Sessions : t > s /\ phase[t] # "none")
=============================================================================
