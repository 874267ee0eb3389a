--------------------------- MODULE CallKeysProofs ---------------------------
(* Safety of the two ends of the call media keys for every value of their     *)
(* constants. The sender (CallKeys): the books cover every holder, joiners    *)
(* get no old key, leavers lose theirs, and own keys are used in order. The   *)
(* receiver (CallKeyReceive): who is shown is heard and no key falls back.    *)
EXTENDS CallKeys, CallKeyReceive, WellFoundedInduction, TLAPS

\* The key the task that is due next puts in use, and how the waiting keys
\* follow it: none waits, the current one does, or the current one waits behind
\* the one before, which is then due.
UseOrder ==
    /\ ~keyed => pending = {} /\ inUse = NoKey
    /\ keyed =>
         /\ inUse \in Index
         /\ \/ pending = {} /\ inUse = index
            \/ /\ age <= UseDelay
               /\ pending = {[index |-> index, left |-> UseDelay - age]}
               /\ index = NextIndex(inUse)
            \/ /\ age = 0
               /\ pending = {[index |-> NextIndex(inUse), left |-> 0],
                             [index |-> index, left |-> UseDelay]}
               /\ index = NextIndex(NextIndex(inUse))

\* What the loop knows while a send is under way.
SendInFlight ==
    pc = "sending" =>
        /\ send.kind = "share" => keyed
        /\ send.kind = "rotate" /\ keyed => age >= UseDelay

\* A peer in the call joined when the current key was no older than it is now.
JoinedBefore == \A p \in Peer : joinAge[p] <= age

Young(m) == roster[m[1]] = m[2] => joinAge[m[1]] < Grace

\* Whoever has, or is being sent, the current key joined within its grace period.
OnlyYoung ==
    /\ keyed => \A m \in shared \cup failed \cup holders[index] : Young(m)
    /\ pc = "sending" /\ send.kind = "share" => \A m \in send.targets : Young(m)

IInv ==
    /\ TypeOK
    /\ UseOrder
    /\ SendInFlight
    /\ HoldersOnTheBooks
    /\ JoinedBefore
    /\ OnlyYoung

-----------------------------------------------------------------------------
\* What a send reports and delivers is among its targets.
LEMMA OutcomeBounds ==
    ASSUME NEW T, NEW o \in Outcome(T)
    PROVE  o.reached \subseteq T /\ o.delivered \subseteq T
<1>1. CASE outage /\ LostAck
  BY <1>1 DEF Outcome
<1>2. CASE outage /\ ~LostAck
  BY <1>2 DEF Outcome
<1>3. CASE ~outage
  BY <1>3 DEF Outcome
<1> QED BY <1>1, <1>2, <1>3

LEMMA NextIndexInRange == \A i \in Index : NextIndex(i) \in Index
BY ConstantsAssumption DEF Index, NextIndex

LEMMA LeaveBoundNat == LeaveBound \in Nat
BY ConstantsAssumption DEF LeaveBound, Most

LEMMA InitIInv == Init => IInv
<1> SUFFICES ASSUME Init PROVE IInv
  OBVIOUS
<1> USE DEF Init
<1>1. TypeOK
  <2>1. send \in Send
    BY ConstantsAssumption DEF Send, NoSend
  <2>2. index \in Index /\ holders \in [Index -> SUBSET Member]
    BY ConstantsAssumption DEF Index
  <2>3. /\ roster \in [Peer -> Gen \cup {Out}]
        /\ members \in SUBSET Member /\ shared \in SUBSET Member /\ failed \in SUBSET Member
        /\ pending \in SUBSET [index : Index, left : 0 .. UseDelay]
        /\ inUse \in Index \cup {NoKey}
        /\ down \in SUBSET Peer
    OBVIOUS
  <2>4. /\ age \in 0 .. MaxAge /\ quiet \in 0 .. Reshare
        /\ limit \in 0 .. Interval /\ busy \in 0 .. MaxBusy
    BY ConstantsAssumption
  <2>5. joinAge \in [Peer -> 0 .. MaxAge] /\ away \in [Peer -> 0 .. LeaveBound + 1]
    BY ConstantsAssumption, LeaveBoundNat
  <2> QED BY <2>1, <2>2, <2>3, <2>4, <2>5 DEF TypeOK
<1>2. UseOrder /\ SendInFlight /\ HoldersOnTheBooks /\ OnlyYoung
  BY DEF UseOrder, SendInFlight, HoldersOnTheBooks, OnlyYoung
<1>3. JoinedBefore
  BY DEF JoinedBefore
<1> QED BY <1>1, <1>2, <1>3 DEF IInv

-----------------------------------------------------------------------------
\* Every step keeps the types.
LEMMA TypeStep == TypeOK /\ [Next]_vars => TypeOK'
<1> SUFFICES ASSUME TypeOK, [Next]_vars PROVE TypeOK'
  OBVIOUS
<1> USE ConstantsAssumption, LeaveBoundNat DEF TypeOK, world, own, outbound, history, loop
<1>1. ASSUME NEW p \in Peer, NEW g \in Gen, Join(p, g) PROVE TypeOK'
  BY <1>1 DEF Join
<1>2. ASSUME NEW p \in Peer, Leave(p) PROVE TypeOK'
  BY <1>2 DEF Leave
<1>3. ASSUME NEW p \in Peer, Disconnect(p) PROVE TypeOK'
  BY <1>3 DEF Disconnect
<1>4. CASE Outage
  BY <1>4 DEF Outage
<1>5. CASE Refresh
  BY <1>5 DEF Refresh, Verified, Member
<1>6. CASE Roll
  <2> DEFINE plan == Plan(members)
  <2>1. plan.targets \in SUBSET Member /\ Unshared(plan.targets) \in SUBSET Member
    BY DEF Plan, Fresh, Retry, StillValid, Unshared
  <2>2. RotationWait \in 0 .. UseDelay
    BY DEF RotationWait
  <2>3. pc' \in {"wait", "refreshed", "sending"} /\ send' \in Send /\ limit' \in 0 .. Interval
    BY <1>6, <2>1, <2>2 DEF Roll, ShareWith, StartSend, EndTurn, Least, Send, NoSend
  <2>4. busy' = busy
    BY <1>6 DEF Roll, ShareWith, StartSend, EndTurn
  <2> QED BY <1>6, <2>3, <2>4 DEF Roll
<1>7. CASE FinishShare
  <2>1. PICK o \in Outcome(send.targets) :
           /\ quiet' = 0
           /\ failed' = (failed \ send.targets) \cup Unreached(send.targets, o.reached)
           /\ shared' = shared \cup o.reached
           /\ holders' = [holders EXCEPT ![index] = @ \cup o.delivered]
    BY <1>7 DEF FinishShare
  <2>2. send.targets \in SUBSET Member /\ send.wait \in 0 .. UseDelay
    BY DEF Send
  <2>3. o.reached \in SUBSET Member /\ o.delivered \in SUBSET Member
    BY <2>1, <2>2, OutcomeBounds
  <2>4. pc' \in {"wait", "refreshed", "sending"} /\ send' \in Send
        /\ limit' \in 0 .. Interval /\ busy' = busy
    BY <1>7, <2>2 DEF FinishShare, EndTurn, Least, Send, NoSend
  <2>5. failed' \in SUBSET Member /\ shared' \in SUBSET Member
    BY <2>1, <2>2, <2>3 DEF Unreached
  <2>6. holders' \in [Index -> SUBSET Member]
    BY <2>1, <2>3
  <2> QED BY <1>7, <2>1, <2>4, <2>5, <2>6 DEF FinishShare
<1>8. CASE FinishRotate
  <2> DEFINE next == IF keyed THEN NextIndex(index) ELSE 0
  <2>1. PICK o \in Outcome(send.targets) :
           /\ failed' = Unreached(send.targets, o.reached)
           /\ shared' = o.reached
           /\ holders' = [holders EXCEPT ![next] = o.delivered]
    BY <1>8 DEF FinishRotate
  <2>2. send.targets \in SUBSET Member
    BY DEF Send
  <2>3. o.reached \in SUBSET Member /\ o.delivered \in SUBSET Member
    BY <2>1, <2>2, OutcomeBounds
  <2>4. next \in Index
    BY NextIndexInRange DEF Index
  <2>5. pc' \in {"wait", "refreshed", "sending"} /\ send' \in Send
        /\ limit' \in 0 .. Interval /\ busy' = busy
    BY <1>8 DEF FinishRotate, EndTurn, Least, Send, NoSend
  <2>6. pending' \in SUBSET [index : Index, left : 0 .. UseDelay]
        /\ inUse' \in Index \cup {NoKey}
    BY <1>8, <2>4 DEF FinishRotate, Announced
  <2>7. failed' \in SUBSET Member /\ shared' \in SUBSET Member
        /\ holders' \in [Index -> SUBSET Member]
    BY <2>1, <2>2, <2>3 DEF Unreached
  <2>8. joinAge' \in [Peer -> 0 .. MaxAge] /\ index' \in Index
    BY <1>8, <2>4 DEF FinishRotate
  <2> QED BY <1>8, <2>5, <2>6, <2>7, <2>8 DEF FinishRotate
<1>9. ASSUME NEW k \in pending, Use(k) PROVE TypeOK'
  BY <1>9 DEF Use
<1>10. CASE Tick
  <2>1. pending' \in SUBSET [index : Index, left : 0 .. UseDelay]
    BY <1>10 DEF Tick
  <2>2. limit' \in 0 .. Interval /\ busy' \in 0 .. MaxBusy
    BY <1>10 DEF Tick
  <2>3. age' \in 0 .. MaxAge /\ quiet' \in 0 .. Reshare
        /\ away' \in [Peer -> 0 .. LeaveBound + 1]
    BY <1>10 DEF Tick, Least
  <2> QED BY <1>10, <2>1, <2>2, <2>3 DEF Tick
<1>11. CASE UNCHANGED vars
  BY <1>11 DEF vars
<1> QED BY <1>1, <1>2, <1>3, <1>4, <1>5, <1>6, <1>7, <1>8, <1>9, <1>10, <1>11 DEF Next

-----------------------------------------------------------------------------
\* Every step keeps the order in which keys are put in use, and obeys it.
LEMMA UseOrderStep ==
    ASSUME IInv, [Next]_vars
    PROVE  /\ UseOrder'
           /\ inUse' # inUse => inUse' = IF inUse = NoKey THEN 0 ELSE NextIndex(inUse)
<1> DEFINE Goal == /\ UseOrder'
                   /\ inUse' # inUse =>
                        inUse' = IF inUse = NoKey THEN 0 ELSE NextIndex(inUse)
<1> USE ConstantsAssumption DEF IInv, TypeOK, own, outbound
<1>0. ASSUME UNCHANGED <<keyed, index, age, pending, inUse>> PROVE Goal
  BY <1>0 DEF UseOrder
<1>1. ASSUME NEW p \in Peer, NEW g \in Gen, Join(p, g) PROVE Goal
  BY <1>0, <1>1 DEF Join
<1>2. ASSUME NEW p \in Peer, Leave(p) PROVE Goal
  BY <1>0, <1>2 DEF Leave
<1>3. ASSUME NEW p \in Peer, Disconnect(p) PROVE Goal
  BY <1>0, <1>3 DEF Disconnect
<1>4. CASE Outage
  BY <1>0, <1>4 DEF Outage
<1>5. CASE Refresh
  BY <1>0, <1>5 DEF Refresh
<1>6. CASE Roll
  BY <1>0, <1>6 DEF Roll
<1>7. CASE FinishShare
  BY <1>0, <1>7 DEF FinishShare
<1>8. CASE FinishRotate
  <2> keyed' = TRUE /\ age' = 0
    BY <1>8 DEF FinishRotate
  <2>1. CASE ~keyed
    <3>1. index' = 0 /\ inUse' = 0 /\ pending' = {} /\ inUse = NoKey
      BY <1>8, <2>1 DEF FinishRotate, UseOrder
    <3> QED BY <3>1 DEF UseOrder, Index
  <2>2. CASE keyed
    <3>1. /\ index' = NextIndex(index)
          /\ inUse' = inUse
          /\ pending' = pending \cup {[index |-> NextIndex(index), left |-> UseDelay]}
      BY <1>8, <2>2 DEF FinishRotate, Announced
    <3>2. age >= UseDelay
      BY <1>8, <2>2 DEF FinishRotate, SendInFlight
    <3>3. CASE pending = {} /\ inUse = index
      BY <2>2, <3>1, <3>3 DEF UseOrder
    <3>4. CASE /\ age <= UseDelay
               /\ pending = {[index |-> index, left |-> UseDelay - age]}
               /\ index = NextIndex(inUse)
      <4>1. UseDelay - age = 0
        BY <3>2, <3>4
      <4> QED BY <2>2, <3>1, <3>4, <4>1 DEF UseOrder
    <3>5. CASE age = 0
      BY <3>2, <3>5
    <3> QED BY <2>2, <3>3, <3>4, <3>5 DEF UseOrder
  <2> QED BY <2>1, <2>2
<1>9. ASSUME NEW k \in pending, Use(k) PROVE Goal
  <2>1. keyed /\ keyed' = keyed /\ index' = index /\ age' = age
    BY <1>9 DEF Use, UseOrder
  <2>2. inUse' = k.index /\ pending' = pending \ {k} /\ k.left = 0
    BY <1>9 DEF Use
  <2>3. inUse \in Index /\ inUse # NoKey /\ NextIndex(inUse) \in Index
    BY <2>1, NextIndexInRange DEF UseOrder, Index, NoKey
  <2>4. CASE /\ pending = {[index |-> index, left |-> UseDelay - age]}
             /\ index = NextIndex(inUse)
    <3>1. k.index = index /\ pending' = {}
      BY <2>2, <2>4
    <3> QED BY <2>1, <2>2, <2>3, <2>4, <3>1 DEF UseOrder
  <2>5. CASE /\ age = 0
             /\ pending = {[index |-> NextIndex(inUse), left |-> 0],
                           [index |-> index, left |-> UseDelay]}
             /\ index = NextIndex(NextIndex(inUse))
    <3>1. k = [index |-> NextIndex(inUse), left |-> 0]
      BY <2>2, <2>5
    <3>2. pending' = {[index |-> index, left |-> UseDelay]} /\ inUse' = NextIndex(inUse)
      BY <2>2, <2>5, <3>1
    <3> QED BY <2>1, <2>3, <2>5, <3>2 DEF UseOrder
  <2> QED BY <1>9, <2>1, <2>4, <2>5 DEF UseOrder
<1>10. CASE Tick
  <2>1. /\ keyed' = keyed /\ index' = index /\ inUse' = inUse
        /\ pending' = {[index |-> k.index, left |-> k.left - 1] : k \in pending}
        /\ \A k \in pending : k.left > 0
        /\ age' = IF keyed THEN Least(MaxAge, age + 1) ELSE age
    BY <1>10 DEF Tick
  <2>2. CASE ~keyed
    BY <2>1, <2>2 DEF UseOrder
  <2>3. CASE keyed /\ pending = {} /\ inUse = index
    BY <2>1, <2>3 DEF UseOrder
  <2>4. CASE /\ keyed
             /\ age <= UseDelay
             /\ pending = {[index |-> index, left |-> UseDelay - age]}
             /\ index = NextIndex(inUse)
    <3>1. UseDelay - age > 0
      BY <2>1, <2>4
    <3>2. age' = age + 1
      BY <2>1, <2>4, <3>1 DEF Least
    <3>3. pending' = {[index |-> index, left |-> UseDelay - age']}
      BY <2>1, <2>4, <3>2
    <3>4. age' <= UseDelay
      BY <3>1, <3>2
    <3> QED BY <2>1, <2>4, <3>3, <3>4 DEF UseOrder
  <2>5. CASE /\ keyed
             /\ pending = {[index |-> NextIndex(inUse), left |-> 0],
                           [index |-> index, left |-> UseDelay]}
    BY <2>1, <2>5
  <2> QED BY <2>2, <2>3, <2>4, <2>5 DEF UseOrder
<1>11. CASE UNCHANGED vars
  BY <1>0, <1>11 DEF vars
<1> QED BY <1>1, <1>2, <1>3, <1>4, <1>5, <1>6, <1>7, <1>8, <1>9, <1>10, <1>11 DEF Next

-----------------------------------------------------------------------------
\* Every step keeps what the loop knows of a send under way.
LEMMA SendInFlightStep == IInv /\ [Next]_vars => SendInFlight'
<1> SUFFICES ASSUME IInv, [Next]_vars PROVE SendInFlight'
  OBVIOUS
<1> USE ConstantsAssumption DEF IInv, TypeOK, outbound, loop
<1>0. ASSUME UNCHANGED <<pc, send, keyed, age>> PROVE SendInFlight'
  BY <1>0 DEF SendInFlight
<1>1. ASSUME NEW p \in Peer, NEW g \in Gen, Join(p, g) PROVE SendInFlight'
  BY <1>0, <1>1 DEF Join
<1>2. ASSUME NEW p \in Peer, Leave(p) PROVE SendInFlight'
  BY <1>0, <1>2 DEF Leave
<1>3. ASSUME NEW p \in Peer, Disconnect(p) PROVE SendInFlight'
  BY <1>0, <1>3 DEF Disconnect
<1>4. CASE Outage
  BY <1>0, <1>4 DEF Outage
<1>5. CASE Refresh
  BY <1>5 DEF Refresh, SendInFlight
<1>6. CASE Roll
  <2> keyed' = keyed /\ age' = age
    BY <1>6 DEF Roll
  <2>1. CASE EndTurn(0) \/ EndTurn(RotationWait)
    BY <2>1 DEF EndTurn, SendInFlight
  <2>2. ASSUME NEW T, NEW w, keyed, StartSend("share", T, w) PROVE SendInFlight'
    BY <2>2 DEF StartSend, SendInFlight
  <2>3. ASSUME NEW T, RotationWait = 0, StartSend("rotate", T, 0) PROVE SendInFlight'
    BY <2>3 DEF StartSend, SendInFlight, RotationWait
  <2>4. ~Plan(members).rotate => keyed
    BY DEF Plan
  <2>5. RotationWait > 0 => keyed
    BY DEF RotationWait
  <2> QED BY <1>6, <2>1, <2>2, <2>3, <2>4, <2>5 DEF Roll, ShareWith
<1>7. CASE FinishShare
  BY <1>7 DEF FinishShare, EndTurn, SendInFlight
<1>8. CASE FinishRotate
  BY <1>8 DEF FinishRotate, EndTurn, SendInFlight
<1>9. ASSUME NEW k \in pending, Use(k) PROVE SendInFlight'
  BY <1>0, <1>9 DEF Use
<1>10. CASE Tick
  BY <1>10 DEF Tick, SendInFlight, Least
<1>11. CASE UNCHANGED vars
  BY <1>0, <1>11 DEF vars
<1> QED BY <1>1, <1>2, <1>3, <1>4, <1>5, <1>6, <1>7, <1>8, <1>9, <1>10, <1>11 DEF Next

-----------------------------------------------------------------------------
\* Every step keeps the current key's holders on the books.
LEMMA BooksStep == IInv /\ [Next]_vars => HoldersOnTheBooks'
<1> SUFFICES ASSUME IInv, [Next]_vars PROVE HoldersOnTheBooks'
  OBVIOUS
<1> USE ConstantsAssumption DEF IInv, TypeOK, outbound, history
<1>0. ASSUME UNCHANGED <<keyed, index, shared, failed, holders>> PROVE HoldersOnTheBooks'
  BY <1>0 DEF HoldersOnTheBooks
<1>1. ASSUME NEW p \in Peer, NEW g \in Gen, Join(p, g) PROVE HoldersOnTheBooks'
  BY <1>0, <1>1 DEF Join
<1>2. ASSUME NEW p \in Peer, Leave(p) PROVE HoldersOnTheBooks'
  BY <1>0, <1>2 DEF Leave
<1>3. ASSUME NEW p \in Peer, Disconnect(p) PROVE HoldersOnTheBooks'
  BY <1>0, <1>3 DEF Disconnect
<1>4. CASE Outage
  BY <1>0, <1>4 DEF Outage
<1>5. CASE Refresh
  BY <1>0, <1>5 DEF Refresh
<1>6. CASE Roll
  BY <1>0, <1>6 DEF Roll
<1>7. CASE FinishShare
  <2>1. PICK o \in Outcome(send.targets) :
           /\ failed' = (failed \ send.targets) \cup Unreached(send.targets, o.reached)
           /\ shared' = shared \cup o.reached
           /\ holders' = [holders EXCEPT ![index] = @ \cup o.delivered]
    BY <1>7 DEF FinishShare
  <2>2. o.delivered \subseteq send.targets
    BY <2>1, OutcomeBounds
  <2>3. keyed /\ keyed' = keyed /\ index' = index
    BY <1>7 DEF FinishShare, SendInFlight
  <2>4. holders'[index] = holders[index] \cup o.delivered
    BY <2>1
  <2>5. send.targets \subseteq shared' \cup failed' /\ shared \cup failed \subseteq shared' \cup failed'
    BY <2>1 DEF Unreached
  <2> QED BY <2>2, <2>3, <2>4, <2>5 DEF HoldersOnTheBooks
<1>8. CASE FinishRotate
  <2> DEFINE next == IF keyed THEN NextIndex(index) ELSE 0
  <2>1. PICK o \in Outcome(send.targets) :
           /\ failed' = Unreached(send.targets, o.reached)
           /\ shared' = o.reached
           /\ holders' = [holders EXCEPT ![next] = o.delivered]
    BY <1>8 DEF FinishRotate
  <2>2. o.delivered \subseteq send.targets
    BY <2>1, OutcomeBounds
  <2>3. next \in Index /\ index' = next
    BY <1>8, NextIndexInRange DEF FinishRotate, Index
  <2>4. holders'[index'] = o.delivered
    BY <2>1, <2>3
  <2>5. send.targets \subseteq shared' \cup failed'
    BY <2>1 DEF Unreached
  <2> QED BY <2>2, <2>4, <2>5 DEF HoldersOnTheBooks
<1>9. ASSUME NEW k \in pending, Use(k) PROVE HoldersOnTheBooks'
  BY <1>9 DEF Use, HoldersOnTheBooks
<1>10. CASE Tick
  BY <1>0, <1>10 DEF Tick
<1>11. CASE UNCHANGED vars
  BY <1>0, <1>11 DEF vars
<1> QED BY <1>1, <1>2, <1>3, <1>4, <1>5, <1>6, <1>7, <1>8, <1>9, <1>10, <1>11 DEF Next

-----------------------------------------------------------------------------
\* A send that cannot deliver without saying so delivers what it reports.
LEMMA OutcomeExact ==
    ASSUME ~LostAck, NEW T, NEW o \in Outcome(T)
    PROVE  o.reached = o.delivered
<1>1. CASE outage
  BY <1>1 DEF Outcome
<1>2. CASE ~outage
  BY <1>2 DEF Outcome
<1> QED BY <1>1, <1>2

\* The key in use is not the current one while another waits to replace it.
LEMMA InUseIsOld ==
    ASSUME TypeOK, UseOrder, NEW k \in pending
    PROVE  inUse \in Index /\ inUse # index
<1> USE ConstantsAssumption
<1>1. keyed /\ inUse \in Index
  BY DEF UseOrder
<1>2. index = NextIndex(inUse) \/ index = NextIndex(NextIndex(inUse))
  BY <1>1 DEF UseOrder
<1> QED BY <1>1, <1>2 DEF NextIndex, Index

\* While sends report what they deliver, every step keeps the books exact.
LEMMA ExactStep == IInv /\ BooksAreExact /\ [Next]_vars => BooksAreExact'
<1> SUFFICES ASSUME IInv, BooksAreExact, [Next]_vars, ~LostAck PROVE BooksAreExact'
  BY DEF BooksAreExact
<1> USE ConstantsAssumption DEF IInv, TypeOK, outbound, history
<1>0. ASSUME UNCHANGED <<keyed, index, shared, holders>> PROVE BooksAreExact'
  BY <1>0 DEF BooksAreExact
<1>1. ASSUME NEW p \in Peer, NEW g \in Gen, Join(p, g) PROVE BooksAreExact'
  BY <1>0, <1>1 DEF Join
<1>2. ASSUME NEW p \in Peer, Leave(p) PROVE BooksAreExact'
  BY <1>0, <1>2 DEF Leave
<1>3. ASSUME NEW p \in Peer, Disconnect(p) PROVE BooksAreExact'
  BY <1>0, <1>3 DEF Disconnect
<1>4. CASE Outage
  BY <1>0, <1>4 DEF Outage
<1>5. CASE Refresh
  BY <1>0, <1>5 DEF Refresh
<1>6. CASE Roll
  BY <1>0, <1>6 DEF Roll
<1>7. CASE FinishShare
  <2>1. PICK o \in Outcome(send.targets) :
           /\ shared' = shared \cup o.reached
           /\ holders' = [holders EXCEPT ![index] = @ \cup o.delivered]
    BY <1>7 DEF FinishShare
  <2>2. o.reached = o.delivered
    BY <2>1, OutcomeExact
  <2>3. keyed /\ keyed' = keyed /\ index' = index
    BY <1>7 DEF FinishShare, SendInFlight
  <2>4. holders'[index] = holders[index] \cup o.delivered
    BY <2>1
  <2> QED BY <2>1, <2>2, <2>3, <2>4 DEF BooksAreExact
<1>8. CASE FinishRotate
  <2> DEFINE next == IF keyed THEN NextIndex(index) ELSE 0
  <2>1. PICK o \in Outcome(send.targets) :
           /\ shared' = o.reached
           /\ holders' = [holders EXCEPT ![next] = o.delivered]
    BY <1>8 DEF FinishRotate
  <2>2. o.reached = o.delivered
    BY <2>1, OutcomeExact
  <2>3. next \in Index /\ index' = next
    BY <1>8, NextIndexInRange DEF FinishRotate, Index
  <2>4. holders'[index'] = o.delivered
    BY <2>1, <2>3
  <2> QED BY <2>1, <2>2, <2>4 DEF BooksAreExact
<1>9. ASSUME NEW k \in pending, Use(k) PROVE BooksAreExact'
  <2>1. inUse # index
    BY InUseIsOld
  <2>2. UNCHANGED <<keyed, index, shared>> /\ holders' = [holders EXCEPT ![inUse] = {}]
    BY <1>9 DEF Use
  <2> QED BY <2>1, <2>2 DEF BooksAreExact
<1>10. CASE Tick
  BY <1>0, <1>10 DEF Tick
<1>11. CASE UNCHANGED vars
  BY <1>0, <1>11 DEF vars
<1> QED BY <1>1, <1>2, <1>3, <1>4, <1>5, <1>6, <1>7, <1>8, <1>9, <1>10, <1>11 DEF Next

-----------------------------------------------------------------------------
\* Every step keeps a peer's joining no later than now.
LEMMA JoinedBeforeStep == IInv /\ [Next]_vars => JoinedBefore'
<1> SUFFICES ASSUME IInv, [Next]_vars PROVE JoinedBefore'
  OBVIOUS
<1> USE ConstantsAssumption DEF IInv, TypeOK, outbound, history
<1>0. ASSUME UNCHANGED <<age, joinAge>> PROVE JoinedBefore'
  BY <1>0 DEF JoinedBefore
<1>1. ASSUME NEW p \in Peer, NEW g \in Gen, Join(p, g) PROVE JoinedBefore'
  BY <1>1 DEF Join, JoinedBefore
<1>2. ASSUME NEW p \in Peer, Leave(p) PROVE JoinedBefore'
  BY <1>2 DEF Leave, JoinedBefore
<1>3. ASSUME NEW p \in Peer, Disconnect(p) PROVE JoinedBefore'
  BY <1>0, <1>3 DEF Disconnect
<1>4. CASE Outage
  BY <1>0, <1>4 DEF Outage
<1>5. CASE Refresh
  BY <1>0, <1>5 DEF Refresh
<1>6. CASE Roll
  BY <1>0, <1>6 DEF Roll
<1>7. CASE FinishShare
  BY <1>0, <1>7 DEF FinishShare
<1>8. CASE FinishRotate
  BY <1>8 DEF FinishRotate, JoinedBefore
<1>9. ASSUME NEW k \in pending, Use(k) PROVE JoinedBefore'
  BY <1>0, <1>9 DEF Use
<1>10. CASE Tick
  <2>1. age' >= age /\ age' \in Nat /\ joinAge' = joinAge
    BY <1>10 DEF Tick, Least
  <2> QED BY <2>1 DEF JoinedBefore
<1>11. CASE UNCHANGED vars
  BY <1>0, <1>11 DEF vars
<1> QED BY <1>1, <1>2, <1>3, <1>4, <1>5, <1>6, <1>7, <1>8, <1>9, <1>10, <1>11 DEF Next

\* A member that joined before now is young while the key is.
LEMMA YoungByAge ==
    ASSUME TypeOK, JoinedBefore, age < Grace
    PROVE  \A m \in Member : Young(m)
<1> SUFFICES ASSUME NEW m \in Member PROVE joinAge[m[1]] < Grace
  BY DEF Young
<1>1. m[1] \in Peer
  BY DEF Member
<1>2. joinAge[m[1]] <= age /\ joinAge[m[1]] \in Nat /\ age \in Nat
  BY <1>1, ConstantsAssumption DEF JoinedBefore, TypeOK
<1> QED BY <1>2, ConstantsAssumption

\* What roll decides to send the current key to is young.
LEMMA RollTargetsYoung ==
    ASSUME IInv, Roll, pc' = "sending", send'.kind = "share"
    PROVE  \A m \in send'.targets : Young(m)
<1> USE ConstantsAssumption DEF IInv, TypeOK
<1> DEFINE plan == Plan(members)
<1>0. keyed => \A m \in shared \cup failed : Young(m)
  BY DEF OnlyYoung
<1>1. ASSUME NEW T, NEW w, ShareWith(T, w) PROVE send'.targets = T
  BY <1>1 DEF ShareWith, EndTurn, StartSend
<1>2. CASE ~plan.rotate /\ plan.targets = {} /\ ShareWith(members, 0)
  <2>1. keyed /\ members \subseteq shared
    BY <1>2 DEF Plan, Fresh, Retry, StillValid
  <2> QED BY <1>0, <1>1, <1>2, <2>1
<1>3. CASE ~plan.rotate /\ plan.targets # {} /\ ShareWith(plan.targets, 0)
  <2>1. keyed /\ plan.targets = Fresh(members) \cup Retry(members)
        /\ (Fresh(members) = {} \/ ~GraceOver)
    BY <1>3 DEF Plan
  <2>2. Retry(members) \subseteq failed
    BY DEF Retry
  <2>3. CASE Fresh(members) = {}
    BY <1>0, <1>1, <1>3, <2>1, <2>2, <2>3
  <2>4. CASE ~GraceOver
    <3>1. \A m \in Member : Young(m)
      BY <2>4, YoungByAge DEF GraceOver
    <3>2. plan.targets \subseteq Member
      BY <2>1 DEF Fresh, Retry
    <3> QED BY <1>1, <1>3, <3>1, <3>2
  <2> QED BY <2>1, <2>3, <2>4
<1>4. CASE /\ plan.rotate /\ RotationWait > 0
           /\ ShareWith(Unshared(plan.targets), RotationWait)
  <2>1. age < Grace
    BY <1>4 DEF RotationWait
  <2>2. \A m \in Member : Young(m)
    BY <2>1, YoungByAge
  <2>3. Unshared(plan.targets) \subseteq Member
    BY DEF Unshared, Plan, Fresh, Retry
  <2> QED BY <1>1, <1>4, <2>2, <2>3
<1>5. ~EndTurn(0)
  BY DEF EndTurn
<1>6. ASSUME NEW T PROVE ~StartSend("rotate", T, 0)
  BY DEF StartSend
<1> QED BY <1>2, <1>3, <1>4, <1>5, <1>6 DEF Roll

-----------------------------------------------------------------------------
\* Every step keeps the current key within its grace period.
LEMMA OnlyYoungStep == IInv /\ [Next]_vars => OnlyYoung'
<1> SUFFICES ASSUME IInv, [Next]_vars PROVE OnlyYoung'
  OBVIOUS
<1> USE ConstantsAssumption DEF IInv, TypeOK, outbound, history, loop, own, world
<1> DEFINE Books == IF keyed THEN shared \cup failed \cup holders[index] ELSE {}
           Flight == IF pc = "sending" /\ send.kind = "share" THEN send.targets ELSE {}
<1>t. Books \subseteq Member /\ Flight \subseteq Member
  BY DEF Send
<1>y. OnlyYoung <=> \A m \in Books \cup Flight : Young(m)
  BY DEF OnlyYoung
<1>z. OnlyYoung' <=> \A m \in Books' \cup Flight' : Young(m)'
  BY DEF OnlyYoung
<1>0. ASSUME UNCHANGED <<roster, joinAge>>, Books' \cup Flight' \subseteq Books \cup Flight
      PROVE  OnlyYoung'
  BY <1>0, <1>y, <1>z DEF Young
<1>1. ASSUME NEW p \in Peer, NEW g \in Gen, Join(p, g) PROVE OnlyYoung'
  <2>1. Books' \cup Flight' = Books \cup Flight
    BY <1>1 DEF Join
  <2>2. <<p, g>> \notin Books \cup Flight
    BY <1>1 DEF Join, Unused
  <2>3. ASSUME NEW m \in Books \cup Flight PROVE Young(m)'
    <3>1. m = <<m[1], m[2]>> /\ m[1] \in Peer
      BY <1>t DEF Member
    <3>2. CASE m[1] = p
      <4>1. m[2] # g
        BY <2>2, <3>1, <3>2
      <4>2. roster'[m[1]] = g
        BY <1>1, <3>2 DEF Join
      <4> QED BY <4>1, <4>2 DEF Young
    <3>3. CASE m[1] # p
      <4>1. roster'[m[1]] = roster[m[1]] /\ joinAge'[m[1]] = joinAge[m[1]]
        BY <1>1, <3>1, <3>3 DEF Join
      <4> QED BY <1>y, <4>1 DEF Young
    <3> QED BY <3>2, <3>3
  <2> QED BY <1>z, <2>1, <2>3
<1>2. ASSUME NEW p \in Peer, Leave(p) PROVE OnlyYoung'
  <2>1. Books' \cup Flight' = Books \cup Flight
    BY <1>2 DEF Leave
  <2>2. ASSUME NEW m \in Books \cup Flight PROVE Young(m)'
    <3>1. m[1] \in Peer /\ m[2] # Out
      BY <1>t DEF Member, Out
    <3>2. CASE m[1] = p
      BY <1>2, <3>1, <3>2 DEF Leave, Young
    <3>3. CASE m[1] # p
      <4>1. roster'[m[1]] = roster[m[1]] /\ joinAge'[m[1]] = joinAge[m[1]]
        BY <1>2, <3>1, <3>3 DEF Leave
      <4> QED BY <1>y, <4>1 DEF Young
    <3> QED BY <3>2, <3>3
  <2> QED BY <1>z, <2>1, <2>2
<1>3. ASSUME NEW p \in Peer, Disconnect(p) PROVE OnlyYoung'
  BY <1>0, <1>3 DEF Disconnect
<1>4. CASE Outage
  BY <1>0, <1>4 DEF Outage
<1>5. CASE Refresh
  BY <1>0, <1>5 DEF Refresh
<1>6. CASE Roll
  <2>1. Books' = Books /\ roster' = roster /\ joinAge' = joinAge
    BY <1>6 DEF Roll
  <2>2. \A m \in Flight' : Young(m)
    BY <1>6, RollTargetsYoung
  <2> QED BY <1>y, <1>z, <2>1, <2>2 DEF Young
<1>7. CASE FinishShare
  <2>1. PICK o \in Outcome(send.targets) :
           /\ failed' = (failed \ send.targets) \cup Unreached(send.targets, o.reached)
           /\ shared' = shared \cup o.reached
           /\ holders' = [holders EXCEPT ![index] = @ \cup o.delivered]
    BY <1>7 DEF FinishShare
  <2>2. o.delivered \subseteq send.targets /\ o.reached \subseteq send.targets
    BY <2>1, OutcomeBounds
  <2>3. keyed /\ keyed' = keyed /\ index' = index /\ Flight = send.targets
    BY <1>7 DEF FinishShare, SendInFlight
  <2>4. holders'[index] = holders[index] \cup o.delivered
    BY <2>1
  <2>5. Books' \subseteq Books \cup Flight
    BY <2>1, <2>2, <2>3, <2>4 DEF Unreached
  <2>6. Flight' = {} /\ roster' = roster /\ joinAge' = joinAge
    BY <1>7 DEF FinishShare, EndTurn
  <2> QED BY <1>0, <2>5, <2>6
<1>8. CASE FinishRotate
  <2>1. PICK o \in Outcome(send.targets) :
           /\ failed' = Unreached(send.targets, o.reached)
           /\ shared' = o.reached
           /\ holders' = [holders EXCEPT ![IF keyed THEN NextIndex(index) ELSE 0] = o.delivered]
    BY <1>8 DEF FinishRotate
  <2>2. joinAge' = [p \in Peer |-> 0] /\ Flight' = {}
    BY <1>8 DEF FinishRotate, EndTurn
  <2>3. TypeOK'
    BY TypeStep
  <2>4. Books' \subseteq Member
    BY <2>3
  <2>5. \A m \in Member : Young(m)'
    BY <2>2 DEF Young, Member
  <2> QED BY <1>z, <2>2, <2>4, <2>5
<1>9. ASSUME NEW k \in pending, Use(k) PROVE OnlyYoung'
  <2>1. Books' \subseteq Books /\ Flight' = Flight
    BY <1>9 DEF Use
  <2> QED BY <1>0, <1>9, <2>1 DEF Use
<1>10. CASE Tick
  BY <1>0, <1>10 DEF Tick
<1>11. CASE UNCHANGED vars
  BY <1>0, <1>11 DEF vars
<1> QED BY <1>1, <1>2, <1>3, <1>4, <1>5, <1>6, <1>7, <1>8, <1>9, <1>10, <1>11 DEF Next

-----------------------------------------------------------------------------
LEMMA IInvStep == IInv /\ [Next]_vars => IInv'
<1> SUFFICES ASSUME IInv, [Next]_vars PROVE IInv'
  OBVIOUS
<1>1. TypeOK'
  BY TypeStep DEF IInv
<1> QED BY <1>1, UseOrderStep, SendInFlightStep, BooksStep, JoinedBeforeStep,
          OnlyYoungStep DEF IInv

\* The inductive invariant holds of every reachable state.
THEOREM Inductive == Spec => []IInv
BY InitIInv, IInvStep, PTL DEF Spec

\* Every variable keeps its type.
THEOREM TypeCorrect == Spec => []TypeOK
<1>1. IInv => TypeOK
  BY DEF IInv
<1> QED BY <1>1, Inductive, PTL

\* Whoever was given the current key is on the distributor's books.
THEOREM Booked == Spec => []HoldersOnTheBooks
<1>1. IInv => HoldersOnTheBooks
  BY DEF IInv
<1> QED BY <1>1, Inductive, PTL

\* When a send delivers what it reports, the distributor knows exactly who holds
\* the current key.
THEOREM Exact == Spec => []BooksAreExact
<1>1. Init => BooksAreExact
  BY DEF Init, BooksAreExact
<1> QED BY <1>1, ExactStep, Inductive, PTL DEF Spec

\* A member is given the current key only if the key was younger than the grace
\* period when it joined.
THEOREM NoOldKey == Spec => []JoinersGetNoOldKey
<1>1. IInv => JoinersGetNoOldKey
  <2> SUFFICES ASSUME IInv, NEW p \in Peer, keyed, <<p, roster[p]>> \in holders[index]
               PROVE  joinAge[p] < Grace
    BY DEF JoinersGetNoOldKey
  <2>1. Young(<<p, roster[p]>>)
    BY DEF IInv, OnlyYoung
  <2> QED BY <2>1 DEF Young
<1> QED BY <1>1, Inductive, PTL

\* Announced keys wait for use at most two at a time, the older of them due.
THEOREM NoPileUp == Spec => []KeysDoNotPileUp
<1>1. IInv => KeysDoNotPileUp
  <2> SUFFICES ASSUME IInv, NEW k \in pending, NEW l \in pending, k # l
               PROVE  k.left = 0 \/ l.left = 0
    BY DEF KeysDoNotPileUp
  <2>1. keyed
    BY DEF IInv, UseOrder
  <2> QED BY <2>1 DEF IInv, UseOrder
<1> QED BY <1>1, Inductive, PTL

\* Own keys are put in use in the order they were announced and none is skipped.
THEOREM UsedInOrder == Spec => KeysUsedInOrder
<1>1. IInv /\ [Next]_vars =>
        [inUse' # inUse => inUse' = IF inUse = NoKey THEN 0 ELSE NextIndex(inUse)]_vars
  BY UseOrderStep
<1> QED BY <1>1, Inductive, PTL DEF Spec, KeysUsedInOrder

-----------------------------------------------------------------------------
(* How long a peer that has left may count as one that has the key.         *)

\* The longest such a peer is away when a turn begins.
Longest == MaxBusy + Most(Interval, MaxBusy + UseDelay)

\* Whoever the loop has read as a member, or sends to, left in this turn if at all.
LeftInThisTurn ==
    \A p \in Peer : roster[p] = Out =>
        /\ pc = "refreshed" /\ (\E g \in Gen : <<p, g>> \in members) => away[p] <= busy
        /\ pc = "sending" /\ (\E g \in Gen : <<p, g>> \in send.targets) => away[p] <= busy

\* A turn that finds a peer gone rotates, or defers the rotation to the time the
\* key in use is UseDelay old; the peer was there shortly before that key was.
Late(s) ==
    LET gone == away[s[1]] IN
    /\ gone <= age + MaxBusy \/ age >= UseDelay
    /\ pc = "wait" => gone + limit <= Longest
    /\ pc = "refreshed" => gone <= Longest + busy
    /\ pc = "sending" =>
          \/ gone <= busy
          \/ send.kind = "rotate" /\ gone <= Longest + busy
          \/ /\ send.kind = "share" /\ send.wait > 0
             /\ gone + send.wait <= UseDelay + MaxBusy + busy

Lagging ==
    /\ ~keyed => shared = {}
    /\ \A p \in Peer : roster[p] # Out => away[p] = 0
    /\ LeftInThisTurn
    /\ \A s \in shared : roster[s[1]] = Out => Late(s)

LEMMA LongestNat ==
    /\ Longest \in Nat
    /\ MaxBusy + Interval <= Longest
    /\ 2 * MaxBusy + UseDelay <= Longest
    /\ LeaveBound = Longest + MaxBusy
BY ConstantsAssumption DEF Longest, LeaveBound, Most

\* A peer that has just left is not late.
LEMMA JustLeft ==
    ASSUME TypeOK, NEW s \in Member, away[s[1]] = 0
    PROVE  Late(s)
<1> USE ConstantsAssumption, LongestNat DEF TypeOK
<1>1. limit <= Longest /\ busy >= 0 /\ age >= 0
  OBVIOUS
<1> QED BY <1>1 DEF Late

\* The decision of a turn: a peer it misses is one it rotates for, now or after
\* the deferral.
LEMMA RollKeepsLagging == IInv /\ Lagging /\ Roll => Lagging'
<1> SUFFICES ASSUME IInv, Lagging, Roll PROVE Lagging'
  OBVIOUS
<1> USE ConstantsAssumption, LongestNat DEF IInv, TypeOK, outbound, history, world, own
<1> DEFINE plan == Plan(members)
<1>1. UNCHANGED <<keyed, index, age, shared, failed, roster, away, busy>> /\ pc = "refreshed"
  BY DEF Roll, ShareWith, StartSend, EndTurn
<1>2. plan.targets \subseteq members /\ Unshared(plan.targets) \subseteq members
  BY DEF Plan, Fresh, Retry, Unshared
<1>3. RotationWait \in 0 .. UseDelay
  BY DEF RotationWait
<1>4. \/ pc' = "wait" /\ limit' \in 0 .. Interval
      \/ pc' = "sending" /\ send'.targets \subseteq members
  BY <1>2, <1>3 DEF Roll, ShareWith, StartSend, EndTurn, Least
<1>5. LeftInThisTurn'
  BY <1>1, <1>4 DEF LeftInThisTurn, Lagging
<1>6. ASSUME NEW s \in shared, roster[s[1]] = Out PROVE Late(s)'
  <2> DEFINE gone == away[s[1]]
  <2>1. s[1] \in Peer /\ s = <<s[1], s[2]>> /\ gone \in Nat
    BY DEF Member
  <2>2. gone <= age + MaxBusy \/ age >= UseDelay
    BY <1>1, <1>6 DEF Lagging, Late
  <2>3. gone <= Longest + busy
    BY <1>1, <1>6 DEF Lagging, Late
  <2>4. CASE gone <= busy
    BY <1>1, <1>4, <2>1, <2>2, <2>4 DEF Late
  <2>5. CASE ~(gone <= busy)
    <3>1. \A g \in Gen : <<s[1], g>> \notin members
      BY <1>1, <1>6, <2>1, <2>5 DEF Lagging, LeftInThisTurn
    <3>2. ASSUME NEW m \in members PROVE m[1] # s[1]
      <4>1. m = <<m[1], m[2]>> /\ m[2] \in Gen
        BY DEF Member
      <4> QED BY <3>1, <4>1
    <3>3. AnyoneLeft(members)
      BY <3>2 DEF AnyoneLeft, StillValid, Rejoined
    <3>4. plan.rotate /\ plan.targets = members
      BY <3>3 DEF Plan
    <3>5. CASE RotationWait = 0
      <4>1. pc' = "sending" /\ send'.kind = "rotate"
        BY <3>4, <3>5 DEF Roll, StartSend
      <4> QED BY <1>1, <2>2, <2>3, <4>1 DEF Late
    <3>6. CASE RotationWait > 0
      <4>1. RotationWait = UseDelay - age /\ gone + RotationWait <= UseDelay + MaxBusy
        BY <2>1, <2>2, <3>6 DEF RotationWait
      <4>2. ShareWith(Unshared(plan.targets), RotationWait)
        BY <3>4, <3>6 DEF Roll
      <4>3. CASE EndTurn(RotationWait)
        <5>1. pc' = "wait" /\ limit' <= RotationWait /\ limit' \in Nat
          BY <3>6, <4>3, <4>1 DEF EndTurn, Least
        <5> QED BY <1>1, <2>1, <2>2, <4>1, <5>1 DEF Late
      <4>4. CASE StartSend("share", Unshared(plan.targets), RotationWait)
        <5>1. pc' = "sending" /\ send'.kind = "share" /\ send'.wait = RotationWait
          BY <4>4 DEF StartSend
        <5> QED BY <1>1, <2>1, <2>2, <3>6, <4>1, <5>1 DEF Late
      <4> QED BY <4>2, <4>3, <4>4 DEF ShareWith
    <3> QED BY <1>3, <3>5, <3>6
  <2> QED BY <2>4, <2>5
<1> QED BY <1>1, <1>5, <1>6 DEF Lagging

\* Every step keeps who is late within bounds.
LEMMA LaggingStep == IInv /\ Lagging /\ [Next]_vars => Lagging'
<1> SUFFICES ASSUME IInv, Lagging, [Next]_vars PROVE Lagging'
  OBVIOUS
<1> USE ConstantsAssumption, LongestNat DEF IInv, TypeOK, outbound, history, loop, world, own
<1>t. \A s \in shared : s \in Member /\ s[1] \in Peer /\ s[2] \in Gen
  BY DEF Member
<1>0. ASSUME UNCHANGED <<keyed, shared, roster, away, pc, members, send, age, limit, busy>>
      PROVE  Lagging'
  BY <1>0 DEF Lagging, LeftInThisTurn, Late
<1>1. ASSUME NEW p \in Peer, NEW g \in Gen, Join(p, g) PROVE Lagging'
  BY <1>t, <1>1 DEF Join, Lagging, LeftInThisTurn, Late, Out
<1>2. ASSUME NEW p \in Peer, Leave(p) PROVE Lagging'
  <2>1. away[p] = 0 /\ away' = away /\ roster' = [roster EXCEPT ![p] = Out]
        /\ UNCHANGED <<keyed, shared, pc, members, send, age, limit, busy>>
    BY <1>2 DEF Leave, Lagging
  <2>2. LeftInThisTurn'
    BY <2>1 DEF LeftInThisTurn, Lagging
  <2>3. ASSUME NEW s \in shared, roster'[s[1]] = Out PROVE Late(s)'
    <3>1. Late(s)
      BY <1>t, <2>1, <2>3, JustLeft DEF Lagging
    <3> QED BY <2>1, <3>1 DEF Late
  <2> QED BY <2>1, <2>2, <2>3 DEF Lagging
<1>3. ASSUME NEW p \in Peer, Disconnect(p) PROVE Lagging'
  BY <1>0, <1>3 DEF Disconnect
<1>4. CASE Outage
  BY <1>0, <1>4 DEF Outage
<1>5. CASE Refresh
  <2>1. /\ pc = "wait" /\ pc' = "refreshed" /\ busy' = 0 /\ members' = Verified
        /\ UNCHANGED <<keyed, shared, roster, away, age>>
    BY <1>5 DEF Refresh
  <2>2. LeftInThisTurn'
    BY <2>1 DEF LeftInThisTurn, Verified, Out
  <2>3. ASSUME NEW s \in shared, roster[s[1]] = Out PROVE Late(s)'
    <3>1. Late(s) /\ away[s[1]] \in Nat
      BY <1>t, <2>3 DEF Lagging
    <3> QED BY <2>1, <3>1 DEF Late
  <2> QED BY <2>1, <2>2, <2>3 DEF Lagging
<1>6. CASE Roll
  BY <1>6, RollKeepsLagging
<1>7. CASE FinishShare
  <2>1. PICK o \in Outcome(send.targets) : shared' = shared \cup o.reached
    BY <1>7 DEF FinishShare
  <2>2. o.reached \subseteq send.targets /\ send.targets \subseteq Member
    BY <2>1, OutcomeBounds DEF Send
  <2>3. /\ pc = "sending" /\ send.kind = "share" /\ keyed /\ keyed' = keyed
        /\ pc' = "wait" /\ UNCHANGED <<roster, away, age, busy>>
    BY <1>7 DEF FinishShare, EndTurn, SendInFlight
  <2>4. send.wait \in Nat /\ limit' \in Nat /\ limit' <= Interval
        /\ (send.wait > 0 => limit' <= send.wait)
    BY <1>7 DEF FinishShare, EndTurn, Least, Send
  <2>5. ASSUME NEW s \in shared', roster[s[1]] = Out PROVE Late(s)'
    <3>1. s \in Member /\ s[1] \in Peer /\ s = <<s[1], s[2]>> /\ s[2] \in Gen /\ away[s[1]] \in Nat
      BY <1>t, <2>1, <2>2 DEF Member
    <3>2. CASE away[s[1]] <= busy
      BY <2>3, <2>4, <3>1, <3>2 DEF Late
    <3>3. CASE ~(away[s[1]] <= busy)
      <4>1. s \notin send.targets
        BY <2>3, <2>5, <3>1, <3>3 DEF Lagging, LeftInThisTurn
      <4>2. Late(s)
        BY <2>1, <2>2, <2>5, <4>1 DEF Lagging
      <4> QED BY <2>3, <2>4, <3>1, <3>3, <4>2 DEF Late
    <3> QED BY <3>2, <3>3
  <2> QED BY <2>3, <2>5 DEF Lagging, LeftInThisTurn
<1>8. CASE FinishRotate
  <2>1. PICK o \in Outcome(send.targets) : shared' = o.reached
    BY <1>8 DEF FinishRotate
  <2>2. o.reached \subseteq send.targets /\ send.targets \subseteq Member
    BY <2>1, OutcomeBounds DEF Send
  <2>3. /\ pc = "sending" /\ keyed' = TRUE /\ pc' = "wait" /\ age' = 0 /\ limit' = Interval
        /\ UNCHANGED <<roster, away, busy>>
    BY <1>8 DEF FinishRotate, EndTurn
  <2>4. ASSUME NEW s \in shared', roster[s[1]] = Out PROVE Late(s)'
    <3>1. s[1] \in Peer /\ s = <<s[1], s[2]>> /\ s[2] \in Gen /\ away[s[1]] \in Nat
      BY <2>1, <2>2 DEF Member
    <3>2. away[s[1]] <= busy
      BY <2>1, <2>2, <2>3, <2>4, <3>1 DEF Lagging, LeftInThisTurn
    <3> QED BY <2>3, <3>1, <3>2 DEF Late
  <2> QED BY <2>3, <2>4 DEF Lagging, LeftInThisTurn
<1>9. ASSUME NEW k \in pending, Use(k) PROVE Lagging'
  BY <1>0, <1>9 DEF Use
<1>10. CASE Tick
  <2>1. /\ UNCHANGED <<keyed, shared, roster, pc, members, send>>
        /\ \A p \in Peer : /\ roster[p] # Out => away'[p] = 0
                           /\ away'[p] \in Nat /\ away'[p] <= away[p] + 1
    BY <1>10, LeaveBoundNat DEF Tick, Least
  <2>2. /\ pc = "wait" => limit > 0 /\ limit' = limit - 1
        /\ pc # "wait" => busy' = busy + 1
    BY <1>10 DEF Tick
  <2>3. keyed => age' = age + 1 \/ age' >= UseDelay
    BY <1>10 DEF Tick, Least
  <2>4. LeftInThisTurn'
    BY <2>1, <2>2 DEF LeftInThisTurn, Lagging
  <2>5. ASSUME NEW s \in shared, roster[s[1]] = Out PROVE Late(s)'
    <3>1. Late(s) /\ away[s[1]] \in Nat /\ s[1] \in Peer /\ keyed
      BY <1>t, <2>5 DEF Lagging
    <3>2. away'[s[1]] \in Nat /\ away'[s[1]] <= away[s[1]] + 1
      BY <2>1, <3>1
    <3>3. (away[s[1]] <= age + MaxBusy \/ age >= UseDelay)'
      BY <2>3, <3>1, <3>2 DEF Late
    <3>4. (pc = "wait" => away[s[1]] + limit <= Longest)'
      BY <2>1, <2>2, <3>1, <3>2 DEF Late
    <3>5. (pc = "refreshed" => away[s[1]] <= Longest + busy)'
      BY <2>1, <2>2, <3>1, <3>2 DEF Late
    <3>6. CASE pc = "sending"
      <4>1. send.wait \in Nat
        BY DEF Send
      <4> QED BY <2>1, <2>2, <3>1, <3>2, <3>3, <3>6, <4>1 DEF Late
    <3> QED BY <2>1, <3>3, <3>4, <3>5, <3>6 DEF Late
  <2> QED BY <2>1, <2>4, <2>5 DEF Lagging
<1>11. CASE UNCHANGED vars
  BY <1>0, <1>11 DEF vars
<1> QED BY <1>1, <1>2, <1>3, <1>4, <1>5, <1>6, <1>7, <1>8, <1>9, <1>10, <1>11 DEF Next

\* A peer that is away for LeaveBound ticks and is not booked as failed does not
\* have the key in use, unless another waits to replace it.
THEOREM LeaversAreRotatedOut == Spec => []BookedLeaverLosesKey
<1>1. Init => Lagging
  BY DEF Init, Lagging, LeftInThisTurn
<1>2. IInv /\ Lagging => BookedLeaverLosesKey
  <2> SUFFICES ASSUME IInv, Lagging, NEW p \in Peer, NEW g \in Gen,
                      away[p] > LeaveBound, keyed, <<p, g>> \in holders[index]
               PROVE  <<p, g>> \in failed
    BY DEF BookedLeaverLosesKey
  <2> DEFINE s == <<p, g>>
  <2>1. s \in shared \cup failed
    BY DEF IInv, HoldersOnTheBooks
  <2>2. roster[p] = Out /\ away[p] \in Nat
    BY ConstantsAssumption, LeaveBoundNat DEF Lagging, IInv, TypeOK
  <2>3. ~Late(s)
    <3>1. /\ pc \in {"wait", "refreshed", "sending"} /\ limit \in Nat
          /\ busy \in Nat /\ busy <= MaxBusy /\ send.wait \in Nat
      BY ConstantsAssumption DEF IInv, TypeOK, Send
    <3> QED BY <2>2, <3>1, LongestNat, ConstantsAssumption DEF Late
  <2> QED BY <2>1, <2>2, <2>3 DEF Lagging
<1> QED BY <1>1, <1>2, LaggingStep, Inductive, PTL DEF Spec

-----------------------------------------------------------------------------
(* The receiving end, CallKeyReceive, for any senders, indices, length of    *)
(* the queue and bounds.                                                     *)

Waiting == {pendingKeys[i] : i \in DOMAIN pendingKeys}
Taken == {latest[s] : s \in DOMAIN latest}
Known == wire \cup Waiting \cup Taken

Counts ==
    /\ \A p \in Sender : made[p] <= sent /\ (made[p] > 0 \/ inCall[p] => gen[p] > 0)

\* What the device has heard of was sent: by a membership that was, under a
\* number that was made.
WasSent(e) ==
    /\ e.ts <= sent
    /\ e.key.gen <= gen[e.key.peer]
    /\ e.key.gen = gen[e.key.peer] => e.key.number < made[e.key.peer]

\* A send bears a time of its own, and of two by one peer the later is not older.
Follows(e, f) ==
    /\ e.ts = f.ts => e = f
    /\ e.key.peer = f.key.peer /\ e.ts < f.ts => ~Older(f.key, e.key)

SentInOrder ==
    /\ \A e \in Known : WasSent(e)
    /\ \A e, f \in Known : Follows(e, f)

\* The UI was given the latest key of each slot.
InstalledIsLatest ==
    \A s \in DOMAIN latest :
        /\ Slot(latest[s].key) = s
        /\ installed[s] = latest[s].key

NoneResolved == \A e \in Waiting : ~Resolved(e, shown)

\* The current key of a peer is under way, waits, was dropped or is in use.
CurrentIsSomewhere ==
    \A p \in Sender : made[p] > 0 =>
        \/ Current(p) \in {e.key : e \in wire \cup Waiting} \cup dropped
        \/ Heard(p)

RInv ==
    /\ ReceiverTypeOK
    /\ Counts
    /\ SentInOrder
    /\ InstalledIsLatest
    /\ NoneResolved
    /\ CurrentIsSomewhere

-----------------------------------------------------------------------------
(* Looking at the pendingKeys keys                                             *)

LEMMA Stepwise ==
    ASSUME NEW n \in Nat, NEW S, 0 \in S, \A i \in 0 .. (n - 1) : i \in S => i + 1 \in S
    PROVE  0 .. n \subseteq S
<1> DEFINE smaller == {ss \in Nat \X Nat : ss[1] < ss[2]}
           missing == {i \in 0 .. n : i \notin S}
<1>1. IsWellFoundedOn(smaller, Nat)
  BY NatLessThanWellFounded DEF OpToRel
<1> SUFFICES ASSUME missing # {} PROVE FALSE
  OBVIOUS
<1>2. missing \subseteq Nat
  OBVIOUS
<1> HIDE DEF smaller
<1>3. PICK x \in missing : \A y \in missing : <<y, x>> \notin smaller
  <2> HIDE DEF missing
  <2> QED BY <1>1, <1>2, WFMin
<1>4. x \in 1 .. n
  OBVIOUS
<1>5. x - 1 \notin missing
  <2>1. <<x - 1, x>> \in smaller
    BY <1>4 DEF smaller
  <2> QED BY <1>3, <2>1
<1> QED BY <1>4, <1>5

Start == [pending |-> <<>>, latest |-> latest, installed |-> installed]

LEMMA LookedIs ==
    ASSUME NEW queue \in Seq(KeyEvent), NEW view
    PROVE  \E f : /\ f[0] = Start
                  /\ \A i \in 1 .. Len(queue) : f[i] = Look(f[i - 1], queue[i], view)
                  /\ Looked(queue, view) = f[Len(queue)]
<1> DEFINE n == Len(queue)
           Body(g, i) == IF i = 0 THEN Start ELSE Look(g[i - 1], queue[i], view)
           S == {m \in 0 .. n : \E g : g = [i \in 0 .. m |-> Body(g, i)]}
<1>0. n \in Nat
  OBVIOUS
<1>1. 0 \in S
  <2>1. \E g : g = [i \in 0 .. 0 |-> Body(g, i)]
    <3> DEFINE g == [i \in 0 .. 0 |-> Start]
    <3>1. g = [i \in 0 .. 0 |-> Body(g, i)]
      OBVIOUS
    <3> QED BY <3>1
  <2> QED BY <1>0, <2>1
<1>2. ASSUME NEW m \in 0 .. (n - 1), m \in S
      PROVE  m + 1 \in S
  <2>1. PICK g : g = [i \in 0 .. m |-> Body(g, i)]
    BY <1>2
  <2> DEFINE h == [i \in 0 .. (m + 1) |->
                      IF i <= m THEN g[i] ELSE Look(g[m], queue[m + 1], view)]
  <2>2. ASSUME NEW i \in 0 .. (m + 1)
        PROVE  h[i] = Body(h, i)
    <3>1. CASE i = 0
      BY <2>1, <3>1
    <3>2. CASE i > 0 /\ i <= m
      <4>1. h[i] = g[i] /\ h[i - 1] = g[i - 1] /\ g[i] = Body(g, i)
        BY <2>1, <3>2
      <4> QED BY <3>2, <4>1
    <3>3. CASE i = m + 1
      BY <3>3
    <3> QED BY <3>1, <3>2, <3>3
  <2>3. h = [i \in 0 .. (m + 1) |-> Body(h, i)]
    BY <2>2
  <2>4. \E q : q = [i \in 0 .. (m + 1) |-> Body(q, i)]
    BY <2>3
  <2> QED BY <1>0, <2>4
<1>3. n \in S
  <2>1. \A m \in 0 .. (n - 1) : m \in S => m + 1 \in S
    BY <1>2
  <2> HIDE DEF S, n
  <2>2. 0 .. n \subseteq S
    BY <1>0, <1>1, <2>1, Stepwise
  <2> QED BY <1>0, <2>2
<1> DEFINE F == CHOOSE g : g = [i \in 0 .. n |-> Body(g, i)]
<1>4. F = [i \in 0 .. n |-> Body(F, i)]
  BY <1>3
<1>5. Looked(queue, view) = F[n]
  BY DEF Looked, Start
<1> HIDE DEF F
<1>6. F[0] = Start /\ \A i \in 1 .. n : F[i] = Look(F[i - 1], queue[i], view)
  BY <1>0, <1>4
<1> QED BY <1>5, <1>6

\* What the first i pendingKeys keys have come to: st.
Looks(st, i, queue, view) ==
    /\ DOMAIN st = {"pending", "latest", "installed"}
    /\ st.pending \in Seq(KeyEvent) /\ Len(st.pending) <= i
    /\ \A j \in DOMAIN st.pending : \E k \in 1 .. i :
          st.pending[j] = queue[k] /\ ~Resolved(queue[k], view)
    /\ DOMAIN st.latest \subseteq Slots /\ DOMAIN st.installed = DOMAIN st.latest
    /\ \A s \in DOMAIN st.latest :
          /\ st.latest[s] \in KeyEvent
          /\ Slot(st.latest[s].key) = s
          /\ st.installed[s] = st.latest[s].key
          /\ \/ s \in DOMAIN latest /\ st.latest[s] = latest[s]
             \/ \E k \in 1 .. i : st.latest[s] = queue[k]
    /\ \A s \in DOMAIN latest : s \in DOMAIN st.latest /\ st.latest[s].ts >= latest[s].ts
    /\ \A k \in 1 .. i :
          \/ \E j \in DOMAIN st.pending : st.pending[j] = queue[k]
          \/ LET slot == Slot(queue[k].key) IN
             slot \in DOMAIN st.latest /\ st.latest[slot].ts >= queue[k].ts

LEMMA SlotTypes ==
    ASSUME NEW k \in KeyOf
    PROVE  Slot(k) \in Slots
<1>1. /\ Indices \in Nat \ {0} /\ MaxGen \in Nat \ {0}
      /\ k.peer \in Sender /\ k.gen \in 1 .. MaxGen /\ k.number \in Nat
  BY ReceiverBounds DEF KeyOf
<1>2. k.number % Indices \in 0 .. (Indices - 1)
  BY <1>1
<1> QED BY <1>1, <1>2 DEF Slot, Slots

LEMMA EventTypes ==
    ASSUME NEW e \in KeyEvent
    PROVE  e.key \in KeyOf /\ e.ts \in Nat
BY DEF KeyEvent

LEMMA LookGoesOn ==
    ASSUME ReceiverTypeOK, NEW queue \in Seq(KeyEvent), NEW view,
           NEW i \in 1 .. Len(queue), NEW st, Looks(st, i - 1, queue, view)
    PROVE  Looks(Look(st, queue[i], view), i, queue, view)
<1> DEFINE e == queue[i]
           slot == Slot(e.key)
<1>0. /\ e \in KeyEvent /\ e.key \in KeyOf /\ e.ts \in Nat /\ slot \in Slots
      /\ i \in Nat /\ i - 1 \in Nat /\ i \in 1 .. i /\ 1 .. (i - 1) \subseteq 1 .. i
      /\ \A k \in 1 .. i : k = i \/ k \in 1 .. (i - 1)
      /\ \A s \in DOMAIN latest : latest[s].ts \in Nat
      /\ \A s \in DOMAIN st.latest : st.latest[s].ts \in Nat
      /\ \A k \in 1 .. i : queue[k].ts \in Nat
  BY SlotTypes, EventTypes DEF ReceiverTypeOK, Looks
<1> HIDE DEF e, slot
<1>1. CASE ~Resolved(e, view)
  <2> DEFINE st2 == [st EXCEPT !.pending = Append(@, e)]
  <2>1. Look(st, e, view) = st2
    BY <1>1 DEF Look
  <2>2. /\ DOMAIN st2 = DOMAIN st
        /\ st2.pending = Append(st.pending, e)
        /\ st2.latest = st.latest /\ st2.installed = st.installed
    BY DEF Looks
  <2>3. /\ st2.pending \in Seq(KeyEvent) /\ Len(st2.pending) = Len(st.pending) + 1
        /\ DOMAIN st2.pending = DOMAIN st.pending \cup {Len(st.pending) + 1}
        /\ \A j \in DOMAIN st.pending : st2.pending[j] = st.pending[j]
        /\ st2.pending[Len(st.pending) + 1] = e
    BY <1>0, <2>2 DEF Looks
  <2> HIDE DEF st2
  <2>4. Len(st2.pending) <= i
    BY <1>0, <2>3 DEF Looks
  <2>5. \A j \in DOMAIN st2.pending : \E k \in 1 .. i :
            st2.pending[j] = queue[k] /\ ~Resolved(queue[k], view)
    <3> TAKE j \in DOMAIN st2.pending
    <3>1. CASE j = Len(st.pending) + 1
      BY <1>0, <1>1, <2>3, <3>1 DEF e
    <3>2. CASE j \in DOMAIN st.pending
      <4>1. PICK k \in 1 .. (i - 1) : st.pending[j] = queue[k] /\ ~Resolved(queue[k], view)
        BY <3>2 DEF Looks
      <4> QED BY <1>0, <2>3, <3>2, <4>1
    <3> QED BY <2>3, <3>1, <3>2
  <2>6. \A k \in 1 .. i :
          \/ \E j \in DOMAIN st2.pending : st2.pending[j] = queue[k]
          \/ LET s == Slot(queue[k].key) IN
             s \in DOMAIN st.latest /\ st.latest[s].ts >= queue[k].ts
    BY <1>0, <2>3 DEF Looks, e
  <2>7. \A s \in DOMAIN st.latest :
          /\ st.latest[s] \in KeyEvent
          /\ Slot(st.latest[s].key) = s
          /\ st.installed[s] = st.latest[s].key
          /\ \/ s \in DOMAIN latest /\ st.latest[s] = latest[s]
             \/ \E k \in 1 .. i : st.latest[s] = queue[k]
    BY <1>0 DEF Looks
  <2>8. /\ \A s \in DOMAIN latest : s \in DOMAIN st.latest /\ st.latest[s].ts >= latest[s].ts
        /\ DOMAIN st.latest \subseteq Slots /\ DOMAIN st.installed = DOMAIN st.latest
        /\ DOMAIN st2 = {"pending", "latest", "installed"}
        /\ st2.latest = st.latest /\ st2.installed = st.installed
        /\ st2.pending \in Seq(KeyEvent)
    BY <2>2, <2>3 DEF Looks
  <2>9. Looks(st2, i, queue, view)
    BY <2>4, <2>5, <2>6, <2>7, <2>8 DEF Looks
  <2> QED BY <2>1, <2>9 DEF e
<1>2. CASE Resolved(e, view) /\ OutOfOrder(e, st.latest)
  <2>1. Look(st, e, view) = st
    BY <1>2 DEF Look, Take
  <2>2. slot \in DOMAIN st.latest /\ st.latest[slot].ts >= e.ts
    BY <1>0, <1>2 DEF OutOfOrder, slot
  <2>3. Looks(st, i, queue, view)
    BY <1>0, <2>2 DEF Looks, e, slot
  <2> QED BY <2>1, <2>3 DEF e
<1>3. CASE Resolved(e, view) /\ ~OutOfOrder(e, st.latest)
  <2> DEFINE repeated == slot \in DOMAIN st.latest /\ st.latest[slot].key = e.key
             lat == With(st.latest, slot, e)
             ins == IF repeated THEN st.installed ELSE With(st.installed, slot, e.key)
             st2 == [st EXCEPT !.latest = lat, !.installed = ins]
  <2>1. Look(st, e, view) = st2
    BY <1>3 DEF Look, Take, slot, Looks
  <2>2. /\ DOMAIN st2 = DOMAIN st /\ st2.pending = st.pending
        /\ st2.latest = lat /\ st2.installed = ins
    BY DEF Looks
  <2>3. /\ DOMAIN lat = DOMAIN st.latest \cup {slot}
        /\ lat[slot] = e
        /\ \A s \in DOMAIN st.latest : s # slot => lat[s] = st.latest[s]
    BY DEF With
  <2>4. /\ DOMAIN ins = DOMAIN st.latest \cup {slot}
        /\ ins[slot] = e.key
        /\ \A s \in DOMAIN st.latest : s # slot => ins[s] = st.installed[s]
    <3>1. CASE repeated
      BY <3>1 DEF Looks
    <3>2. CASE ~repeated
      BY <3>2 DEF With, Looks
    <3> QED BY <3>1, <3>2
  <2> HIDE DEF lat, ins, st2, repeated
  <2>5. slot \in DOMAIN st.latest => st.latest[slot].ts <= e.ts
    BY <1>0, <1>3 DEF OutOfOrder, slot
  <2>6. \A s \in DOMAIN lat :
          /\ lat[s] \in KeyEvent
          /\ Slot(lat[s].key) = s
          /\ ins[s] = lat[s].key
          /\ \/ s \in DOMAIN latest /\ lat[s] = latest[s]
             \/ \E k \in 1 .. i : lat[s] = queue[k]
    <3> TAKE s \in DOMAIN lat
    <3>1. CASE s = slot
      BY <1>0, <2>3, <2>4, <3>1 DEF e, slot
    <3>2. CASE s # slot
      BY <1>0, <2>3, <2>4, <3>2 DEF Looks
    <3> QED BY <3>1, <3>2
  <2>7. \A s \in DOMAIN latest : s \in DOMAIN lat /\ lat[s].ts >= latest[s].ts
    <3> TAKE s \in DOMAIN latest
    <3>1. s \in DOMAIN st.latest /\ st.latest[s].ts >= latest[s].ts
      BY DEF Looks
    <3>2. CASE s = slot
      BY <1>0, <2>3, <2>5, <3>1, <3>2
    <3>3. CASE s # slot
      BY <2>3, <3>1, <3>3
    <3> QED BY <3>2, <3>3
  <2>8. \A k \in 1 .. i :
          \/ \E j \in DOMAIN st.pending : st.pending[j] = queue[k]
          \/ LET t == Slot(queue[k].key) IN
             t \in DOMAIN lat /\ lat[t].ts >= queue[k].ts
    <3> TAKE k \in 1 .. i
    <3> DEFINE t == Slot(queue[k].key)
    <3>1. CASE k = i
      BY <1>0, <2>3, <3>1 DEF e, slot
    <3>2. CASE k \in 1 .. (i - 1) /\ t \in DOMAIN st.latest /\ st.latest[t].ts >= queue[k].ts
      <4>1. CASE t = slot
        BY <1>0, <2>3, <2>5, <3>2, <4>1
      <4>2. CASE t # slot
        BY <2>3, <3>2, <4>2
      <4> QED BY <4>1, <4>2
    <3>3. CASE k \in 1 .. (i - 1) /\ \E j \in DOMAIN st.pending : st.pending[j] = queue[k]
      BY <3>3
    <3> QED BY <1>0, <3>1, <3>2, <3>3 DEF Looks
  <2>9. \A j \in DOMAIN st.pending : \E k \in 1 .. i :
            st.pending[j] = queue[k] /\ ~Resolved(queue[k], view)
    BY <1>0 DEF Looks
  <2>10. DOMAIN lat \subseteq Slots /\ Len(st.pending) <= i /\ st.pending \in Seq(KeyEvent)
    BY <1>0, <2>3 DEF Looks
  <2>11. Looks(st2, i, queue, view)
    BY <2>2, <2>3, <2>4, <2>6, <2>7, <2>8, <2>9, <2>10 DEF Looks
  <2> QED BY <2>1, <2>11 DEF e
<1> QED BY <1>1, <1>2, <1>3

LEMMA LooksWhole ==
    ASSUME ReceiverTypeOK, InstalledIsLatest, NEW queue \in Seq(KeyEvent), NEW view
    PROVE  Looks(Looked(queue, view), Len(queue), queue, view)
<1> DEFINE n == Len(queue)
<1>1. PICK f : /\ f[0] = Start
               /\ \A i \in 1 .. n : f[i] = Look(f[i - 1], queue[i], view)
               /\ Looked(queue, view) = f[n]
  BY LookedIs
<1> DEFINE S == {i \in 0 .. n : Looks(f[i], i, queue, view)}
<1>2. n \in Nat
  OBVIOUS
<1>3. Looks(Start, 0, queue, view)
  <2>1. /\ DOMAIN Start = {"pending", "latest", "installed"} /\ Start.pending = <<>>
        /\ Start.latest = latest /\ Start.installed = installed
    BY DEF Start
  <2>2. <<>> \in Seq(KeyEvent) /\ Len(<<>>) = 0 /\ DOMAIN <<>> = {} /\ 1 .. 0 = {}
    OBVIOUS
  <2>3. \A s \in DOMAIN latest : latest[s].ts \in Nat
    BY EventTypes DEF ReceiverTypeOK
  <2> QED BY <2>1, <2>2, <2>3 DEF Looks, ReceiverTypeOK, InstalledIsLatest
<1>4. 0 \in S
  BY <1>1, <1>2, <1>3
<1>5. \A i \in 0 .. (n - 1) : i \in S => i + 1 \in S
  <2> TAKE i \in 0 .. (n - 1)
  <2> HAVE i \in S
  <2>1. i + 1 \in 1 .. n /\ (i + 1) - 1 = i
    BY <1>2
  <2>2. Looks(Look(f[(i + 1) - 1], queue[i + 1], view), i + 1, queue, view)
    BY <2>1, LookGoesOn
  <2> QED BY <1>1, <1>2, <2>1, <2>2
<1>6. n \in S
  <2> HIDE DEF S, n
  <2>1. 0 .. n \subseteq S
    BY <1>2, <1>4, <1>5, Stepwise
  <2> QED BY <1>2, <2>1
<1> QED BY <1>1, <1>6

Queued(queue) == {queue[k] : k \in 1 .. Len(queue)}

\* What emit_pending leaves.
LEMMA Emitted ==
    ASSUME ReceiverTypeOK, InstalledIsLatest, legacy' = legacy,
           NEW queue \in Seq(KeyEvent), NEW view, EmitPending(queue, view)
    PROVE  /\ pendingKeys' \in Seq(KeyEvent) /\ Len(pendingKeys') <= Len(queue)
           /\ \A e \in Waiting' : e \in Queued(queue) /\ ~Resolved(e, view)
           /\ DOMAIN latest' \subseteq Slots /\ DOMAIN installed' = DOMAIN latest'
           /\ \A s \in DOMAIN latest' : latest'[s] \in KeyEvent /\ installed'[s] \in KeyOf
           /\ InstalledIsLatest'
           /\ Taken' \subseteq Taken \cup Queued(queue)
           /\ \A s \in DOMAIN latest :
                 s \in DOMAIN latest' /\ latest'[s].ts >= latest[s].ts
           /\ \A e \in Queued(queue) :
                 \/ e \in Waiting'
                 \/ LET slot == Slot(e.key) IN
                    slot \in DOMAIN latest' /\ latest'[slot].ts >= e.ts
<1> DEFINE st == Looked(queue, view)
           n == Len(queue)
<1>1. Looks(st, n, queue, view)
  BY LooksWhole
<1>2. pendingKeys' = st.pending /\ latest' = st.latest /\ installed' = st.installed
  BY DEF EmitPending
<1> HIDE DEF st
<1>3. n \in Nat
  OBVIOUS
<1>4. pendingKeys' \in Seq(KeyEvent) /\ Len(pendingKeys') <= Len(queue)
  BY <1>1, <1>2 DEF Looks
<1>5. ASSUME NEW e \in Waiting'
      PROVE  e \in Queued(queue) /\ ~Resolved(e, view)
  <2>1. PICK j \in DOMAIN st.pending : e = st.pending[j]
    BY <1>2 DEF Waiting
  <2>2. PICK k \in 1 .. n : st.pending[j] = queue[k] /\ ~Resolved(queue[k], view)
    BY <1>1 DEF Looks
  <2> QED BY <2>1, <2>2 DEF Queued
<1>6. /\ DOMAIN latest' \subseteq Slots /\ DOMAIN installed' = DOMAIN latest'
      /\ \A s \in DOMAIN latest' : latest'[s] \in KeyEvent /\ installed'[s] \in KeyOf
  BY <1>1, <1>2, EventTypes DEF Looks
<1>7. InstalledIsLatest'
  BY <1>1, <1>2 DEF Looks, InstalledIsLatest, Slot
<1>8. ASSUME NEW e \in Taken'
      PROVE  e \in Taken \cup Queued(queue)
  <2>1. PICK s \in DOMAIN st.latest : e = st.latest[s]
    BY <1>2, <1>8 DEF Taken
  <2>2. \/ s \in DOMAIN latest /\ st.latest[s] = latest[s]
        \/ \E k \in 1 .. n : st.latest[s] = queue[k]
    BY <1>1 DEF Looks
  <2> QED BY <2>1, <2>2 DEF Taken, Queued
<1>9. \A s \in DOMAIN latest : s \in DOMAIN latest' /\ latest'[s].ts >= latest[s].ts
  BY <1>1, <1>2 DEF Looks
<1>10. ASSUME NEW e \in Queued(queue)
       PROVE  \/ e \in Waiting'
              \/ LET slot == Slot(e.key) IN
                 slot \in DOMAIN latest' /\ latest'[slot].ts >= e.ts
  <2>1. PICK k \in 1 .. n : e = queue[k]
    BY DEF Queued
  <2>2. CASE \E j \in DOMAIN st.pending : st.pending[j] = queue[k]
    BY <1>2, <2>1, <2>2 DEF Waiting
  <2>3. CASE LET slot == Slot(queue[k].key) IN
             slot \in DOMAIN st.latest /\ st.latest[slot].ts >= queue[k].ts
    BY <1>2, <2>1, <2>3
  <2> QED BY <1>1, <2>2, <2>3 DEF Looks
<1> QED BY <1>4, <1>5, <1>6, <1>7, <1>8, <1>9, <1>10

-----------------------------------------------------------------------------
(* The steps                                                               *)

LEMMA KeyTypes ==
    ASSUME NEW k \in KeyOf
    PROVE  /\ k.peer \in Sender /\ k.gen \in Nat /\ k.number \in Nat
           /\ k.gen \in 1 .. MaxGen /\ k.number \in 0 .. MaxSends
           /\ k = [peer |-> k.peer, gen |-> k.gen, number |-> k.number]
BY DEF KeyOf

LEMMA KnownTypes ==
    ASSUME ReceiverTypeOK
    PROVE  \A e \in Known : e \in KeyEvent /\ e.key \in KeyOf /\ e.ts \in Nat
BY EventTypes DEF ReceiverTypeOK, Known, Waiting, Taken

LEMMA StateTypes ==
    ASSUME ReceiverTypeOK
    PROVE  /\ MaxSends \in Nat /\ MaxGen \in Nat /\ Capacity \in Nat \ {0} /\ sent \in Nat
           /\ \A p \in Sender : made[p] \in Nat /\ gen[p] \in Nat
BY ReceiverBounds DEF ReceiverTypeOK

\* Nothing that a peer sent after its current key is another key.
LEMMA NewestIsCurrent ==
    ASSUME ReceiverTypeOK, SentInOrder, NEW p \in Sender, made[p] > 0,
           NEW x \in Known, NEW y \in Known, x.key = Current(p),
           Slot(y.key) = Slot(x.key), y.ts >= x.ts
    PROVE  y.key = Current(p)
<1>1. /\ x.ts \in Nat /\ y.ts \in Nat /\ x.key \in KeyOf /\ y.key \in KeyOf
      /\ made[p] \in Nat /\ gen[p] \in Nat
  BY KnownTypes, StateTypes
<1>2. CASE x.ts = y.ts
  BY <1>2 DEF SentInOrder, Follows
<1>3. CASE x.ts < y.ts
  <2>1. x.key.peer = p /\ x.key.gen = gen[p] /\ x.key.number = made[p] - 1
    BY DEF Current, KeyNumber
  <2>2. y.key.peer = p
    BY <2>1 DEF Slot
  <2>3. ~Older(y.key, x.key) /\ WasSent(y)
    BY <1>3, <2>1, <2>2 DEF SentInOrder, Follows
  <2>4. y.key.gen = gen[p] /\ y.key.number = made[p] - 1
    BY <1>1, <2>1, <2>2, <2>3, KeyTypes DEF Older, WasSent
  <2> QED BY <1>1, <2>2, <2>4, KeyTypes DEF Current, KeyNumber
<1> QED BY <1>1, <1>2, <1>3

\* A step of the device that looks at the keys in queue: all that waited, but
\* for those it drops, and maybe one that has come.
LEMMA DeviceStep ==
    ASSUME RInv, NEW queue \in Seq(KeyEvent), EmitPending(queue, shown'),
           Len(queue) <= Capacity, Queued(queue) \subseteq Known,
           wire' \subseteq wire,
           \A e \in wire \cup Waiting : e \in wire' \cup Queued(queue) \/ e.key \in dropped',
           dropped \subseteq dropped', dropped' \subseteq KeyOf,
           shown' \in [Sender -> 0 .. MaxGen],
           UNCHANGED <<legacy, gen, inCall, made, sent>>
    PROVE  /\ RInv'
           /\ \A s \in DOMAIN installed : ~Older(installed'[s], installed[s])
<1> USE DEF RInv
<1>1. /\ pendingKeys' \in Seq(KeyEvent) /\ Len(pendingKeys') <= Len(queue)
      /\ \A e \in Waiting' : e \in Queued(queue) /\ ~Resolved(e, shown')
      /\ DOMAIN latest' \subseteq Slots /\ DOMAIN installed' = DOMAIN latest'
      /\ \A s \in DOMAIN latest' : latest'[s] \in KeyEvent /\ installed'[s] \in KeyOf
      /\ InstalledIsLatest'
      /\ Taken' \subseteq Taken \cup Queued(queue)
      /\ \A s \in DOMAIN latest : s \in DOMAIN latest' /\ latest'[s].ts >= latest[s].ts
      /\ \A e \in Queued(queue) :
            \/ e \in Waiting'
            \/ LET slot == Slot(e.key) IN
               slot \in DOMAIN latest' /\ latest'[slot].ts >= e.ts
  BY Emitted
<1>2. ReceiverTypeOK'
  <2>1. Len(pendingKeys') <= Capacity
    BY <1>1, StateTypes
  <2> QED BY <1>1, <2>1 DEF ReceiverTypeOK, Slots, KeyEvent, KeyOf
<1>3. Known' \subseteq Known
  BY <1>1 DEF Known
<1>4. Counts'
  BY DEF Counts
<1>5. SentInOrder'
  BY <1>3 DEF SentInOrder, WasSent, Follows, Older
<1>6. NoneResolved'
  BY <1>1 DEF NoneResolved, Resolved, HasService
<1>7. CurrentIsSomewhere'
  <2> SUFFICES ASSUME NEW p \in Sender, made[p] > 0,
                      Current(p) \notin {e.key : e \in wire' \cup Waiting'} \cup dropped'
               PROVE  Heard(p)'
    BY DEF CurrentIsSomewhere, Current, KeyNumber
  <2> DEFINE slot == Slot(Current(p))
  <2>1. ASSUME NEW x \in Known, x.key = Current(p), slot \in DOMAIN latest',
               latest'[slot].ts >= x.ts
        PROVE  Heard(p)'
    <3>1. latest'[slot] \in Known /\ Slot(latest'[slot].key) = slot
          /\ installed'[slot] = latest'[slot].key
      BY <1>1, <1>3, <2>1 DEF InstalledIsLatest, Slot, Known, Taken
    <3>2. latest'[slot].key = Current(p)
      BY <2>1, <3>1, NewestIsCurrent
    <3> QED BY <1>1, <2>1, <3>1, <3>2 DEF Heard, Slot, Current, KeyNumber
  <2>2. CASE \E x \in wire \cup Waiting : x.key = Current(p)
    <3>1. PICK x \in wire \cup Waiting : x.key = Current(p)
      BY <2>2
    <3>2. x \in Queued(queue) /\ x \notin Waiting' /\ x \in Known
      BY <3>1 DEF Known
    <3> QED BY <1>1, <2>1, <3>1, <3>2
  <2>3. CASE Heard(p)
    <3>1. slot \in DOMAIN latest /\ latest[slot].key = Current(p) /\ latest[slot] \in Known
      BY <2>3 DEF Heard, ReceiverTypeOK, InstalledIsLatest, Known, Taken
    <3> QED BY <1>1, <2>1, <3>1
  <2> QED BY <2>2, <2>3 DEF CurrentIsSomewhere
<1>8. ASSUME NEW s \in DOMAIN installed
      PROVE  ~Older(installed'[s], installed[s])
  <2>1. /\ s \in DOMAIN latest /\ s \in DOMAIN latest'
        /\ latest[s] \in Known /\ latest'[s] \in Known
        /\ latest'[s].ts >= latest[s].ts
    BY <1>1, <1>3 DEF ReceiverTypeOK, Known, Taken
  <2>2. /\ installed[s] = latest[s].key /\ installed'[s] = latest'[s].key
        /\ Slot(latest[s].key) = s /\ Slot(latest'[s].key) = s
    BY <1>1, <2>1 DEF InstalledIsLatest, Slot
  <2>3. latest[s].key.peer = latest'[s].key.peer
    BY <2>2 DEF Slot
  <2>4. CASE latest'[s].ts = latest[s].ts
    <3>1. latest'[s] = latest[s]
      BY <2>1, <2>4 DEF SentInOrder, Follows
    <3> QED BY <2>1, <2>2, <3>1, KnownTypes, KeyTypes DEF Older
  <2>5. CASE latest'[s].ts > latest[s].ts
    BY <2>1, <2>2, <2>3, <2>5 DEF SentInOrder, Follows
  <2> QED BY <2>1, <2>4, <2>5, KnownTypes
<1> QED BY <1>1, <1>2, <1>4, <1>5, <1>6, <1>7, <1>8

LEMMA RInit == ASSUME ReceiverInit PROVE RInv
<1> USE DEF ReceiverInit
<1>1. ReceiverTypeOK
  BY ReceiverBounds DEF ReceiverTypeOK
<1>2. Known = {} /\ Waiting = {}
  BY DEF Known, Waiting, Taken
<1> QED BY <1>1, <1>2 DEF RInv, Counts, SentInOrder, InstalledIsLatest, NoneResolved,
           CurrentIsSomewhere

LEMMA JoinStep == ASSUME RInv, NEW p \in Sender, JoinAs(p) PROVE RInv'
<1> USE DEF RInv, JoinAs, keyState
<1>1. ReceiverTypeOK'
  BY StateTypes DEF ReceiverTypeOK
<1>2. Known' = Known /\ Waiting' = Waiting
  BY DEF Known, Waiting, Taken
<1>3. Counts'
  BY StateTypes DEF Counts, ReceiverTypeOK
<1>4. SentInOrder'
  <2>1. ASSUME NEW e \in Known, WasSent(e)
        PROVE  WasSent(e)'
    <3>1. /\ e.key \in KeyOf /\ e.key.peer \in Sender /\ e.key.gen \in Nat
          /\ gen[e.key.peer] \in Nat /\ gen[p] \in Nat
      BY KnownTypes, KeyTypes, StateTypes
    <3>2. /\ gen' = [gen EXCEPT ![p] = gen[p] + 1] /\ gen \in [Sender -> 0 .. MaxGen]
          /\ made' = [made EXCEPT ![p] = 0] /\ made \in [Sender -> 0 .. MaxSends]
          /\ sent' = sent
      BY DEF ReceiverTypeOK
    <3>3. CASE e.key.peer = p
      BY <2>1, <3>1, <3>2, <3>3 DEF WasSent
    <3>4. CASE e.key.peer # p
      BY <2>1, <3>1, <3>2, <3>4 DEF WasSent
    <3> QED BY <3>3, <3>4
  <2> QED BY <1>2, <2>1 DEF SentInOrder, Follows, Older
<1>5. InstalledIsLatest' /\ NoneResolved'
  BY <1>2 DEF InstalledIsLatest, NoneResolved, Slot, Resolved, HasService
<1>6. CurrentIsSomewhere'
  BY <1>2 DEF CurrentIsSomewhere, Heard, Slot, Current, KeyNumber, ReceiverTypeOK
<1> QED BY <1>1, <1>3, <1>4, <1>5, <1>6

LEMMA LeaveStep == ASSUME RInv, NEW p \in Sender, LeaveAs(p) PROVE RInv'
<1> USE DEF RInv, LeaveAs, keyState
<1>1. ReceiverTypeOK'
  BY DEF ReceiverTypeOK
<1>2. Known' = Known /\ Waiting' = Waiting
  BY DEF Known, Waiting, Taken
<1>3. Counts'
  BY DEF Counts, ReceiverTypeOK
<1> QED BY <1>1, <1>2, <1>3 DEF SentInOrder, WasSent, Follows, Older, InstalledIsLatest,
           NoneResolved, Slot, Resolved, HasService, CurrentIsSomewhere, Heard, Current,
           KeyNumber

\* A new key, or the current one again, is sent.
LEMMA SendStep ==
    ASSUME RInv, NEW p \in Sender, SendNew(p) \/ SendAgain(p)
    PROVE  RInv'
<1> USE DEF RInv
<1>1. PICK n \in Nat :
         /\ inCall[p] /\ sent < MaxSends /\ sent' = sent + 1
         /\ wire' = wire \cup {[key |-> KeyNumber(p, n), ts |-> sent + 1]}
         /\ made' \in [Sender -> Nat] /\ made'[p] \in {made[p], made[p] + 1} /\ made'[p] = n + 1
         /\ \A q \in Sender \ {p} : made'[q] = made[q]
         /\ UNCHANGED <<legacy, gen, inCall, shown, pendingKeys, latest, installed, dropped>>
  <2>0. made[p] \in Nat /\ made \in [Sender -> Nat]
    BY StateTypes DEF ReceiverTypeOK
  <2>1. CASE SendNew(p)
    BY <2>0, <2>1 DEF SendNew, SendKey, keyState
  <2>2. CASE SendAgain(p)
    <3>1. made[p] - 1 \in Nat
      BY <2>0, <2>2 DEF SendAgain
    <3> QED BY <2>0, <2>2, <3>1 DEF SendAgain, SendKey, keyState, Current
  <2> QED BY <2>1, <2>2
<1>2. /\ sent \in Nat /\ MaxSends \in Nat /\ \A q \in Sender : made[q] \in Nat /\ gen[q] \in Nat
      /\ made[p] <= sent /\ gen[p] \in 1 .. MaxGen
  <2>1. /\ sent \in Nat /\ MaxSends \in Nat /\ MaxGen \in Nat
        /\ \A q \in Sender : made[q] \in Nat /\ gen[q] \in Nat
    BY StateTypes
  <2>2. made[p] <= sent /\ gen[p] > 0
    BY <1>1 DEF Counts
  <2>3. gen[p] \in 0 .. MaxGen
    BY DEF ReceiverTypeOK
  <2> QED BY <2>1, <2>2, <2>3
<1>3. PICK e \in KeyEvent :
         /\ e = [key |-> KeyNumber(p, n), ts |-> sent + 1]
         /\ e.key.peer = p /\ e.key.gen = gen[p] /\ e.key.number = n
         /\ e.key = KeyNumber(p, n) /\ e.ts = sent + 1
  <2>1. n \in 0 .. MaxSends /\ sent + 1 \in 1 .. MaxSends
    BY <1>1, <1>2
  <2>2. KeyNumber(p, n) \in KeyOf
    BY <1>2, <2>1 DEF KeyOf, KeyNumber
  <2>3. [key |-> KeyNumber(p, n), ts |-> sent + 1] \in KeyEvent
    BY <2>1, <2>2 DEF KeyEvent
  <2> QED BY <2>3 DEF KeyNumber
<1>4. Known' = Known \cup {e} /\ Waiting' = Waiting /\ wire' = wire \cup {e}
  BY <1>1, <1>3 DEF Known, Waiting, Taken
<1>5. ReceiverTypeOK'
  <2>1. made' \in [Sender -> 0 .. MaxSends] /\ sent' \in 0 .. MaxSends
    <3>1. \A q \in Sender : made'[q] \in 0 .. MaxSends
      <4> TAKE q \in Sender
      <4>1. CASE q = p
        BY <1>1, <1>2, <4>1
      <4>2. CASE q # p
        BY <1>1, <1>2, <4>2 DEF ReceiverTypeOK
      <4> QED BY <4>1, <4>2
    <3> QED BY <1>1, <1>2, <3>1
  <2> QED BY <1>1, <1>4, <2>1 DEF ReceiverTypeOK, Slots, KeyEvent, KeyOf
<1>6. Counts'
  BY <1>1, <1>2 DEF Counts
<1>7. SentInOrder'
  <2>1. ASSUME NEW x \in Known
        PROVE  /\ WasSent(x)'
               /\ x.ts < e.ts
               /\ x.key.peer = p => ~Older(e.key, x.key)
    <3>1. WasSent(x) /\ x.key \in KeyOf /\ x.ts \in Nat
      BY <2>1, KnownTypes DEF SentInOrder
    <3>2. x.key.peer \in Sender /\ x.key.gen \in Nat /\ x.key.number \in Nat
      BY <3>1, KeyTypes
    <3>3. made'[x.key.peer] >= made[x.key.peer]
      BY <1>1, <1>2, <3>2
    <3>4. WasSent(x)' /\ x.ts < e.ts
      BY <1>1, <1>2, <1>3, <3>1, <3>2, <3>3 DEF WasSent
    <3>5. x.key.peer = p => ~Older(e.key, x.key)
      BY <1>1, <1>2, <1>3, <3>1, <3>2, <3>4 DEF WasSent, Older
    <3> QED BY <3>4, <3>5
  <2>2. WasSent(e)'
    BY <1>1, <1>2, <1>3 DEF WasSent
  <2>3. \A x \in Known : x.ts \in Nat
    BY KnownTypes
  <2>4. \A x, y \in Known \cup {e} : Follows(x, y)
    BY <1>2, <1>3, <2>1, <2>3 DEF SentInOrder, Follows
  <2> QED BY <1>4, <2>1, <2>2, <2>4 DEF SentInOrder, Follows, Older
<1>8. InstalledIsLatest' /\ NoneResolved'
  BY <1>1, <1>4 DEF InstalledIsLatest, NoneResolved, Slot, Resolved, HasService
<1>9. CurrentIsSomewhere'
  <2> SUFFICES ASSUME NEW q \in Sender, made'[q] > 0
               PROVE  \/ Current(q)' \in {x.key : x \in wire' \cup Waiting'} \cup dropped'
                      \/ Heard(q)'
    BY DEF CurrentIsSomewhere
  <2>1. CASE q = p
    <3>1. Current(q)' = e.key
      BY <1>1, <1>3, <2>1 DEF Current, KeyNumber
    <3> QED BY <1>4, <3>1
  <2>2. CASE q # p
    <3>1. made'[q] = made[q] /\ Current(q)' = Current(q)
      BY <1>1, <2>2 DEF Current, KeyNumber
    <3>2. Heard(q)' = Heard(q)
      BY <1>1, <3>1 DEF Heard, Slot
    <3> QED BY <1>1, <1>4, <3>1, <3>2 DEF CurrentIsSomewhere
  <2> QED BY <2>1, <2>2
<1> QED BY <1>5, <1>6, <1>7, <1>8, <1>9

LEMMA RefreshStep ==
    ASSUME RInv, RefreshRoster
    PROVE  RInv' /\ \A s \in DOMAIN installed : ~Older(installed'[s], installed[s])
<1> USE DEF RInv
<1>1. /\ pendingKeys \in Seq(KeyEvent) /\ Queued(pendingKeys) = Waiting
      /\ Len(pendingKeys) <= Capacity
  BY DEF ReceiverTypeOK, Queued, Waiting
<1>2. shown' \in [Sender -> 0 .. MaxGen]
  BY StateTypes DEF RefreshRoster, ReceiverTypeOK
<1>3. /\ EmitPending(pendingKeys, shown') /\ UNCHANGED <<legacy, gen, inCall, made, sent, wire, dropped>>
  BY DEF RefreshRoster, senders
<1> QED BY <1>1, <1>2, <1>3, DeviceStep DEF Known, ReceiverTypeOK

LEMMA ReceiveStep ==
    ASSUME RInv, NEW e \in wire, Receive(e)
    PROVE  RInv' /\ \A s \in DOMAIN installed : ~Older(installed'[s], installed[s])
<1> USE DEF RInv
<1> DEFINE rest == IF Full THEN Tail(pendingKeys) ELSE pendingKeys
           queue == Append(rest, e)
<1>0. /\ e \in KeyEvent /\ pendingKeys \in Seq(KeyEvent) /\ Len(pendingKeys) <= Capacity
      /\ Capacity \in Nat \ {0}
  BY StateTypes DEF ReceiverTypeOK
<1>1. /\ EmitPending(queue, shown') /\ wire' = wire \ {e} /\ shown' = shown
      /\ dropped' = IF Full THEN dropped \cup {Head(pendingKeys).key} ELSE dropped
      /\ UNCHANGED <<legacy, gen, inCall, made, sent>>
  BY DEF Receive, senders
<1>2. /\ rest \in Seq(KeyEvent) /\ Len(rest) < Capacity
      /\ {rest[i] : i \in 1 .. Len(rest)} \subseteq Waiting
      /\ \A x \in Waiting : x \in {rest[i] : i \in 1 .. Len(rest)} \/ x.key \in dropped'
      /\ dropped' \subseteq KeyOf
  <2>1. CASE Full
    <3>1. Len(pendingKeys) = Capacity /\ pendingKeys # <<>>
      BY <1>0, <2>1 DEF Full
    <3>2. /\ Tail(pendingKeys) \in Seq(KeyEvent) /\ Len(Tail(pendingKeys)) = Len(pendingKeys) - 1
          /\ \A i \in 1 .. (Len(pendingKeys) - 1) : Tail(pendingKeys)[i] = pendingKeys[i + 1]
          /\ Head(pendingKeys) = pendingKeys[1] /\ 1 \in DOMAIN pendingKeys
      BY <1>0, <3>1
    <3>3. \A x \in Waiting : x = pendingKeys[1] \/ x \in {rest[i] : i \in 1 .. Len(rest)}
      <4> TAKE x \in Waiting
      <4>1. PICK i \in DOMAIN pendingKeys : x = pendingKeys[i]
        BY DEF Waiting
      <4>2. CASE i > 1
        <5>1. i - 1 \in 1 .. Len(rest) /\ rest[i - 1] = x
          BY <1>0, <2>1, <3>2, <4>1, <4>2
        <5> QED BY <5>1
      <4>3. CASE i = 1
        BY <4>1, <4>3
      <4>4. i \in Nat /\ (i > 1 \/ i = 1)
        BY <1>0, <4>1
      <4> QED BY <4>2, <4>3, <4>4
    <3>4. pendingKeys[1].key \in KeyOf
      BY <1>0, <3>2, EventTypes
    <3>5. rest = Tail(pendingKeys) /\ dropped' = dropped \cup {pendingKeys[1].key}
      BY <1>1, <2>1, <3>2
    <3>6. {rest[i] : i \in 1 .. Len(rest)} \subseteq Waiting
      <4> SUFFICES ASSUME NEW i \in 1 .. Len(rest)
                   PROVE  rest[i] \in Waiting
        OBVIOUS
      <4>1. i + 1 \in DOMAIN pendingKeys /\ rest[i] = pendingKeys[i + 1]
        <5>1. Len(rest) = Len(pendingKeys) - 1 /\ rest[i] = Tail(pendingKeys)[i]
          BY <3>2, <3>5
        <5> HIDE DEF rest
        <5>2. i \in 1 .. (Len(pendingKeys) - 1) /\ Len(pendingKeys) \in Nat /\ i + 1 \in 1 .. Len(pendingKeys)
          BY <1>0, <5>1
        <5> QED BY <1>0, <3>2, <5>1, <5>2
      <4> QED BY <4>1 DEF Waiting
    <3>7. Len(rest) < Capacity
      BY <1>0, <3>1, <3>2, <3>5
    <3> HIDE DEF rest
    <3> QED BY <3>2, <3>3, <3>4, <3>5, <3>6, <3>7 DEF ReceiverTypeOK
  <2>2. CASE ~Full
    BY <1>0, <1>1, <2>2 DEF Full, Waiting, ReceiverTypeOK
  <2> QED BY <2>1, <2>2
<1> HIDE DEF rest
<1>3. /\ queue \in Seq(KeyEvent) /\ Len(queue) <= Capacity
      /\ Queued(queue) = {rest[i] : i \in 1 .. Len(rest)} \cup {e}
  <2>1. /\ queue \in Seq(KeyEvent) /\ Len(queue) = Len(rest) + 1
        /\ \A i \in 1 .. Len(rest) : queue[i] = rest[i]
        /\ queue[Len(rest) + 1] = e
    BY <1>0, <1>2
  <2> QED BY <1>0, <1>2, <2>1 DEF Queued
<1> HIDE DEF queue
<1>4. Queued(queue) \subseteq Known
  BY <1>2, <1>3 DEF Known
<1>5. \A x \in wire \cup Waiting : x \in wire' \cup Queued(queue) \/ x.key \in dropped'
  BY <1>1, <1>2, <1>3
<1>6. wire' \subseteq wire /\ dropped \subseteq dropped' /\ shown' \in [Sender -> 0 .. MaxGen]
  BY <1>1 DEF ReceiverTypeOK
<1> QED BY <1>1, <1>2, <1>3, <1>4, <1>5, <1>6, DeviceStep

LEMMA RStep ==
    ASSUME RInv, [ReceiverNext]_receiverVars
    PROVE  RInv' /\ \A s \in DOMAIN installed : ~Older(installed'[s], installed[s])
<1>0. ASSUME UNCHANGED installed
      PROVE  \A s \in DOMAIN installed : ~Older(installed'[s], installed[s])
  BY <1>0, KeyTypes DEF RInv, ReceiverTypeOK, Older
<1>1. ASSUME NEW p \in Sender, JoinAs(p) \/ LeaveAs(p) \/ SendNew(p) \/ SendAgain(p)
      PROVE  RInv' /\ UNCHANGED installed
  <2>1. RInv'
    BY <1>1, JoinStep, LeaveStep, SendStep
  <2> QED BY <1>1, <2>1 DEF JoinAs, LeaveAs, SendNew, SendAgain, SendKey, keyState
<1>2. CASE RefreshRoster
  BY <1>2, RefreshStep
<1>3. ASSUME NEW e \in wire, Receive(e)
      PROVE  RInv' /\ \A s \in DOMAIN installed : ~Older(installed'[s], installed[s])
  BY <1>3, ReceiveStep
<1>4. CASE UNCHANGED receiverVars
  <2> USE <1>4 DEF receiverVars
  <2>1. ReceiverTypeOK' /\ Counts'
    BY DEF RInv, ReceiverTypeOK, Counts
  <2>2. Known' = Known /\ Waiting' = Waiting
    BY DEF Known, Waiting, Taken
  <2>3. SentInOrder'
    BY <2>2 DEF RInv, SentInOrder, WasSent, Follows, Older
  <2>4. InstalledIsLatest' /\ NoneResolved'
    BY <2>2 DEF RInv, InstalledIsLatest, NoneResolved, Slot, Resolved, HasService
  <2>5. CurrentIsSomewhere'
    BY <2>2 DEF RInv, CurrentIsSomewhere, Heard, Slot, Current, KeyNumber
  <2> QED BY <1>0, <2>1, <2>3, <2>4, <2>5 DEF RInv
<1> QED BY <1>0, <1>1, <1>2, <1>3, <1>4 DEF ReceiverNext

-----------------------------------------------------------------------------
(* The properties                                                          *)

\* The invariant of the receiving end: what is known of a peer's keys was sent in
\* order, and its current key is under way, waits, was dropped or is in use.
THEOREM ReceiverInductive == ReceiverSpec => []RInv
<1>1. RInv /\ [ReceiverNext]_receiverVars => RInv'
  BY RStep
<1> QED BY <1>1, RInit, PTL DEF ReceiverSpec

\* ShownIsHeard: a member whose membership is shown, with a focus, and whose current
\* key has arrived can be heard, whichever came first, unless the key was dropped for want of
\* room (receive_call_key, emit_pending, refresh).
THEOREM ShownMembersAreHeard == ReceiverSpec => []ShownIsHeard
<1>1. RInv => ShownIsHeard
  <2> SUFFICES ASSUME RInv, NEW p \in Sender, inCall[p], made[p] > 0, shown[p] = gen[p],
                      HasService(p, gen[p]),
                      Current(p) \notin {e.key : e \in wire} \cup dropped
               PROVE  Heard(p)
    BY DEF ShownIsHeard
  <2>1. ASSUME NEW e \in Waiting
        PROVE  e.key # Current(p)
    <3>1. ~Resolved(e, shown) /\ gen[p] > 0
      BY <2>1 DEF RInv, NoneResolved, Counts
    <3>2. e.key = Current(p) => e.key.peer = p /\ e.key.gen = gen[p]
      BY DEF Current, KeyNumber
    <3> QED BY <3>1, <3>2, StateTypes DEF Resolved, HasService, RInv
  <2> QED BY <2>1 DEF RInv, CurrentIsSomewhere
<1> QED BY <1>1, ReceiverInductive, PTL

\* NeverBackwards: in whatever order keys arrive and resolve, the UI never falls back
\* from a key of a peer to one the peer made earlier for the same slot (emit_pending).
THEOREM NeverFallsBack == ReceiverSpec => NeverBackwards
<1>1. RInv /\ [ReceiverNext]_receiverVars =>
         [\A s \in DOMAIN installed : ~Older(installed'[s], installed[s])]_receiverVars
  BY RStep
<1> QED BY <1>1, ReceiverInductive, PTL DEF ReceiverSpec, NeverBackwards
=============================================================================
