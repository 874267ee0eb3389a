---------------------------- MODULE SearchPeersProofs ----------------------------
(* That the four records of an attempt to copy the index agree, that a device *)
(* is tried once in a query, and that only its own copy completes it, for any *)
(* devices, queries, requests and offers.                                     *)
EXTENDS SearchPeers, SequenceTheorems, WellFoundedInduction, TLAPS

-----------------------------------------------------------------------------
(* The invariant                                                           *)

Candidate(n) == [device : asked, rank : mode.ranks, status : Status, session : 0 .. n]

\* A device answers a query once and is tried under a session of its own, which
\* it gets when it is picked.
Fit(cs) ==
    /\ \A i, j \in DOMAIN cs : i # j =>
          /\ cs[i].device # cs[j].device
          /\ cs[i].session = cs[j].session => cs[i].session = None
    /\ \A i \in DOMAIN cs : cs[i].status = "waiting" <=> cs[i].session = None

PhaseAndCurrent ==
    /\ phase.session = None <=> current = None
    /\ phase = Discovering => \A i \in DOMAIN candidates : candidates[i].status = "waiting"

\* A session is opened once, by the call that picked it, and given up only later.
LoopsFit ==
    /\ \A l \in loops : l.at # "advance" => l.session # None
    /\ \A l, m \in loops :
          l.at # "advance" /\ m.at # "advance" /\ l.session = m.session => l = m
    /\ \A l \in loops : l.at = "open" =>
          /\ l.session \notin slots \cup rtc \cup ui
          /\ \A m \in loops : m.at = "advance" => m.session # l.session
          /\ \A i \in DOMAIN candidates :
                candidates[i].status = "failed" => candidates[i].session # l.session
    /\ \A l \in loops : l.at = "advance" => l.session \notin slots \cup rtc

\* The targets of a query are chosen once, and before anybody answers it.
AskingFits ==
    /\ \A a \in asking : a.query <= query
    /\ \A a, b \in asking : a.query = b.query => a = b
    /\ \A a \in asking :
          a.at = "targets" /\ a.query = query => asked = {} /\ candidates = <<>>

IInv ==
    /\ TypeOK
    /\ OneAttempt
    /\ Fit(candidates)
    /\ PhaseAndCurrent
    /\ LoopsFit
    /\ AskingFits

-----------------------------------------------------------------------------
(* Ranking and picking                                                     *)

LEMMA LeastExists ==
    ASSUME NEW S \in SUBSET Nat, S # {}
    PROVE  Min(S) \in S
<1> DEFINE smaller == {ss \in Nat \X Nat : ss[1] < ss[2]}
<1>1. IsWellFoundedOn(smaller, Nat)
  BY NatLessThanWellFounded DEF OpToRel
<1> HIDE DEF smaller
<1>2. \E x \in S : \A y \in S : <<y, x>> \notin smaller
  BY <1>1, WFMin
<1>3. PICK x \in S : \A y \in S : <<y, x>> \notin smaller
  BY <1>2
<1>4. ASSUME NEW y \in S
      PROVE  x <= y
  <2>1. <<y, x>> \notin smaller /\ <<y, x>> \in Nat \X Nat
    BY <1>3
  <2> QED BY <2>1 DEF smaller
<1> QED BY <1>4 DEF Min

LEMMA FunctionIsSeq ==
    ASSUME NEW S, NEW n \in Nat, NEW f \in [1 .. n -> S]
    PROVE  f \in Seq(S)
BY SeqDef

LEMMA RankedIs ==
    ASSUME NEW S, NEW cs \in Seq(S), NEW r \in Ranked(cs)
    PROVE  /\ r \in Seq(S) /\ DOMAIN r = DOMAIN cs
           /\ \E p \in [DOMAIN cs -> DOMAIN cs] :
                 /\ \A i, j \in DOMAIN cs : p[i] = p[j] => i = j
                 /\ r = [i \in DOMAIN cs |-> cs[p[i]]]
<1>1. PICK p \in Orders(cs) : r = [i \in DOMAIN cs |-> cs[p[i]]]
  BY DEF Ranked
<1>2. /\ p \in [DOMAIN cs -> DOMAIN cs]
      /\ \A i, j \in DOMAIN cs : p[i] = p[j] => i = j
  BY DEF Orders, Bijection, Injection, IsInjective
<1>3. Len(cs) \in Nat /\ DOMAIN cs = 1 .. Len(cs) /\ cs \in [1 .. Len(cs) -> S]
  BY LenProperties
<1>4. r \in [1 .. Len(cs) -> S]
  BY <1>1, <1>2, <1>3
<1>5. r \in Seq(S)
  BY <1>3, <1>4, SeqDef
<1> QED BY <1>1, <1>2, <1>3, <1>4, <1>5

LEMMA RankedFits ==
    ASSUME NEW S, NEW cs \in Seq(S), Fit(cs), NEW r \in Ranked(cs)
    PROVE  /\ Fit(r)
           /\ \A i \in DOMAIN r : \E j \in DOMAIN cs : r[i] = cs[j]
<1>1. PICK p \in [DOMAIN cs -> DOMAIN cs] :
          /\ \A i, j \in DOMAIN cs : p[i] = p[j] => i = j
          /\ r = [i \in DOMAIN cs |-> cs[p[i]]]
  BY RankedIs
<1> QED BY <1>1 DEF Fit

Marked(cs, i, st) == [cs EXCEPT ![i].status = st]
Picked(cs, i, s) == [cs EXCEPT ![i].status = "trying", ![i].session = s]

\* What a change of one candidate's status leaves.
LEMMA MarkedIs ==
    ASSUME NEW n \in Nat, NEW cs \in Seq(Candidate(n)), NEW i \in DOMAIN cs, NEW st \in Status,
           NEW m, m = Marked(cs, i, st)
    PROVE  /\ m \in Seq(Candidate(n)) /\ DOMAIN m = DOMAIN cs
           /\ \A j \in DOMAIN cs : /\ m[j].device = cs[j].device /\ m[j].rank = cs[j].rank
                                   /\ m[j].session = cs[j].session
                                   /\ m[j].status = IF j = i THEN st ELSE cs[j].status
           /\ Fit(cs) /\ cs[i].status # "waiting" /\ st # "waiting" => Fit(m)
<1>1. Len(cs) \in Nat /\ DOMAIN cs = 1 .. Len(cs) /\ cs \in [1 .. Len(cs) -> Candidate(n)]
  BY LenProperties
<1>2. \A j \in DOMAIN cs : cs[j] \in Candidate(n)
  BY <1>1
<1>3. \A j \in DOMAIN cs : m[j] = IF j = i THEN [cs[j] EXCEPT !.status = st] ELSE cs[j]
  BY <1>1 DEF Marked
<1>4. \A j \in DOMAIN cs :
         /\ m[j] \in Candidate(n)
         /\ m[j].device = cs[j].device /\ m[j].rank = cs[j].rank
         /\ m[j].session = cs[j].session
         /\ m[j].status = IF j = i THEN st ELSE cs[j].status
  BY <1>2, <1>3 DEF Candidate
<1>5. m \in [1 .. Len(cs) -> Candidate(n)]
  BY <1>1, <1>4 DEF Marked
<1>6. m \in Seq(Candidate(n))
  BY <1>1, <1>5, FunctionIsSeq
<1>7. Fit(cs) /\ cs[i].status # "waiting" /\ st # "waiting" => Fit(m)
  BY <1>1, <1>4, <1>5 DEF Fit
<1> QED BY <1>1, <1>4, <1>5, <1>6, <1>7

\* What a pick leaves: the best candidate is tried under a session of its own.
LEMMA PickedIs ==
    ASSUME NEW n \in Nat, NEW cs \in Seq(Candidate(n)), NEW i \in DOMAIN cs, NEW m,
           m = Picked(cs, i, n + 1)
    PROVE  /\ m \in Seq(Candidate(n + 1)) /\ DOMAIN m = DOMAIN cs
           /\ \A j \in DOMAIN cs :
                 /\ m[j].device = cs[j].device /\ m[j].rank = cs[j].rank
                 /\ m[j].session = IF j = i THEN n + 1 ELSE cs[j].session
                 /\ m[j].status = IF j = i THEN "trying" ELSE cs[j].status
           /\ Fit(cs) /\ cs[i].status = "waiting" => Fit(m)
<1>1. Len(cs) \in Nat /\ DOMAIN cs = 1 .. Len(cs) /\ cs \in [1 .. Len(cs) -> Candidate(n)]
  BY LenProperties
<1>2. \A j \in DOMAIN cs : cs[j] \in Candidate(n)
  BY <1>1
<1>3. \A j \in DOMAIN cs :
         m[j] = IF j = i THEN [[cs[j] EXCEPT !.status = "trying"] EXCEPT !.session = n + 1]
                ELSE cs[j]
  BY <1>1 DEF Picked
<1>4. \A j \in DOMAIN cs :
         /\ m[j].device = cs[j].device /\ m[j].rank = cs[j].rank
         /\ m[j].session = IF j = i THEN n + 1 ELSE cs[j].session
         /\ m[j].status = IF j = i THEN "trying" ELSE cs[j].status
  BY <1>2, <1>3 DEF Candidate, Status
<1>5. \A j \in DOMAIN cs : m[j] \in Candidate(n + 1)
  <2> TAKE j \in DOMAIN cs
  <2>1. cs[j] \in Candidate(n + 1)
    BY <1>2 DEF Candidate
  <2>2. [cs[j] EXCEPT !.status = "trying"] \in Candidate(n + 1)
    BY <2>1 DEF Candidate, Status
  <2>3. \A c \in Candidate(n + 1) : [c EXCEPT !.session = n + 1] \in Candidate(n + 1)
    <3>1. n + 1 \in 0 .. (n + 1)
      OBVIOUS
    <3> QED BY <3>1 DEF Candidate
  <2> QED BY <1>3, <2>1, <2>2, <2>3
<1>6. m \in [1 .. Len(cs) -> Candidate(n + 1)]
  BY <1>1, <1>5 DEF Picked
<1>7. m \in Seq(Candidate(n + 1))
  BY <1>1, <1>6, FunctionIsSeq
<1>8. ASSUME Fit(cs), cs[i].status = "waiting"
      PROVE  Fit(m)
  <2>1. \A j \in DOMAIN cs : cs[j].session \in 0 .. n
    BY <1>2 DEF Candidate
  <2>2. DOMAIN m = DOMAIN cs
    BY <1>1, <1>6
  <2>3. /\ \A j \in DOMAIN cs : cs[j].session # n + 1
        /\ n + 1 # None
    BY <2>1 DEF None
  <2>4. \A j \in DOMAIN m : m[j].status = "waiting" <=> m[j].session = None
    BY <1>4, <1>8, <2>2, <2>3 DEF Fit
  <2>5. \A j, k \in DOMAIN m : j # k => m[j].device # m[k].device
    BY <1>4, <1>8, <2>2 DEF Fit
  <2>6. ASSUME NEW j \in DOMAIN m, NEW k \in DOMAIN m, j # k, m[j].session = m[k].session
        PROVE  m[j].session = None
    BY <1>4, <1>8, <2>2, <2>3, <2>6 DEF Fit
  <2> QED BY <2>4, <2>5, <2>6 DEF Fit
<1> QED BY <1>1, <1>4, <1>6, <1>7, <1>8

LEMMA AppendedIs ==
    ASSUME NEW n \in Nat, NEW cs \in Seq(Candidate(n)), NEW c \in Candidate(n)
    PROVE  /\ Append(cs, c) \in Seq(Candidate(n))
           /\ DOMAIN Append(cs, c) = DOMAIN cs \cup {Len(cs) + 1} /\ Len(cs) + 1 \notin DOMAIN cs
           /\ \A j \in DOMAIN cs : Append(cs, c)[j] = cs[j]
           /\ Append(cs, c)[Len(cs) + 1] = c
<1>1. Len(cs) \in Nat /\ DOMAIN cs = 1 .. Len(cs)
  BY LenProperties
<1>2. /\ Append(cs, c) \in Seq(Candidate(n)) /\ Len(Append(cs, c)) = Len(cs) + 1
      /\ \A j \in 1 .. Len(cs) : Append(cs, c)[j] = cs[j]
      /\ Append(cs, c)[Len(cs) + 1] = c
  BY AppendProperties
<1>3. DOMAIN Append(cs, c) = 1 .. Len(cs) + 1
  BY <1>2, LenProperties
<1> QED BY <1>1, <1>2, <1>3

-----------------------------------------------------------------------------
(* Types                                                                   *)

LEMMA ModeFacts ==
    ASSUME TypeOK
    PROVE  /\ mode.queries \in Nat /\ mode.requests \in Nat /\ mode.devices \subseteq Devices
           /\ mode.calls \subseteq Calls /\ mode.ranks \subseteq Nat
<1>1. mode \in Mode
  BY ModesAssumption DEF TypeOK
<1> QED BY <1>1 DEF Mode

LEMMA CandidateFacts ==
    ASSUME TypeOK
    PROVE  /\ opened \in Nat /\ Sessions \cup {None} = 0 .. opened
           /\ candidates \in Seq(Candidate(opened))
           /\ Len(candidates) \in Nat /\ DOMAIN candidates = 1 .. Len(candidates)
           /\ \A i \in DOMAIN candidates : candidates[i] \in Candidate(opened)
<1>1. opened \in Nat
  BY DEF TypeOK
<1>2. Sessions \cup {None} = 0 .. opened
  BY <1>1 DEF Sessions, None
<1>3. candidates \in Seq(Candidate(opened))
  BY <1>2 DEF TypeOK, Candidate
<1> QED BY <1>1, <1>2, <1>3, LenProperties

LEMMA PhaseType ==
    ASSUME TypeOK
    PROVE  /\ phase.session \in Sessions \cup {None}
           /\ phase.session = None <=> phase \in {Idle, Discovering}
           /\ \A s \in Sessions : Connecting(s).session = s /\ Transferring(s).session = s
           /\ \A s \in Sessions : s # None
BY DEF TypeOK, Idle, Discovering, Connecting, Transferring, Sessions, None

\* Nothing here but the phase, the calls and the sessions that are up.
LEMMA QuietTypes ==
    ASSUME IInv, UNCHANGED <<mode, query, asked, candidates, told, opened>>,
           {allowed', available', wanted', copied', lost'} \subseteq BOOLEAN,
           cancelling' \subseteq {"catchup", "rtc"},
           entering' \subseteq mode.calls,
           phase' \in {Idle, Discovering} \cup {Connecting(s) : s \in Sessions}
                           \cup {Transferring(s) : s \in Sessions},
           current' \in DOMAIN candidates \cup {None}, outcome' \in Outcome,
           asking' \subseteq [query : Queries, at : {"targets", "broadcast"}],
           slots' \subseteq Sessions, rtc' \subseteq Sessions, ui' \subseteq Sessions,
           loops' \subseteq [owner : {Tick} \cup Sessions, at : {"advance", "open", "send"},
                             session : Sessions \cup {None}],
           exchange' \in [Sessions -> {"no", "checked", "copying", "saving"}],
           serving' \subseteq Requests, received' \subseteq Requests
    PROVE  TypeOK'
BY DEF IInv, TypeOK, Sessions, Queries, Requests

LEMMA BestIsEligible ==
    ASSUME NEW S, NEW cs \in Seq(S), Eligible(cs) # {}
    PROVE  Min(Eligible(cs)) \in Eligible(cs) /\ Min(Eligible(cs)) \in DOMAIN cs
<1>1. Len(cs) \in Nat /\ DOMAIN cs = 1 .. Len(cs)
  BY LenProperties
<1>2. Eligible(cs) \in SUBSET Nat /\ Eligible(cs) \subseteq DOMAIN cs
  BY <1>1 DEF Eligible
<1> QED BY <1>2, LeastExists

LEMMA CurrentIs ==
    ASSUME IInv, phase.session # None
    PROVE  /\ current \in DOMAIN candidates /\ candidates[current].status = "trying"
           /\ candidates[current].session = phase.session
           /\ \A i \in DOMAIN candidates : candidates[i].status = "trying" => i = current
BY DEF IInv, OneAttempt, Trying

\* The candidates when one was given up, or none tried yet: nobody is being tried.
LEMMA AdvancedIs ==
    ASSUME IInv, NEW l \in loops, Advances(l.session), NEW cs \in Advanced(l.session)
    PROVE  /\ cs \in Seq(Candidate(opened)) /\ Fit(cs)
           /\ \A i \in DOMAIN cs : cs[i].status # "trying"
           /\ \A i \in DOMAIN cs : \E j \in DOMAIN candidates :
                 /\ cs[i].device = candidates[j].device /\ cs[i].session = candidates[j].session
                 /\ \/ cs[i].status = candidates[j].status
                    \/ cs[i].status = "failed" /\ cs[i].session = l.session
<1>0. /\ TypeOK /\ Fit(candidates) /\ PhaseAndCurrent
      /\ opened \in Nat /\ candidates \in Seq(Candidate(opened))
  BY CandidateFacts DEF IInv
<1>1. CASE l.session = None
  <2>1. cs \in Ranked(candidates) /\ phase = Discovering
    BY <1>1 DEF Advanced, Advances
  <2>2. \A i \in DOMAIN candidates : candidates[i].status = "waiting"
    BY <1>0, <2>1 DEF PhaseAndCurrent
  <2>3. cs \in Seq(Candidate(opened)) /\ DOMAIN cs = DOMAIN candidates
    BY <1>0, <2>1, RankedIs
  <2>4. \A i \in DOMAIN cs : \E j \in DOMAIN candidates : cs[i] = candidates[j]
    BY <1>0, <2>1, <2>3, RankedFits
  <2>5. Fit(cs)
    BY <1>0, <2>1, RankedFits
  <2> QED BY <2>2, <2>3, <2>4, <2>5
<1>2. CASE l.session # None
  <2>1. cs = [candidates EXCEPT ![current].status = "failed"] /\ phase.session = l.session
    BY <1>2 DEF Advanced, Advances
  <2>2. /\ current \in DOMAIN candidates /\ candidates[current].status = "trying"
        /\ candidates[current].session = l.session
        /\ \A i \in DOMAIN candidates : candidates[i].status = "trying" => i = current
    BY <1>2, <2>1, CurrentIs
  <2>3. "failed" \in Status
    BY DEF Status
  <2>4. cs = Marked(candidates, current, "failed")
    BY <2>1 DEF Marked
  <2>5. /\ cs \in Seq(Candidate(opened)) /\ DOMAIN cs = DOMAIN candidates
        /\ \A j \in DOMAIN candidates :
              /\ cs[j].device = candidates[j].device /\ cs[j].session = candidates[j].session
              /\ cs[j].status = IF j = current THEN "failed" ELSE candidates[j].status
        /\ Fit(candidates) /\ candidates[current].status # "waiting" /\ "failed" # "waiting"
           => Fit(cs)
    <3>1. /\ opened \in Nat /\ candidates \in Seq(Candidate(opened))
          /\ current \in DOMAIN candidates
      BY <1>0, <2>2
    <3> QED BY <3>1, <2>3, <2>4, MarkedIs
  <2>6. Fit(cs)
    BY <1>0, <2>2, <2>5
  <2> QED BY <2>2, <2>5, <2>6
<1> QED BY <1>1, <1>2

LEMMA LoopIs ==
    ASSUME IInv, NEW l \in loops
    PROVE  /\ l = Loop(l.owner, l.at, l.session)
           /\ l.session \in Sessions \cup {None} /\ l.owner \in {Tick} \cup Sessions
           /\ l.at \in {"advance", "open", "send"}
           /\ l.at # "advance" => l.session \in Sessions
           /\ \A at \in {"advance", "open", "send"} :
                 /\ [l EXCEPT !.at = at] = Loop(l.owner, at, l.session)
                 /\ Loop(l.owner, at, l.session) \in
                        [owner : {Tick} \cup Sessions, session : Sessions \cup {None},
                         at : {"advance", "open", "send"}]
BY DEF IInv, TypeOK, LoopsFit, Loop

\* The steps that leave the candidates and the targets, and open nothing.
Quiet ==
    \/ Forbid \/ Permit \/ CancelCatchup \/ CancelRtc \/ Choose \/ LosePage
    \/ \E call \in mode.calls : Enter(call)
    \/ \E a \in asking, ok \in BOOLEAN : Broadcast(a, ok)
    \/ \E s \in Sessions : \/ GiveUp(s) \/ Connect(s) \/ Disconnect(s) \/ Exchange(s)
                           \/ Transfer(s) \/ Saved(s) \/ \E room \in BOOLEAN : Copied(s, room)
    \/ \E l \in loops, ok \in BOOLEAN : Requested(l, ok)
    \/ \E r \in Requests : Receive(r) \/ Served(r)
    \/ \E r \in received, gone \in SUBSET serving, unused \in SUBSET Unused :
          Serve(r, gone, unused)

LEMMA QuietType ==
    ASSUME IInv, Quiet
    PROVE  TypeOK'
<1> USE DEF policy, catchup, peers, page, others, Finish, Loop
<1>0. TypeOK
  BY DEF IInv
<1>1. CASE Forbid
  BY <1>0, <1>1, QuietTypes DEF Forbid, Cancel, TypeOK
<1>17. CASE CancelCatchup
  BY <1>0, <1>17, QuietTypes DEF CancelCatchup, TypeOK, Outcome
<1>18. CASE CancelRtc
  BY <1>0, <1>18, QuietTypes DEF CancelRtc, TypeOK
<1>2. CASE Permit
  BY <1>0, <1>2, QuietTypes DEF Permit, TypeOK
<1>3. CASE Choose
  BY <1>0, <1>3, QuietTypes DEF Choose, TypeOK
<1>4. CASE LosePage
  BY <1>0, <1>4, QuietTypes DEF LosePage, TypeOK
<1>5. ASSUME NEW call \in mode.calls, Enter(call)
      PROVE  TypeOK'
  BY <1>0, <1>5, QuietTypes DEF Enter, TypeOK
<1>6. ASSUME NEW a \in asking, NEW ok \in BOOLEAN, Broadcast(a, ok)
      PROVE  TypeOK'
  BY <1>0, <1>6, QuietTypes DEF Broadcast, FinishDiscovery, TypeOK, Outcome
<1>7. ASSUME NEW s \in Sessions, GiveUp(s)
      PROVE  TypeOK'
  BY <1>0, <1>7, QuietTypes DEF GiveUp, TypeOK
<1>8. ASSUME NEW s \in Sessions, Connect(s)
      PROVE  TypeOK'
  BY <1>0, <1>8, QuietTypes DEF Connect, TypeOK
<1>9. ASSUME NEW s \in Sessions, Disconnect(s)
      PROVE  TypeOK'
  BY <1>0, <1>9, QuietTypes DEF Disconnect, TypeOK
<1>10. ASSUME NEW s \in Sessions, Exchange(s)
       PROVE  TypeOK'
  BY <1>0, <1>10, QuietTypes DEF Exchange, Cancel, TypeOK
<1>11. ASSUME NEW s \in Sessions, Transfer(s)
       PROVE  TypeOK'
  BY <1>0, <1>11, QuietTypes DEF Transfer, TypeOK
<1>12. ASSUME NEW s \in Sessions, Saved(s)
       PROVE  TypeOK'
  BY <1>0, <1>12, QuietTypes DEF Saved, TypeOK
<1>13. ASSUME NEW s \in Sessions, NEW room \in BOOLEAN, Copied(s, room)
       PROVE  TypeOK'
  BY <1>0, <1>13, QuietTypes DEF Copied, TypeOK
<1>14. ASSUME NEW l \in loops, NEW ok \in BOOLEAN, Requested(l, ok)
       PROVE  TypeOK'
  <2>1. [l EXCEPT !.at = "advance"] \in [owner : {Tick} \cup Sessions, session : Sessions \cup {None},
                                         at : {"advance", "open", "send"}]
    BY <1>0, <1>14 DEF TypeOK
  <2>2. CASE ok
    BY <1>0, <1>14, <2>2, QuietTypes DEF Requested, TypeOK
  <2>3. CASE ~ok
    BY <1>0, <1>14, <2>1, <2>3, QuietTypes DEF Requested, TypeOK
  <2> QED BY <2>2, <2>3
<1>15. ASSUME NEW r \in Requests, Receive(r) \/ Served(r)
       PROVE  TypeOK'
  BY <1>0, <1>15, QuietTypes DEF Receive, Served, TypeOK
<1>16. ASSUME NEW r \in received, NEW gone \in SUBSET serving, NEW unused \in SUBSET Unused,
              Serve(r, gone, unused)
       PROVE  TypeOK'
  BY <1>0, <1>16, QuietTypes DEF Serve, Kept, TypeOK
<1> QED BY <1>1, <1>2, <1>3, <1>4, <1>5, <1>6, <1>7, <1>8, <1>9, <1>10, <1>11, <1>12, <1>13,
           <1>14, <1>15, <1>16, <1>17, <1>18 DEF Quiet

LEMMA OpenType ==
    ASSUME IInv, NEW l \in loops, Open(l)
    PROVE  TypeOK'
<1> USE DEF policy, catchup, page, others
<1>0. TypeOK
  BY DEF IInv
<1>1. /\ l.session \in Sessions
      /\ [l EXCEPT !.at = "send"] \in [owner : {Tick} \cup Sessions, session : Sessions \cup {None},
                                      at : {"advance", "open", "send"}]
  BY LoopIs DEF Open
<1> QED BY <1>0, <1>1, QuietTypes DEF Open, TypeOK

LEMMA BeginType ==
    ASSUME IInv, NEW call \in mode.calls, Begin(call)
    PROVE  TypeOK'
<1> USE DEF policy, peers, page, others
<1>1. TypeOK /\ mode.queries \in Nat /\ query \in Queries \cup {None}
  BY ModeFacts DEF IInv, TypeOK
<1>2. /\ {allowed', available', wanted'} \subseteq BOOLEAN /\ entering' \subseteq mode.calls
      /\ cancelling' \subseteq {"catchup", "rtc"}
  BY <1>1 DEF Begin, TypeOK
<1>3. CASE Begins(call)
  <2>1. query + 1 \in Queries
    BY <1>1, <1>3 DEF Begins, Queries, None
  <2>2. candidates' \in Seq([device : asked', rank : mode.ranks, status : Status,
                             session : Sessions \cup {None}])
    BY <1>3 DEF Begin
  <2>3. Queries' = Queries /\ Sessions' = Sessions /\ Requests' = Requests
    BY DEF Begin, Queries, Sessions, Requests
  <2>4. asking' \subseteq [query : Queries, at : {"targets", "broadcast"}]
    BY <1>1, <1>3, <2>1 DEF Begin, TypeOK
  <2>5. /\ phase' \in {Idle, Discovering} /\ query' \in Queries /\ asked' \subseteq Devices
        /\ current' = None /\ outcome' \in Outcome /\ copied' = FALSE
    BY <1>3, <2>1 DEF Begin, Outcome
  <2> QED BY <1>1, <1>2, <2>2, <2>3, <2>4, <2>5 DEF Begin, TypeOK
<1>4. CASE ~Begins(call)
  BY <1>1, <1>2, <1>4, QuietTypes DEF Begin, TypeOK, catchup
<1> QED BY <1>3, <1>4

LEMMA TargetsType ==
    ASSUME IInv, NEW a \in asking, NEW devices \in SUBSET mode.devices, Targets(a, devices)
    PROVE  TypeOK'
<1> USE DEF policy, peers, page, others
<1>1. /\ TypeOK /\ mode.devices \subseteq Devices
      /\ a \in [query : Queries, at : {"targets", "broadcast"}]
  BY ModeFacts DEF IInv, TypeOK
<1>2. CASE query = a.query /\ devices # {}
  <2>1. candidates = <<>>
    BY <1>2 DEF Targets, IInv, AskingFits
  <2>2. candidates' \in Seq([device : asked', rank : mode.ranks, status : Status,
                             session : Sessions \cup {None}])
    BY <1>2, <2>1 DEF Targets
  <2>3. Queries' = Queries /\ Sessions' = Sessions /\ Requests' = Requests
    BY DEF Targets, Queries, Sessions, Requests
  <2>4. asking' \subseteq [query : Queries, at : {"targets", "broadcast"}]
    BY <1>1, <1>2 DEF Targets, TypeOK
  <2>5. asked' \subseteq Devices /\ told' \subseteq Queries \X Devices
    BY <1>1, <1>2 DEF Targets, TypeOK
  <2> QED BY <1>1, <1>2, <2>2, <2>3, <2>4, <2>5 DEF Targets, TypeOK
<1>3. CASE ~(query = a.query /\ devices # {})
  BY <1>1, <1>3, QuietTypes DEF Targets, FinishDiscovery, Finish, TypeOK, Outcome
<1> QED BY <1>2, <1>3

LEMMA InfoType ==
    ASSUME IInv, NEW t \in told, NEW rank \in mode.ranks, Info(t[1], t[2], rank)
    PROVE  /\ TypeOK'
           /\ \/ candidates' = candidates
              \/ /\ Accepts(t[1], t[2])
                 /\ \E c \in Candidate(opened) :
                       /\ c.device = t[2] /\ c.status = "waiting" /\ c.session = None
                       /\ candidates' = Append(candidates, c)
<1> USE DEF policy, peers, page, others
<1>1. TypeOK /\ opened \in Nat /\ candidates \in Seq(Candidate(opened))
  BY CandidateFacts DEF IInv
<1>2. /\ Queries' = Queries /\ Sessions' = Sessions /\ Requests' = Requests
      /\ told' \subseteq Queries \X Devices
  BY <1>1 DEF Info, Queries, Sessions, Requests, TypeOK
<1>3. ASSUME candidates' \in Seq(Candidate(opened)), DOMAIN candidates \subseteq DOMAIN candidates'
      PROVE  TypeOK'
  <2>1. candidates' \in Seq([device : asked, rank : mode.ranks, status : Status,
                             session : Sessions \cup {None}])
    BY <1>1, <1>3, CandidateFacts DEF Candidate
  <2> QED BY <1>1, <1>2, <1>3, <2>1 DEF Info, TypeOK
<1>4. CASE allowed /\ available /\ Accepts(t[1], t[2])
  <2> DEFINE c == [device |-> t[2], rank |-> rank, status |-> "waiting", session |-> None]
  <2>1. c \in Candidate(opened)
    BY <1>1, <1>4 DEF Candidate, Accepts, Status, None
  <2>2. c.device = t[2] /\ c.status = "waiting" /\ c.session = None
    OBVIOUS
  <2>3. candidates' = Append(candidates, c)
    BY <1>4 DEF Info
  <2> HIDE DEF c
  <2>4. candidates' \in Seq(Candidate(opened)) /\ DOMAIN candidates \subseteq DOMAIN candidates'
    BY <1>1, <2>1, <2>3, AppendedIs
  <2> QED BY <1>3, <1>4, <2>1, <2>2, <2>3, <2>4
<1>5. CASE ~(allowed /\ available /\ Accepts(t[1], t[2]))
  BY <1>1, <1>3, <1>5 DEF Info
<1> QED BY <1>4, <1>5

\* The candidates of an Advance that moves on: given up, and then nobody picked, or the best.
LeavesCandidates(l, cs) ==
    /\ cs \in Seq(Candidate(opened)) /\ Fit(cs)
    /\ \A i \in DOMAIN cs : cs[i].status # "trying"
    /\ \A i \in DOMAIN cs : \E j \in DOMAIN candidates :
          /\ cs[i].device = candidates[j].device /\ cs[i].session = candidates[j].session
          /\ \/ cs[i].status = candidates[j].status
             \/ cs[i].status = "failed" /\ cs[i].session = l.session
EndsWith(l, cs) ==
    /\ Finish(NobodyLeft(cs)) /\ candidates' = cs /\ loops' = loops \ {l}
    /\ UNCHANGED <<opened, exchange>>
PicksOne(l, cs, best) ==
    /\ best \in DOMAIN cs /\ cs[best].status = "waiting"
    /\ candidates' = Picked(cs, best, opened + 1)
    /\ current' = best /\ phase' = Connecting(opened + 1) /\ opened' = opened + 1
    /\ exchange' = Append(exchange, "no")
    /\ loops' = (loops \ {l}) \cup {Loop(l.owner, "open", opened + 1)}
    /\ UNCHANGED outcome

LEMMA AdvanceCases ==
    ASSUME IInv, NEW l \in loops, Advance(l)
    PROVE  /\ UNCHANGED <<mode, policy, entering, query, asked, copied, asking, told, slots, rtc,
                          page, others>>
           /\ l.at = "advance"
           /\ \/ /\ loops' = loops \ {l}
                 /\ UNCHANGED <<phase, candidates, current, outcome, opened, exchange>>
              \/ \E cs : /\ LeavesCandidates(l, cs)
                         /\ EndsWith(l, cs) \/ \E best \in DOMAIN cs : PicksOne(l, cs, best)
<1>0. l.at = "advance"
  BY DEF Advance
<1>1. CASE ~Advances(l.session)
  BY <1>0, <1>1 DEF Advance
<1>2. CASE Advances(l.session)
  <2>1. PICK cs \in Advanced(l.session) :
           \/ Eligible(cs) = {} /\ EndsWith(l, cs)
           \/ Eligible(cs) # {} /\ Pick(l, cs)
    BY <1>2 DEF Advance, EndsWith
  <2>2. LeavesCandidates(l, cs)
    BY <1>2, AdvancedIs DEF LeavesCandidates
  <2>3. ASSUME Eligible(cs) # {}, Pick(l, cs)
        PROVE  PicksOne(l, cs, Min(Eligible(cs)))
    <3>1. cs \in Seq(Candidate(opened))
      BY <2>2 DEF LeavesCandidates
    <3>2. Min(Eligible(cs)) \in Eligible(cs) /\ Min(Eligible(cs)) \in DOMAIN cs
      BY <2>3, <3>1, BestIsEligible
    <3>3. cs[Min(Eligible(cs))].status = "waiting"
      BY <3>2 DEF Eligible
    <3> QED BY <2>3, <3>2, <3>3 DEF Pick, PicksOne, Picked
  <2>4. UNCHANGED <<mode, policy, entering, query, asked, copied, asking, told, slots, rtc,
                    page, others>>
    BY DEF Advance
  <2>5. CASE Eligible(cs) # {} /\ Pick(l, cs)
    <3>1. \E best \in DOMAIN cs : PicksOne(l, cs, best)
      BY <2>3, <2>5 DEF PicksOne
    <3> QED BY <1>0, <2>2, <2>4, <3>1
  <2> QED BY <1>0, <2>1, <2>2, <2>4, <2>5
<1> QED BY <1>1, <1>2

LEMMA LeftNobodyType == ASSUME NEW cs PROVE NobodyLeft(cs) \in Outcome
BY DEF NobodyLeft, Outcome

LEMMA AdvanceType ==
    ASSUME IInv, NEW l \in loops, Advance(l)
    PROVE  TypeOK'
<1> USE DEF policy, page, others
<1>1. TypeOK /\ opened \in Nat
  BY CandidateFacts DEF IInv
<1>2. CASE loops' = loops \ {l} /\ UNCHANGED <<phase, candidates, current, outcome, opened, exchange>>
  BY <1>1, <1>2, AdvanceCases, QuietTypes DEF TypeOK
<1>3. ASSUME NEW cs, LeavesCandidates(l, cs), EndsWith(l, cs)
      PROVE  TypeOK'
  <2>1. candidates' \in Seq([device : asked, rank : mode.ranks, status : Status,
                             session : Sessions \cup {None}])
    BY <1>1, <1>3, CandidateFacts DEF LeavesCandidates, EndsWith, Candidate
  <2>2. Queries' = Queries /\ Sessions' = Sessions /\ Requests' = Requests
    BY <1>3, AdvanceCases DEF EndsWith, Queries, Sessions, Requests
  <2>3. phase' = Idle /\ current' = None /\ outcome' \in Outcome
    BY <1>3, LeftNobodyType DEF EndsWith, Finish
  <2> QED BY <1>1, <1>3, <2>1, <2>2, <2>3, AdvanceCases DEF EndsWith, TypeOK
<1>4. ASSUME NEW cs, LeavesCandidates(l, cs), NEW best \in DOMAIN cs, PicksOne(l, cs, best)
      PROVE  TypeOK'
  <2>1. /\ opened' = opened + 1 /\ Sessions' = Sessions \cup {opened + 1}
        /\ Queries' = Queries /\ Requests' = Requests
    BY <1>1, <1>4, AdvanceCases DEF PicksOne, Sessions, Queries, Requests
  <2>2. candidates' \in Seq(Candidate(opened + 1)) /\ DOMAIN candidates' = DOMAIN cs
    BY <1>1, <1>4, PickedIs DEF PicksOne, LeavesCandidates
  <2>3. candidates' \in Seq([device : asked, rank : mode.ranks, status : Status,
                             session : Sessions' \cup {None}])
    <3>1. Sessions' \cup {None} = 0 .. (opened + 1)
      BY <1>1, <2>1, CandidateFacts
    <3> QED BY <2>2, <3>1 DEF Candidate
  <2>4. exchange' \in [Sessions' -> {"no", "checked", "copying", "saving"}]
    <3> DEFINE X == {"no", "checked", "copying", "saving"}
    <3>1. exchange \in [1 .. opened -> X]
      BY <1>1 DEF TypeOK, Sessions
    <3>2. exchange \in Seq(X) /\ Len(exchange) = opened
      <4>1. exchange \in Seq(X)
        BY <1>1, <3>1, FunctionIsSeq
      <4> QED BY <1>1, <3>1, <4>1, LenProperties
    <3>3. exchange' \in Seq(X) /\ Len(exchange') = opened + 1
      BY <1>4, <3>2, AppendProperties DEF PicksOne
    <3>4. exchange' \in [1 .. opened + 1 -> X]
      BY <3>3, LenProperties
    <3> QED BY <2>1, <3>4 DEF Sessions
  <2>5. /\ slots' \subseteq Sessions' /\ rtc' \subseteq Sessions' /\ ui' \subseteq Sessions'
        /\ phase' \in {Connecting(s) : s \in Sessions'} /\ current' \in DOMAIN candidates'
    BY <1>1, <1>4, <2>1, <2>2, AdvanceCases DEF PicksOne, TypeOK
  <2>6. loops' \subseteq [owner : {Tick} \cup Sessions', at : {"advance", "open", "send"},
                          session : Sessions' \cup {None}]
    <3> DEFINE L == [owner : {Tick} \cup Sessions', at : {"advance", "open", "send"},
                     session : Sessions' \cup {None}]
    <3>1. Loop(l.owner, "open", opened + 1) \in L
      BY <1>1, <2>1 DEF Loop, TypeOK
    <3>2. loops \subseteq L
      BY <1>1, <2>1 DEF TypeOK
    <3> QED BY <1>4, <3>1, <3>2 DEF PicksOne
  <2>7. /\ mode' \in Modes /\ {allowed', available', wanted', copied', lost'} \subseteq BOOLEAN
        /\ cancelling' \subseteq {"catchup", "rtc"}
        /\ entering' \subseteq mode'.calls /\ query' \in Queries \cup {None}
        /\ asked' \subseteq Devices /\ outcome' \in Outcome
        /\ asking' \subseteq [query : Queries, at : {"targets", "broadcast"}]
        /\ told' \subseteq Queries \X Devices /\ opened' \in Nat
        /\ serving' \subseteq Requests /\ received' \subseteq Requests
        /\ asked' = asked /\ mode' = mode
    BY <1>1, <1>4, <2>1, AdvanceCases DEF PicksOne, TypeOK
  <2> QED BY <2>1, <2>3, <2>4, <2>5, <2>6, <2>7 DEF TypeOK
<1> QED BY <1>2, <1>3, <1>4, AdvanceCases

LEMMA CompleteCases ==
    ASSUME IInv, NEW s \in Sessions, Complete(s)
    PROVE  /\ UNCHANGED <<mode, policy, entering, query, asked, copied, asking, told, peers, loops,
                          page, others>>
           /\ exchange[s] = "copying"
           /\ \/ /\ exchange' = [exchange EXCEPT ![s] = "no"]
                 /\ UNCHANGED <<phase, candidates, current, outcome>>
              \/ /\ exchange' = [exchange EXCEPT ![s] = "saving"]
                 /\ phase.session = s
                 /\ current \in DOMAIN candidates /\ candidates[current].status = "trying"
                 /\ candidates[current].session = s
                 /\ candidates' = Marked(candidates, current, "done")
                 /\ candidates' \in Seq(Candidate(opened)) /\ DOMAIN candidates' = DOMAIN candidates
                 /\ \A j \in DOMAIN candidates :
                       /\ candidates'[j].device = candidates[j].device
                       /\ candidates'[j].session = candidates[j].session
                       /\ candidates'[j].status = IF j = current THEN "done" ELSE candidates[j].status
                 /\ Fit(candidates')
                 /\ Finish("completed")
<1>1. CASE ~Completes(s)
  BY <1>1 DEF Complete
<1>2. CASE Completes(s)
  <2>1. phase.session = s /\ s # None
    BY <1>2, PhaseType DEF Completes, IInv
  <2>2. /\ current \in DOMAIN candidates /\ candidates[current].status = "trying"
        /\ candidates[current].session = s
    BY <2>1, CurrentIs
  <2>3. candidates' = Marked(candidates, current, "done")
    BY <1>2 DEF Complete, Marked
  <2>4. /\ opened \in Nat /\ candidates \in Seq(Candidate(opened)) /\ "done" \in Status
        /\ Fit(candidates)
    BY CandidateFacts DEF IInv, Status
  <2>5. /\ candidates' \in Seq(Candidate(opened)) /\ DOMAIN candidates' = DOMAIN candidates
        /\ \A j \in DOMAIN candidates :
              /\ candidates'[j].device = candidates[j].device
              /\ candidates'[j].session = candidates[j].session
              /\ candidates'[j].status = IF j = current THEN "done" ELSE candidates[j].status
        /\ Fit(candidates) /\ candidates[current].status # "waiting" /\ "done" # "waiting"
              => Fit(candidates')
    BY <2>2, <2>3, <2>4, MarkedIs
  <2>6. Fit(candidates')
    BY <2>2, <2>4, <2>5
  <2> QED BY <1>2, <2>1, <2>2, <2>3, <2>5, <2>6 DEF Complete
<1> QED BY <1>1, <1>2

LEMMA CompleteType ==
    ASSUME IInv, NEW s \in Sessions, Complete(s)
    PROVE  TypeOK'
<1> USE DEF policy, peers, page, others
<1>1. TypeOK /\ exchange' \in [Sessions -> {"no", "checked", "copying", "saving"}]
  BY CompleteCases DEF IInv, TypeOK
<1>2. CASE UNCHANGED <<phase, candidates, current, outcome>>
  BY <1>1, <1>2, CompleteCases, QuietTypes DEF TypeOK
<1>3. CASE candidates' \in Seq(Candidate(opened)) /\ Finish("completed")
  <2>1. Queries' = Queries /\ Sessions' = Sessions /\ Requests' = Requests
    BY CompleteCases DEF Queries, Sessions, Requests
  <2>2. candidates' \in Seq([device : asked, rank : mode.ranks, status : Status,
                             session : Sessions \cup {None}])
    BY <1>1, <1>3, CandidateFacts DEF Candidate
  <2>3. phase' = Idle /\ current' = None /\ outcome' \in Outcome
    BY <1>3 DEF Finish, Outcome
  <2> QED BY <1>1, <2>1, <2>2, <2>3, CompleteCases DEF TypeOK
<1> QED BY <1>2, <1>3, CompleteCases

LEMMA TypeStep ==
    ASSUME IInv, [Next]_vars
    PROVE  TypeOK'
<1>1. CASE Next
  BY <1>1, QuietType, OpenType, BeginType, TargetsType, InfoType, AdvanceType, CompleteType
     DEF Next, Quiet
<1>2. CASE UNCHANGED vars
  BY <1>2, QuietTypes DEF vars, policy, catchup, peers, page, others, IInv, TypeOK
<1> QED BY <1>1, <1>2

-----------------------------------------------------------------------------
(* One attempt                                                             *)

Attempt == OneAttempt /\ Fit(candidates) /\ PhaseAndCurrent

\* The attempt goes on, or is over; the candidates stay and no session is opened.
LEMMA AttemptStays ==
    ASSUME IInv, candidates' = candidates, slots' \subseteq slots, rtc' \subseteq rtc,
           \/ /\ phase'.session = phase.session /\ current' = current
              /\ phase' = Discovering => phase = Discovering
           \/ phase' = Idle /\ current' = None
    PROVE  Attempt'
<1>1. Fit(candidates') /\ Trying' = Trying
  BY DEF IInv, Trying
<1>2. CASE phase' = Idle /\ current' = None
  BY <1>1, <1>2 DEF IInv, OneAttempt, Attempt, PhaseAndCurrent, Idle, Discovering
<1>3. CASE /\ phase'.session = phase.session /\ current' = current
           /\ phase' = Discovering => phase = Discovering
  BY <1>1, <1>3 DEF IInv, OneAttempt, Attempt, PhaseAndCurrent
<1> QED BY <1>2, <1>3

LEMMA QuietAttempt ==
    ASSUME IInv, Quiet
    PROVE  Attempt' /\ candidates' = candidates /\ opened' = opened /\ query' = query /\ asked' = asked
<1> USE DEF policy, catchup, peers, page, others, Finish
<1>1. CASE Forbid
  BY <1>1, AttemptStays DEF Forbid, Cancel
<1>14. CASE CancelCatchup
  BY <1>14, AttemptStays DEF CancelCatchup
<1>15. CASE CancelRtc
  BY <1>15, AttemptStays DEF CancelRtc
<1>2. CASE Permit
  BY <1>2, AttemptStays DEF Permit
<1>3. CASE Choose
  BY <1>3, AttemptStays DEF Choose
<1>4. CASE LosePage
  BY <1>4, AttemptStays DEF LosePage
<1>5. ASSUME NEW call \in mode.calls, Enter(call)
      PROVE  Attempt' /\ candidates' = candidates /\ opened' = opened /\ query' = query /\ asked' = asked
  BY <1>5, AttemptStays DEF Enter
<1>6. ASSUME NEW a \in asking, NEW ok \in BOOLEAN, Broadcast(a, ok)
      PROVE  Attempt' /\ candidates' = candidates /\ opened' = opened /\ query' = query /\ asked' = asked
  BY <1>6, AttemptStays DEF Broadcast, FinishDiscovery
<1>7. ASSUME NEW s \in Sessions, GiveUp(s) \/ Connect(s) \/ Disconnect(s) \/ Saved(s)
      PROVE  Attempt' /\ candidates' = candidates /\ opened' = opened /\ query' = query /\ asked' = asked
  BY <1>7, AttemptStays DEF GiveUp, Connect, Disconnect, Saved
<1>8. ASSUME NEW s \in Sessions, Exchange(s)
      PROVE  Attempt' /\ candidates' = candidates /\ opened' = opened /\ query' = query /\ asked' = asked
  BY <1>8, AttemptStays DEF Exchange, Cancel
<1>9. ASSUME NEW s \in Sessions, Transfer(s)
      PROVE  Attempt' /\ candidates' = candidates /\ opened' = opened /\ query' = query /\ asked' = asked
  <2>1. phase'.session = phase.session
    BY <1>9 DEF Transfer, Transferring
  <2>2. phase' = Discovering => phase = Discovering
    BY <1>9 DEF Transfer, Transferring, Discovering
  <2> QED BY <1>9, <2>1, <2>2, AttemptStays DEF Transfer
<1>10. ASSUME NEW s \in Sessions, NEW room \in BOOLEAN, Copied(s, room)
       PROVE  Attempt' /\ candidates' = candidates /\ opened' = opened /\ query' = query /\ asked' = asked
  BY <1>10, AttemptStays DEF Copied
<1>11. ASSUME NEW l \in loops, NEW ok \in BOOLEAN, Requested(l, ok)
       PROVE  Attempt' /\ candidates' = candidates /\ opened' = opened /\ query' = query /\ asked' = asked
  BY <1>11, AttemptStays DEF Requested
<1>12. ASSUME NEW r \in Requests, Receive(r) \/ Served(r)
       PROVE  Attempt' /\ candidates' = candidates /\ opened' = opened /\ query' = query /\ asked' = asked
  BY <1>12, AttemptStays DEF Receive, Served
<1>13. ASSUME NEW r \in received, NEW gone \in SUBSET serving, NEW unused \in SUBSET Unused,
              Serve(r, gone, unused)
       PROVE  Attempt' /\ candidates' = candidates /\ opened' = opened /\ query' = query /\ asked' = asked
  BY <1>13, AttemptStays DEF Serve
<1> QED BY <1>1, <1>2, <1>3, <1>4, <1>5, <1>6, <1>7, <1>8, <1>9, <1>10, <1>11, <1>12, <1>13,
           <1>14, <1>15 DEF Quiet

LEMMA OpenAttempt ==
    ASSUME IInv, NEW l \in loops, Open(l)
    PROVE  Attempt'
<1>1. \A i \in DOMAIN candidates : candidates[i].status = "failed" =>
         candidates[i].session \notin slots' \cup rtc'
  BY DEF Open, IInv, OneAttempt, LoopsFit
<1> QED BY <1>1 DEF Open, IInv, Attempt, OneAttempt, Trying, PhaseAndCurrent, catchup

LEMMA BeginAttempt ==
    ASSUME IInv, NEW call \in mode.calls, Begin(call)
    PROVE  Attempt'
<1>1. CASE Begins(call)
  <2>1. phase' = Discovering /\ candidates' = <<>> /\ current' = None
    BY <1>1 DEF Begin
  <2> QED BY <2>1 DEF Attempt, OneAttempt, Fit, PhaseAndCurrent, Discovering
<1>2. CASE ~Begins(call)
  BY <1>2, AttemptStays DEF Begin, catchup, peers
<1> QED BY <1>1, <1>2

LEMMA TargetsAttempt ==
    ASSUME IInv, NEW a \in asking, NEW devices \in SUBSET mode.devices, Targets(a, devices)
    PROVE  Attempt'
BY AttemptStays DEF Targets, FinishDiscovery, Finish, peers

LEMMA InfoAttempt ==
    ASSUME IInv, NEW t \in told, NEW rank \in mode.ranks, Info(t[1], t[2], rank)
    PROVE  Attempt'
<1>1. UNCHANGED <<phase, current, slots, rtc>>
  BY DEF Info, peers
<1>2. CASE candidates' = candidates
  BY <1>1, <1>2, AttemptStays
<1>3. ASSUME Accepts(t[1], t[2]), NEW c \in Candidate(opened), c.device = t[2],
             c.status = "waiting", c.session = None, candidates' = Append(candidates, c)
      PROVE  Attempt'
  <2>1. /\ DOMAIN candidates' = DOMAIN candidates \cup {Len(candidates) + 1}
        /\ Len(candidates) + 1 \notin DOMAIN candidates
        /\ \A j \in DOMAIN candidates : candidates'[j] = candidates[j]
        /\ candidates'[Len(candidates) + 1] = c
    BY <1>3, AppendedIs, CandidateFacts DEF IInv
  <2> DEFINE n == Len(candidates) + 1
  <2> HIDE DEF n
  <2>2. /\ DOMAIN candidates' = DOMAIN candidates \cup {n} /\ n \notin DOMAIN candidates
        /\ \A j \in DOMAIN candidates : candidates'[j] = candidates[j]
        /\ candidates'[n] = c
    BY <2>1 DEF n
  <2>3. \A i \in DOMAIN candidates : candidates[i].device # c.device
    BY <1>3 DEF Accepts
  <2>4. Fit(candidates')
    BY <1>3, <2>2, <2>3 DEF IInv, Fit
  <2>5. Trying' = Trying
    BY <1>3, <2>2 DEF Trying
  <2>6. phase.session # None => current \in DOMAIN candidates
    BY CurrentIs
  <2>7. OneAttempt'
    BY <1>1, <1>3, <2>2, <2>5, <2>6 DEF IInv, OneAttempt
  <2>8. PhaseAndCurrent'
    BY <1>1, <1>3, <2>2 DEF IInv, PhaseAndCurrent
  <2> QED BY <2>4, <2>7, <2>8 DEF Attempt
<1> QED BY <1>2, <1>3, InfoType

LEMMA AdvanceAttempt ==
    ASSUME IInv, NEW l \in loops, Advance(l)
    PROVE  Attempt'
<1> USE DEF page, others
<1>1. UNCHANGED <<slots, rtc>> /\ l.session \notin slots \cup rtc /\ opened \in Nat
  BY AdvanceCases, CandidateFacts DEF IInv, LoopsFit
<1>2. CASE UNCHANGED <<phase, candidates, current, outcome, opened, exchange>>
  BY <1>1, <1>2, AttemptStays
<1>3. ASSUME NEW cs, LeavesCandidates(l, cs), NEW i \in DOMAIN cs, cs[i].status = "failed"
      PROVE  cs[i].session \notin slots \cup rtc
  BY <1>1, <1>3 DEF LeavesCandidates, IInv, OneAttempt
<1>4. ASSUME NEW cs, LeavesCandidates(l, cs), EndsWith(l, cs)
      PROVE  Attempt'
  <2>1. phase' = Idle /\ current' = None /\ candidates' = cs
    BY <1>4 DEF EndsWith, Finish
  <2> QED BY <1>1, <1>3, <1>4, <2>1
          DEF Attempt, OneAttempt, PhaseAndCurrent, Idle, Discovering, LeavesCandidates
<1>5. ASSUME NEW cs, LeavesCandidates(l, cs), NEW best \in DOMAIN cs, PicksOne(l, cs, best)
      PROVE  Attempt'
  <2>1. /\ cs \in Seq(Candidate(opened)) /\ Fit(cs) /\ cs[best].status = "waiting"
        /\ candidates' = Picked(cs, best, opened + 1)
    BY <1>5 DEF LeavesCandidates, PicksOne
  <2>2. /\ DOMAIN candidates' = DOMAIN cs
        /\ \A j \in DOMAIN cs :
              /\ candidates'[j].session = IF j = best THEN opened + 1 ELSE cs[j].session
              /\ candidates'[j].status = IF j = best THEN "trying" ELSE cs[j].status
        /\ Fit(cs) /\ cs[best].status = "waiting" => Fit(candidates')
    BY <1>1, <2>1, PickedIs
  <2>3. Trying' = {best}
    BY <1>5, <2>2 DEF Trying, LeavesCandidates
  <2>4. /\ phase'.session = opened + 1 /\ phase' # Discovering /\ current' = best
        /\ opened + 1 # None
    BY <1>1, <1>5 DEF PicksOne, Connecting, Discovering, None
  <2>5. best # None
    BY <2>1, LenProperties DEF None
  <2>6. \A i \in DOMAIN candidates' : candidates'[i].status = "failed" =>
           candidates'[i].session \notin slots' \cup rtc'
    BY <1>1, <1>3, <1>5, <2>2
  <2> QED BY <2>1, <2>2, <2>3, <2>4, <2>5, <2>6 DEF Attempt, OneAttempt, PhaseAndCurrent
<1> QED BY <1>2, <1>4, <1>5, AdvanceCases

LEMMA CompleteAttempt ==
    ASSUME IInv, NEW s \in Sessions, Complete(s)
    PROVE  Attempt'
<1>1. UNCHANGED <<slots, rtc>>
  BY CompleteCases DEF peers
<1>2. CASE UNCHANGED <<phase, candidates, current, outcome>>
  BY <1>1, <1>2, AttemptStays
<1>3. ASSUME DOMAIN candidates' = DOMAIN candidates, Fit(candidates'), Finish("completed"),
             \A j \in DOMAIN candidates :
                /\ candidates'[j].session = candidates[j].session
                /\ candidates'[j].status = IF j = current THEN "done" ELSE candidates[j].status
      PROVE  Attempt'
  <2>1. phase' = Idle /\ current' = None
    BY <1>3 DEF Finish
  <2> QED BY <1>1, <1>3, <2>1 DEF IInv, Attempt, OneAttempt, PhaseAndCurrent, Idle, Discovering
<1> QED BY <1>2, <1>3, CompleteCases

LEMMA AttemptStep ==
    ASSUME IInv, [Next]_vars
    PROVE  Attempt'
<1>1. CASE Next
  BY <1>1, QuietAttempt, OpenAttempt, BeginAttempt, TargetsAttempt, InfoAttempt, AdvanceAttempt,
     CompleteAttempt DEF Next, Quiet
<1>2. CASE UNCHANGED vars
  BY <1>2, AttemptStays DEF vars, catchup, peers
<1> QED BY <1>1, <1>2

-----------------------------------------------------------------------------
(* The calls that open sessions                                            *)

LEMMA LoopsStay ==
    ASSUME IInv, loops' \subseteq loops, slots' \subseteq slots, rtc' \subseteq rtc,
           ui' \subseteq ui \cup rtc,
           \A i \in DOMAIN candidates' : candidates'[i].status = "failed" =>
              \E j \in DOMAIN candidates : /\ candidates[j].status = "failed"
                                           /\ candidates[j].session = candidates'[i].session
    PROVE  LoopsFit'
BY DEF IInv, LoopsFit

\* A call that gave a session up advances past it, and it was opened before.
LEMMA LoopJoins ==
    ASSUME IInv, NEW l, l.at = "advance", loops' = loops \cup {l}, candidates' = candidates,
           l.session \notin slots' \cup rtc',
           \A m \in loops : m.at = "open" => m.session # l.session,
           slots' \subseteq slots, rtc' \subseteq rtc, ui' \subseteq ui
    PROVE  LoopsFit'
BY DEF IInv, LoopsFit

LEMMA QuietLoops ==
    ASSUME IInv, Quiet
    PROVE  LoopsFit'
<1> USE DEF policy, catchup, peers, page, others
<1>0. \A i \in DOMAIN candidates' : candidates'[i].status = "failed" =>
         \E j \in DOMAIN candidates : /\ candidates[j].status = "failed"
                                      /\ candidates[j].session = candidates'[i].session
  BY QuietAttempt
<1>1. CASE Forbid
  BY <1>0, <1>1, LoopsStay DEF Forbid, Cancel
<1>14. CASE CancelCatchup
  BY <1>0, <1>14, LoopsStay DEF CancelCatchup
<1>15. CASE CancelRtc
  BY <1>0, <1>15, LoopsStay DEF CancelRtc
<1>2. CASE Permit
  BY <1>0, <1>2, LoopsStay DEF Permit
<1>3. CASE Choose
  <2>1. None \notin slots \cup rtc /\ \A m \in loops : m.at = "open" => m.session # None
    BY LoopIs, PhaseType DEF IInv, TypeOK
  <2>2. Loop(Tick, "advance", None).at = "advance" /\ Loop(Tick, "advance", None).session = None
    BY DEF Loop
  <2> QED BY <1>3, <2>1, <2>2, LoopJoins DEF Choose
<1>4. CASE LosePage
  BY <1>0, <1>4, LoopsStay DEF LosePage
<1>5. ASSUME NEW call \in mode.calls, Enter(call)
      PROVE  LoopsFit'
  BY <1>0, <1>5, LoopsStay DEF Enter
<1>6. ASSUME NEW a \in asking, NEW ok \in BOOLEAN, Broadcast(a, ok)
      PROVE  LoopsFit'
  BY <1>0, <1>6, LoopsStay DEF Broadcast
<1>7. ASSUME NEW s \in Sessions, GiveUp(s)
      PROVE  LoopsFit'
  <2>1. Loop(Tick, "advance", s).at = "advance" /\ Loop(Tick, "advance", s).session = s
    BY DEF Loop
  <2> QED BY <1>7, <2>1, LoopJoins DEF GiveUp
<1>8. ASSUME NEW s \in Sessions, Disconnect(s)
      PROVE  LoopsFit'
  <2>1. Loop(s, "advance", s).at = "advance" /\ Loop(s, "advance", s).session = s
    BY DEF Loop
  <2>2. \A m \in loops : m.at = "open" => m.session # s
    BY <1>8 DEF Disconnect, IInv, LoopsFit
  <2> QED BY <1>8, <2>1, <2>2, LoopJoins DEF Disconnect
<1>9. ASSUME NEW s \in Sessions, Connect(s) \/ Exchange(s) \/ Transfer(s) \/ Saved(s)
      PROVE  LoopsFit'
  BY <1>0, <1>9, LoopsStay DEF Connect, Exchange, Cancel, Transfer, Saved
<1>10. ASSUME NEW s \in Sessions, NEW room \in BOOLEAN, Copied(s, room)
       PROVE  LoopsFit'
  BY <1>0, <1>10, LoopsStay DEF Copied
<1>11. ASSUME NEW l \in loops, NEW ok \in BOOLEAN, Requested(l, ok)
       PROVE  LoopsFit'
  <2>1. CASE ok
    BY <1>0, <1>11, <2>1, LoopsStay DEF Requested
  <2>2. CASE ~ok
    <3> DEFINE k == Loop(l.owner, "advance", l.session)
    <3>1. /\ k.at = "advance" /\ k.session = l.session /\ l.at = "send"
          /\ loops' = (loops \ {l}) \cup {k}
          /\ slots' = slots \ {l.session} /\ rtc' = rtc \ {l.session} /\ ui' = ui
          /\ candidates' = candidates
      <4>1. [l EXCEPT !.at = "advance"] = k
        BY <1>11 DEF IInv, TypeOK, Loop
      <4>2. k.at = "advance" /\ k.session = l.session
        BY DEF Loop
      <4> HIDE DEF k
      <4> QED BY <1>11, <2>2, <4>1, <4>2 DEF Requested
    <3> HIDE DEF k
    <3>2. \A m \in loops : m.at = "open" => m.session # l.session
      BY <1>11, <3>1 DEF IInv, LoopsFit
    <3> QED BY <3>1, <3>2 DEF IInv, LoopsFit
  <2> QED BY <2>1, <2>2
<1>12. ASSUME NEW r \in Requests, Receive(r) \/ Served(r)
       PROVE  LoopsFit'
  BY <1>0, <1>12, LoopsStay DEF Receive, Served
<1>13. ASSUME NEW r \in received, NEW gone \in SUBSET serving, NEW unused \in SUBSET Unused,
              Serve(r, gone, unused)
       PROVE  LoopsFit'
  BY <1>0, <1>13, LoopsStay DEF Serve
<1> QED BY <1>1, <1>2, <1>3, <1>4, <1>5, <1>6, <1>7, <1>8, <1>9, <1>10, <1>11, <1>12, <1>13,
           <1>14, <1>15 DEF Quiet

LEMMA OpenLoops ==
    ASSUME IInv, NEW l \in loops, Open(l)
    PROVE  LoopsFit'
<1> DEFINE k == Loop(l.owner, "send", l.session)
<1>1. k = [l EXCEPT !.at = "send"] /\ k.at = "send" /\ k.session = l.session
  BY DEF IInv, TypeOK, Loop
<1> HIDE DEF k
<1>2. /\ l.at = "open" /\ loops' = (loops \ {l}) \cup {k}
      /\ slots' = slots \cup {l.session} /\ rtc' = rtc \cup {l.session} /\ ui' = ui
      /\ candidates' = candidates
  BY <1>1 DEF Open, catchup, page
<1>3. /\ \A m \in loops : m.at = "advance" => m.session # l.session
      /\ \A m \in loops : m.at = "open" /\ m # l => m.session # l.session
      /\ l.session # None
  BY <1>2 DEF IInv, LoopsFit
<1>4. /\ k.session # None
      /\ \A m \in loops' : m.at # "advance" => m.session # None
  BY <1>1, <1>2, <1>3 DEF IInv, LoopsFit
<1>5. ASSUME NEW m \in loops', NEW o \in loops', m.at # "advance", o.at # "advance",
             m.session = o.session
      PROVE  m = o
  <2>1. \A n, p \in loops :
           n.at # "advance" /\ p.at # "advance" /\ n.session = p.session => n = p
    BY DEF IInv, LoopsFit
  <2>2. \A n \in loops : n.at # "advance" /\ n.session = l.session => n = l
    BY <1>2, <2>1
  <2>3. m = k \/ (m \in loops /\ m # l)
    BY <1>2
  <2>4. o = k \/ (o \in loops /\ o # l)
    BY <1>2
  <2> QED BY <1>1, <1>5, <2>1, <2>2, <2>3, <2>4
<1>6. \A m \in loops' : m.at # "send" => m \in loops /\ m # l
  BY <1>1, <1>2
<1>7. \A m \in loops' : m.at = "open" => m.session \notin slots' \cup rtc' \cup ui'
  BY <1>2, <1>3, <1>6 DEF IInv, LoopsFit
<1>8. \A m \in loops' : m.at = "advance" => m.session \notin slots' \cup rtc'
  BY <1>2, <1>3, <1>6 DEF IInv, LoopsFit
<1>9. ASSUME NEW m \in loops', m.at = "open"
      PROVE  /\ \A o \in loops' : o.at = "advance" => o.session # m.session
             /\ \A i \in DOMAIN candidates' :
                   candidates'[i].status = "failed" => candidates'[i].session # m.session
  BY <1>2, <1>6, <1>9 DEF IInv, LoopsFit
<1> QED BY <1>4, <1>5, <1>7, <1>8, <1>9 DEF LoopsFit

LEMMA AdvanceLoops ==
    ASSUME IInv, NEW l \in loops, Advance(l)
    PROVE  LoopsFit'
<1> USE DEF page
<1>1. /\ UNCHANGED <<slots, rtc, ui>> /\ opened \in Nat /\ l.at = "advance"
      /\ slots \cup rtc \cup ui \subseteq Sessions /\ opened + 1 \notin Sessions
  BY AdvanceCases, CandidateFacts DEF IInv, TypeOK, Sessions
<1>2. CASE loops' = loops \ {l} /\ UNCHANGED <<phase, candidates, current, outcome, opened, exchange>>
  BY <1>1, <1>2, LoopsStay
<1>3. ASSUME NEW cs, LeavesCandidates(l, cs), NEW i \in DOMAIN cs, cs[i].status = "failed",
             NEW m \in loops, m.at = "open"
      PROVE  cs[i].session # m.session
  BY <1>1, <1>3 DEF LeavesCandidates, IInv, LoopsFit
<1>4. ASSUME NEW cs, LeavesCandidates(l, cs), EndsWith(l, cs)
      PROVE  LoopsFit'
  BY <1>1, <1>3, <1>4 DEF EndsWith, IInv, LoopsFit
<1>5. ASSUME NEW cs, LeavesCandidates(l, cs), NEW best \in DOMAIN cs, PicksOne(l, cs, best)
      PROVE  LoopsFit'
  <2> DEFINE k == Loop(l.owner, "open", opened + 1)
  <2>1. k.at = "open" /\ k.session = opened + 1
    BY DEF Loop
  <2>2. loops' = (loops \ {l}) \cup {k}
    BY <1>5 DEF PicksOne
  <2> HIDE DEF k
  <2>3. \A m \in loops : m.session # opened + 1
    <3>1. \A m \in loops : m.session \in Sessions \cup {None}
      BY LoopIs
    <3> QED BY <1>1, <3>1 DEF None
  <2>4. /\ cs \in Seq(Candidate(opened)) /\ candidates' = Picked(cs, best, opened + 1)
        /\ Len(cs) \in Nat /\ DOMAIN cs = 1 .. Len(cs)
    BY <1>5, LenProperties DEF LeavesCandidates, PicksOne
  <2>5. /\ DOMAIN candidates' = DOMAIN cs
        /\ \A j \in DOMAIN cs :
              /\ candidates'[j].session = IF j = best THEN opened + 1 ELSE cs[j].session
              /\ candidates'[j].status = IF j = best THEN "trying" ELSE cs[j].status
    BY <1>1, <1>5, <2>4, PickedIs
  <2>6. \A i \in DOMAIN candidates' : candidates'[i].status = "failed" =>
           /\ candidates'[i].session # opened + 1
           /\ \A m \in loops : m.at = "open" => candidates'[i].session # m.session
    <3> SUFFICES ASSUME NEW i \in DOMAIN candidates', candidates'[i].status = "failed"
                 PROVE  /\ candidates'[i].session # opened + 1
                        /\ \A m \in loops : m.at = "open" => candidates'[i].session # m.session
      OBVIOUS
    <3>1. i \in DOMAIN cs /\ cs[i].status = "failed" /\ candidates'[i].session = cs[i].session
      BY <2>5
    <3>2. cs[i] \in Candidate(opened)
      BY <2>4, <3>1, ElementOfSeq
    <3>3. cs[i].session # opened + 1
      BY <1>1, <3>2 DEF Candidate
    <3> QED BY <1>3, <1>5, <3>1, <3>3
  <2>7. opened + 1 # None /\ opened + 1 \notin slots \cup rtc \cup ui
    BY <1>1 DEF None
  <2> QED BY <1>1, <2>1, <2>2, <2>3, <2>6, <2>7 DEF IInv, LoopsFit
<1> QED BY <1>2, <1>4, <1>5, AdvanceCases

LEMMA LoopsStep ==
    ASSUME IInv, [Next]_vars
    PROVE  LoopsFit'
<1> USE DEF policy, catchup, peers, page, others
<1>1. ASSUME NEW call \in mode.calls, Begin(call)
      PROVE  LoopsFit'
  BY <1>1, LoopsStay DEF Begin
<1>2. ASSUME NEW a \in asking, NEW devices \in SUBSET mode.devices, Targets(a, devices)
      PROVE  LoopsFit'
  BY <1>2, LoopsStay DEF Targets, FinishDiscovery
<1>3. ASSUME NEW t \in told, NEW rank \in mode.ranks, Info(t[1], t[2], rank)
      PROVE  LoopsFit'
  <2>1. \A i \in DOMAIN candidates' : candidates'[i].status = "failed" =>
           \E j \in DOMAIN candidates : /\ candidates[j].status = "failed"
                                        /\ candidates[j].session = candidates'[i].session
    <3>1. CASE candidates' = candidates
      BY <3>1
    <3>2. ASSUME NEW c \in Candidate(opened), c.status = "waiting",
                 candidates' = Append(candidates, c)
          PROVE  \A i \in DOMAIN candidates' : candidates'[i].status = "failed" =>
                    i \in DOMAIN candidates /\ candidates'[i] = candidates[i]
      BY <3>2, AppendedIs, CandidateFacts DEF IInv
    <3> QED BY <1>3, <3>1, <3>2, InfoType
  <2> QED BY <1>3, <2>1, LoopsStay DEF Info
<1>4. ASSUME NEW s \in Sessions, Complete(s)
      PROVE  LoopsFit'
  BY <1>4, CompleteCases, LoopsStay
<1>5. CASE UNCHANGED vars
  BY <1>5, LoopsStay DEF vars
<1>6. CASE Next
  BY <1>1, <1>2, <1>3, <1>4, <1>6, QuietLoops, OpenLoops, AdvanceLoops DEF Next, Quiet
<1> QED BY <1>5, <1>6

-----------------------------------------------------------------------------
(* The calls that ask                                                      *)

LEMMA AskingStays ==
    ASSUME IInv, asking' \subseteq asking, UNCHANGED <<query, asked>>,
           candidates = <<>> => candidates' = <<>>
    PROVE  AskingFits'
BY DEF IInv, AskingFits

LEMMA AskingStep ==
    ASSUME IInv, [Next]_vars
    PROVE  AskingFits'
<1> USE DEF catchup
<1>0. /\ query \in Nat
      /\ \A a \in asking : a.query \in Nat /\ a.at \in {"targets", "broadcast"}
  BY ModeFacts DEF IInv, TypeOK, Queries, None
<1>1. CASE Quiet
  <2>1. asking' \subseteq asking
    BY <1>1 DEF Quiet, Forbid, Cancel, Permit, CancelCatchup, CancelRtc, Choose, LosePage, Enter, Broadcast, GiveUp, Connect,
       Disconnect, Exchange, Transfer, Saved, Copied, Requested, Receive, Served, Serve
  <2> QED BY <1>1, <2>1, QuietAttempt, AskingStays
<1>2. ASSUME NEW call \in mode.calls, Begin(call)
      PROVE  AskingFits'
  <2>1. CASE Begins(call)
    <3> DEFINE b == [query |-> query + 1, at |-> "targets"]
    <3>1. /\ asking' = asking \cup {b} /\ query' = query + 1 /\ asked' = {} /\ candidates' = <<>>
          /\ b.query = query + 1
      BY <1>2, <2>1 DEF Begin
    <3> HIDE DEF b
    <3> QED BY <1>0, <3>1 DEF IInv, AskingFits
  <2>2. CASE ~Begins(call)
    BY <1>2, <2>2, AskingStays DEF Begin
  <2> QED BY <2>1, <2>2
<1>3. ASSUME NEW a \in asking, NEW devices \in SUBSET mode.devices, Targets(a, devices)
      PROVE  AskingFits'
  <2>1. CASE query = a.query /\ devices # {}
    <3> DEFINE b == [a EXCEPT !.at = "broadcast"]
    <3>1. b.query = a.query /\ b.at = "broadcast"
      BY DEF IInv, TypeOK
    <3>2. asking' = (asking \ {a}) \cup {b} /\ query' = query /\ candidates' = candidates
      BY <1>3, <2>1 DEF Targets
    <3> HIDE DEF b
    <3> QED BY <1>0, <2>1, <3>1, <3>2 DEF IInv, AskingFits
  <2>2. CASE ~(query = a.query /\ devices # {})
    BY <1>3, <2>2, AskingStays DEF Targets, FinishDiscovery
  <2> QED BY <2>1, <2>2
<1>4. ASSUME NEW t \in told, NEW rank \in mode.ranks, Info(t[1], t[2], rank)
      PROVE  AskingFits'
  <2>1. UNCHANGED <<query, asked, asking>>
    BY <1>4 DEF Info
  <2>2. candidates' = candidates \/ asked # {}
    BY <1>4, InfoType DEF Accepts
  <2> QED BY <2>1, <2>2 DEF IInv, AskingFits
<1>5. ASSUME NEW l \in loops, Advance(l)
      PROVE  AskingFits'
  <2>1. UNCHANGED <<query, asked, asking>>
    BY <1>5, AdvanceCases
  <2>2. ASSUME NEW cs, LeavesCandidates(l, cs), candidates = <<>>
        PROVE  cs = <<>> /\ DOMAIN cs = {}
    <3>1. DOMAIN cs = {} /\ cs \in Seq(Candidate(opened))
      BY <2>2 DEF LeavesCandidates
    <3> QED BY <3>1, EmptySeq, LenProperties
  <2> QED BY <1>5, <2>1, <2>2, AdvanceCases, AskingStays DEF EndsWith
<1>6. ASSUME NEW l \in loops, Open(l)
      PROVE  AskingFits'
  BY <1>6, AskingStays DEF Open
<1>7. ASSUME NEW s \in Sessions, Complete(s)
      PROVE  AskingFits'
  BY <1>7, CompleteCases, AskingStays
<1>8. CASE UNCHANGED vars
  BY <1>8, AskingStays DEF vars
<1>9. CASE Next
  BY <1>1, <1>2, <1>3, <1>4, <1>5, <1>6, <1>7, <1>9 DEF Next, Quiet
<1> QED BY <1>8, <1>9

-----------------------------------------------------------------------------
(* What a step makes of a candidate                                        *)

\* Candidate j after a step: one of those before, which may be picked if it was
\* never tried, be given up, or complete; or a device that has just answered.
ComesFrom(j) ==
    \/ \E i \in DOMAIN candidates :
          /\ candidates'[j].device = candidates[i].device
          /\ \/ candidates[i].session = None /\ candidates'[j].status = "trying"
             \/ /\ candidates'[j].session = candidates[i].session
                /\ \/ candidates'[j].status \in {candidates[i].status, "failed"}
                   \/ /\ exchange[candidates[i].session] = "copying"
                      /\ exchange'[candidates[i].session] = "saving"
    \/ /\ candidates'[j].status = "waiting"
       /\ \A i \in DOMAIN candidates : candidates'[j].device # candidates[i].device

LEMMA CandidateMoves ==
    ASSUME IInv, [Next]_vars, query' = query, NEW j \in DOMAIN candidates'
    PROVE  ComesFrom(j)
<1> USE DEF catchup
<1>1. CASE candidates' = candidates
  BY <1>1 DEF ComesFrom
<1>2. ASSUME NEW call \in mode.calls, Begin(call)
      PROVE  candidates' = candidates
  <2>1. query \in Nat
    BY ModeFacts DEF IInv, TypeOK, Queries, None
  <2> QED BY <1>2, <2>1 DEF Begin
<1>3. ASSUME NEW t \in told, NEW rank \in mode.ranks, Info(t[1], t[2], rank)
      PROVE  ComesFrom(j)
  <2>1. ASSUME Accepts(t[1], t[2]), NEW c \in Candidate(opened), c.device = t[2],
               c.status = "waiting", candidates' = Append(candidates, c)
        PROVE  ComesFrom(j)
    <3>1. /\ DOMAIN candidates' = DOMAIN candidates \cup {Len(candidates) + 1}
          /\ \A i \in DOMAIN candidates : candidates'[i] = candidates[i]
          /\ candidates'[Len(candidates) + 1] = c
      BY <2>1, AppendedIs, CandidateFacts DEF IInv
    <3>2. CASE j \in DOMAIN candidates
      BY <3>1, <3>2 DEF ComesFrom
    <3>3. CASE j = Len(candidates) + 1
      BY <2>1, <3>1, <3>3 DEF ComesFrom, Accepts
    <3> QED BY <3>1, <3>2, <3>3
  <2> QED BY <1>1, <1>3, <2>1, InfoType
<1>4. ASSUME NEW l \in loops, Advance(l)
      PROVE  ComesFrom(j)
  <2>1. ASSUME NEW cs, LeavesCandidates(l, cs), EndsWith(l, cs)
        PROVE  ComesFrom(j)
    BY <2>1 DEF LeavesCandidates, EndsWith, ComesFrom
  <2>2. ASSUME NEW cs, LeavesCandidates(l, cs), NEW best \in DOMAIN cs, PicksOne(l, cs, best)
        PROVE  ComesFrom(j)
    <3>1. /\ cs \in Seq(Candidate(opened)) /\ candidates' = Picked(cs, best, opened + 1)
          /\ opened \in Nat
      BY <2>2, CandidateFacts DEF LeavesCandidates, PicksOne, IInv
    <3>2. /\ DOMAIN candidates' = DOMAIN cs
          /\ \A i \in DOMAIN cs :
                /\ candidates'[i].device = cs[i].device
                /\ candidates'[i].session = IF i = best THEN opened + 1 ELSE cs[i].session
                /\ candidates'[i].status = IF i = best THEN "trying" ELSE cs[i].status
      BY <2>2, <3>1, PickedIs
    <3>3. PICK i \in DOMAIN candidates :
             /\ cs[j].device = candidates[i].device /\ cs[j].session = candidates[i].session
             /\ cs[j].status \in {candidates[i].status, "failed"}
      BY <2>2, <3>2 DEF LeavesCandidates
    <3>4. CASE j = best
      <4>1. cs[j].session = None
        BY <2>2, <3>4 DEF LeavesCandidates, PicksOne, Fit
      <4> QED BY <3>2, <3>3, <3>4, <4>1 DEF ComesFrom
    <3>5. CASE j # best
      BY <3>2, <3>3, <3>5 DEF ComesFrom
    <3> QED BY <3>4, <3>5
  <2> QED BY <1>1, <1>4, <2>1, <2>2, AdvanceCases
<1>5. ASSUME NEW s \in Sessions, Complete(s)
      PROVE  ComesFrom(j)
  <2>1. exchange' = [exchange EXCEPT ![s] = "saving"] => exchange'[s] = "saving"
    BY DEF IInv, TypeOK
  <2>2. CASE UNCHANGED <<phase, candidates, current, outcome>>
    BY <1>1, <2>2
  <2>3. CASE ~UNCHANGED <<phase, candidates, current, outcome>>
    <3>1. /\ exchange[s] = "copying" /\ exchange'[s] = "saving"
          /\ candidates[current].session = s /\ DOMAIN candidates' = DOMAIN candidates
          /\ \A i \in DOMAIN candidates :
                /\ candidates'[i].device = candidates[i].device
                /\ candidates'[i].session = candidates[i].session
                /\ candidates'[i].status = IF i = current THEN "done" ELSE candidates[i].status
      BY <1>5, <2>1, <2>3, CompleteCases
    <3> QED BY <3>1 DEF ComesFrom
  <2> QED BY <2>2, <2>3
<1>6. ASSUME NEW a \in asking, NEW devices \in SUBSET mode.devices, Targets(a, devices)
      PROVE  candidates' = candidates
  BY <1>6 DEF Targets, FinishDiscovery
<1>7. ASSUME NEW l \in loops, Open(l)
      PROVE  candidates' = candidates
  BY <1>7 DEF Open
<1>8. UNCHANGED vars => candidates' = candidates
  BY DEF vars
<1> QED BY <1>1, <1>2, <1>3, <1>4, <1>5, <1>6, <1>7, <1>8, QuietAttempt DEF Next, Quiet

LEMMA CandidatesOutlive ==
    ASSUME IInv, [Next]_vars, query' # query
    PROVE  candidates' = <<>>
<1> USE DEF catchup
<1>1. \A call \in mode.calls : Begin(call) => candidates' = <<>>
  BY DEF Begin
<1>2. \A a \in asking : \A devices \in SUBSET mode.devices : ~Targets(a, devices)
  BY DEF Targets, FinishDiscovery
<1>3. /\ \A t \in told, rank \in mode.ranks : ~Info(t[1], t[2], rank)
      /\ \A l \in loops : ~Open(l) /\ ~Advance(l)
      /\ \A s \in Sessions : ~Complete(s)
  BY DEF Info, Open, Advance, Complete
<1>4. ~UNCHANGED vars
  BY DEF vars
<1> QED BY <1>1, <1>2, <1>3, <1>4, QuietAttempt DEF Next, Quiet

-----------------------------------------------------------------------------
(* The theorems                                                            *)

LEMMA InitHolds == Init => IInv
<1> SUFFICES ASSUME Init
             PROVE  IInv
  OBVIOUS
<1>1. TypeOK
  <2>1. Sessions = {}
    BY DEF Init, Sessions
  <2>2. exchange \in [Sessions -> {"no", "checked", "copying", "saving"}]
    BY <2>1 DEF Init
  <2>3. candidates \in Seq([device : asked, rank : mode.ranks, status : Status,
                            session : Sessions \cup {None}])
    BY DEF Init
  <2> QED BY <2>2, <2>3 DEF Init, TypeOK, Idle, Outcome
<1>2. candidates = <<>> /\ phase = Idle /\ current = None /\ asking = {} /\ loops = {}
  BY DEF Init
<1>3. OneAttempt /\ Fit(candidates) /\ PhaseAndCurrent /\ LoopsFit /\ AskingFits
  BY <1>2 DEF OneAttempt, Fit, PhaseAndCurrent, LoopsFit, AskingFits, Idle, Discovering
<1> QED BY <1>1, <1>3 DEF IInv

LEMMA StepHolds == IInv /\ [Next]_vars => IInv'
BY TypeStep, AttemptStep, LoopsStep, AskingStep DEF IInv, Attempt

\* The invariant behind the theorems below.
THEOREM Inductive == Spec => []IInv
BY InitHolds, StepHolds, PTL DEF Spec

\* The records of the catch-up, its calls and its sessions keep their types.
THEOREM TypeCorrect == Spec => []TypeOK
BY Inductive, PTL DEF IInv

\* While a session is up, its candidate, the current one, is tried under it, and
\* no other one; a device given up has no slot and no signalling session left.
THEOREM AttemptsAgree == Spec => []OneAttempt
BY Inductive, PTL DEF IInv

\* In one query a device is tried under one session, whatever fails, times out or
\* is closed twice.
THEOREM DevicesAreTriedOnce == Spec => TriedOnce
<1> DEFINE A == query' = query =>
                   \A s \in Sessions, i \in DOMAIN candidates, j \in DOMAIN candidates' :
                      /\ candidates[i].session = s
                      /\ candidates'[j].device = candidates[i].device
                      => candidates'[j].session = s
<1>1. IInv /\ [Next]_vars => A
  <2> SUFFICES ASSUME IInv, [Next]_vars, query' = query,
                      NEW s \in Sessions, NEW i \in DOMAIN candidates,
                      NEW j \in DOMAIN candidates', candidates[i].session = s,
                      candidates'[j].device = candidates[i].device
               PROVE  candidates'[j].session = s
    OBVIOUS
  <2>1. ComesFrom(j)
    BY CandidateMoves
  <2>2. s # None /\ \A k \in DOMAIN candidates : candidates[k].device = candidates[i].device => k = i
    BY PhaseType DEF IInv, Fit
  <2> QED BY <2>1, <2>2 DEF ComesFrom
<1>2. IInv /\ [Next]_vars => [A]_vars
  BY <1>1
<1> QED BY <1>2, Inductive, PTL DEF Spec, TriedOnce

\* A device becomes the source of a completed copy by its own session's last frame.
THEOREM CopiesCompleteThemselves == Spec => CompletedByItsOwn
<1> DEFINE A == \A s \in Sessions, j \in DOMAIN candidates' :
                   /\ candidates'[j].status = "done" /\ candidates'[j].session = s
                   /\ \A i \in DOMAIN candidates :
                         candidates[i].session = s => candidates[i].status # "done"
                   => exchange[s] = "copying" /\ exchange'[s] = "saving"
<1>1. IInv /\ [Next]_vars => A
  <2> SUFFICES ASSUME IInv, [Next]_vars, NEW s \in Sessions, NEW j \in DOMAIN candidates',
                      candidates'[j].status = "done", candidates'[j].session = s,
                      \A i \in DOMAIN candidates :
                         candidates[i].session = s => candidates[i].status # "done"
               PROVE  exchange[s] = "copying" /\ exchange'[s] = "saving"
    OBVIOUS
  <2>1. CASE query' = query
    <3>1. ComesFrom(j)
      BY <2>1, CandidateMoves
    <3> QED BY <3>1 DEF ComesFrom
  <2>2. CASE query' # query
    <3>1. candidates' = <<>>
      BY <2>2, CandidatesOutlive
    <3> QED BY <3>1
  <2> QED BY <2>1, <2>2
<1>2. IInv /\ [Next]_vars => [A]_vars
  BY <1>1
<1> QED BY <1>2, Inductive, PTL DEF Spec, CompletedByItsOwn
=============================================================================
