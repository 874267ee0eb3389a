--------------------------- MODULE AccountSyncProofs ---------------------------
(* That an edit stands (EditStands), for any devices, fields and modes.      *)
(*                                                                         *)
(* An edit could be lost where content that was read is taken over: in      *)
(* MergePulled if the edit passed for what base has, in AdoptPulled if the   *)
(* device did not count as ahead or the draft as touched. So the invariant   *)
(* says what base and synced hold: no edit that the server never had. They   *)
(* are set to what was read or to what was written, and both is landed.      *)
EXTENDS AccountSync, TLAPS

-----------------------------------------------------------------------------
(* The invariant                                                           *)

Texts(n) == [Field -> 0 .. n]
Known(n, l) == {c \in Texts(n) : \A f \in Field : <<f, c[f]>> \in l}

Reads(n, l) ==
    [at : {"asked", "answered"}, content : Known(n, l) \cup {Null},
     locked : BOOLEAN, unsealed : BOOLEAN]

Writes(n, l) ==
    {u \in [content : Texts(n), sealed : BOOLEAN, landed : BOOLEAN, waited : BOOLEAN] :
        u.landed => u.content \in Known(n, l)}

Composers(n, l) ==
    {c \in [synced : Texts(n), offered : [Field -> SUBSET Nat],
            discarded : [Field -> SUBSET Nat]] :
        \A f \in Field : c.synced[f] = 0 \/ <<f, c.synced[f]>> \in l}

Numbers ==
    /\ mode \in Modes
    /\ drawn \in 1 .. MaxValue
    /\ landed \subseteq Field \X (0 .. drawn)
    /\ edited \subseteq Device \X Field \X (0 .. drawn)

Contents ==
    /\ local \in [Device -> Texts(drawn)]
    /\ base \in [Device -> Texts(drawn) \cup {Null}]
    /\ server \in [content : Known(drawn, landed) \cup {Null}, sealed : BOOLEAN]
    /\ drafts \in [Device -> Composers(drawn, landed)]

Traffic ==
    /\ pulls \in [Device -> Seq(Reads(drawn, landed))]
    /\ uploads \in [Device -> Seq(Writes(drawn, landed))]

\* What base has was read or written, or it is no edit.
BaseIsLanded ==
    Settings => \A d \in Device, f \in Field :
        /\ base[d] # Null
        /\ <<d, f, base[d][f]>> \in edited
        /\ base[d][f] # 0
        => <<f, base[d][f]>> \in landed

NothingBeforeTheFirst ==
    Settings => \A d \in Device : base[d] = Null =>
        \A f \in Field, v \in 0 .. drawn : <<d, f, v>> \notin edited

IInv == Numbers /\ Contents /\ Traffic /\ BaseIsLanded /\ NothingBeforeTheFirst

-----------------------------------------------------------------------------
(* Lemmas                                                                  *)

LEMMA TakenOut ==
    ASSUME NEW S, NEW s \in Seq(S), NEW i \in DOMAIN s
    PROVE  RemoveAt(s, i) \in Seq(S)
BY DEF RemoveAt

LEMMA Wider ==
    ASSUME NEW S, NEW T, S \subseteq T
    PROVE  Seq(S) \subseteq Seq(T)
OBVIOUS

\* As more is drawn and lands, what was well formed stays so.
LEMMA Growing ==
    ASSUME NEW n \in Nat, NEW m \in Nat, n <= m, NEW l, NEW k, l \subseteq k
    PROVE  /\ Texts(n) \subseteq Texts(m)
           /\ Known(n, l) \subseteq Known(m, k)
           /\ Reads(n, l) \subseteq Reads(m, k)
           /\ Writes(n, l) \subseteq Writes(m, k)
           /\ Composers(n, l) \subseteq Composers(m, k)
<1>1. Texts(n) \subseteq Texts(m)
  BY DEF Texts
<1>2. Known(n, l) \subseteq Known(m, k)
  BY <1>1 DEF Known
<1>3. Reads(n, l) \subseteq Reads(m, k)
  BY <1>2 DEF Reads
<1>4. Writes(n, l) \subseteq Writes(m, k)
  BY <1>1, <1>2 DEF Writes
<1>5. Composers(n, l) \subseteq Composers(m, k)
  BY <1>1 DEF Composers
<1> QED BY <1>1, <1>2, <1>3, <1>4, <1>5

LEMMA NullIsNoText ==
    ASSUME NEW n \in 1 .. MaxValue
    PROVE  Null \notin Texts(n)
<1>1. Texts(n) \subseteq Content
  BY DocumentAssumption DEF Texts, Content, Value
<1> QED BY <1>1, DocumentAssumption

-----------------------------------------------------------------------------
(* What the composer remembers                                             *)

LEMMA OfferedKept ==
    ASSUME NEW n \in Nat, NEW l, NEW c \in Composers(n, l), NEW t \in Texts(n)
    PROVE  Offered(c, t) \in Composers(n, l)
<1> DEFINE offered == [f \in Field |-> c.offered[f] \cup ({t[f]} \ {0})]
<1>1. offered \in [Field -> SUBSET Nat]
  BY DEF Composers, Texts
<1>2. Offered(c, t) = [c EXCEPT !.offered = offered]
  BY DEF Offered
<1> HIDE DEF offered
<1> QED BY <1>1, <1>2 DEF Composers

LEMMA WrittenKept ==
    ASSUME NEW n \in Nat, NEW l, NEW c \in Composers(n, l), NEW f \in Field
    PROVE  Written(c, f) \in Composers(n, l)
BY DEF Written, Composers

LEMMA ClearedKept ==
    ASSUME NEW n \in Nat, NEW l, NEW c \in Composers(n, l), NEW t \in Texts(n), NEW f \in Field
    PROVE  Cleared(c, t, f) \in Composers(n, l)
<1> DEFINE stale == (c.offered[f] \cup {c.synced[f], t[f]}) \ {0}
<1>1. stale \in SUBSET Nat
  BY DEF Composers, Texts
<1>2. Cleared(c, t, f) = [c EXCEPT !.discarded[f] = stale]
  BY DEF Cleared
<1> HIDE DEF stale
<1> QED BY <1>1, <1>2 DEF Composers

LEMMA AdoptedKept ==
    ASSUME NEW n \in Nat, NEW l, NEW c \in Composers(n, l), NEW t \in Texts(n),
           NEW content \in Known(n, l)
    PROVE  /\ AdoptedDrafts(c, content) \in Composers(n, l)
           /\ AdoptedTexts(c, t, content) \in Texts(n)
<1> DEFINE discarded == [f \in Field |-> IF Concerned(c, content, f)
                                         THEN StillDiscarded(c, content, f)
                                         ELSE c.discarded[f]]
<1>1. discarded \in [Field -> SUBSET Nat]
  BY DEF Composers, StillDiscarded
<1>2. AdoptedDrafts(c, content) = [c EXCEPT !.synced = content, !.discarded = discarded]
  BY DEF AdoptedDrafts
<1> HIDE DEF discarded
<1>3. AdoptedDrafts(c, content) \in Composers(n, l)
  BY <1>1, <1>2 DEF Composers, Known
<1>4. AdoptedTexts(c, t, content) \in Texts(n)
  BY DEF AdoptedTexts, Texts, Known
<1> QED BY <1>3, <1>4

\* What a merge makes of a setting, and what a merge or an adoption shows.
LEMMA MergedTexts ==
    ASSUME NEW n \in Nat, NEW b \in Texts(n), NEW t \in Texts(n), NEW content \in Texts(n)
    PROVE  /\ Applied(content, t) \in Texts(n)
           /\ Applied(Merge(b, t, content), t) \in Texts(n)
           /\ \A f \in Field : t[f] # b[f] /\ t[f] # 0 =>
                 Applied(Merge(b, t, content), t)[f] = t[f]
BY DEF Applied, Merge, Pick, Texts

-----------------------------------------------------------------------------
LEMMA Initially == Init => IInv
<1> SUFFICES ASSUME Init PROVE IInv OBVIOUS
<1>1. /\ mode.initial \in Texts(1) \cup {Null}
      /\ mode.fresh \/ mode.initial # Null
      /\ 1 \in 1 .. MaxValue
  BY ModesAssumption, DocumentAssumption DEF Texts, Init
<1>2. mode.initial # Null => mode.initial \in Known(1, landed)
  BY <1>1 DEF Known, Held, Init
<1>3. Numbers
  BY <1>1 DEF Numbers, Held, Texts, Init
<1>4. Contents
  <2>1. Empty \in Texts(1)
    BY DEF Empty, Texts
  <2>2. NoDrafts \in Composers(1, landed)
    BY <2>1 DEF NoDrafts, Composers, Empty
  <2>3. ASSUME mode.initial # Null
        PROVE  Offered(AdoptedDrafts(NoDrafts, mode.initial), mode.initial) \in Composers(1, landed)
    BY <1>1, <1>2, <2>2, <2>3, AdoptedKept, OfferedKept
  <2> QED BY <1>1, <1>2, <2>1, <2>2, <2>3 DEF Contents, Init
<1>5. Traffic
  <2>1. Asked \in Reads(drawn, landed)
    BY DEF Asked, Reads
  <2>2. Started \in Seq(Reads(drawn, landed))
    BY <2>1 DEF Started
  <2>3. << >> \in Seq(Reads(drawn, landed)) /\ << >> \in Seq(Writes(drawn, landed))
    OBVIOUS
  <2> QED BY <2>2, <2>3 DEF Traffic, Init
<1>6. BaseIsLanded /\ NothingBeforeTheFirst
  BY DEF BaseIsLanded, NothingBeforeTheFirst, Init
<1> QED BY <1>3, <1>4, <1>5, <1>6 DEF IInv

-----------------------------------------------------------------------------
(* Steps that change requests only                                         *)

LEMMA Begun ==
    ASSUME Traffic, NEW d \in Device
    PROVE  PullBegun(d) \in [Device -> Seq(Reads(drawn, landed))]
<1>1. Asked \in Reads(drawn, landed)
  BY DEF Asked, Reads
<1> QED BY <1>1 DEF PullBegun, Traffic

LEMMA OnlyRequests ==
    ASSUME IInv, Traffic', UNCHANGED <<mode, server, doc, base, drawn, landed, edited>>
    PROVE  IInv'
BY DEF IInv, Numbers, Contents, BaseIsLanded, NothingBeforeTheFirst, Settings, doc

LEMMA NoLongerWaited ==
    ASSUME NEW n \in Nat, NEW l, NEW u \in Writes(n, l)
    PROVE  [u EXCEPT !.waited = FALSE] \in Writes(n, l)
<1> DEFINE w == [u EXCEPT !.waited = FALSE]
<1>1. u \in [content : Texts(n), sealed : BOOLEAN, landed : BOOLEAN, waited : BOOLEAN]
  BY DEF Writes
<1>2. /\ w \in [content : Texts(n), sealed : BOOLEAN, landed : BOOLEAN, waited : BOOLEAN]
      /\ w.landed = u.landed /\ w.content = u.content
  BY <1>1
<1>3. w.landed => w.content \in Known(n, l)
  BY <1>2 DEF Writes
<1> HIDE DEF w
<1>4. w \in Writes(n, l)
  BY <1>2, <1>3 DEF Writes
<1> QED BY <1>4 DEF w

LEMMA NoneWaited ==
    ASSUME NEW n \in Nat, NEW l, NEW s \in Seq(Writes(n, l))
    PROVE  NotWaited(s) \in Seq(Writes(n, l))
<1>1. \A i \in DOMAIN s : [s[i] EXCEPT !.waited = FALSE] \in Writes(n, l)
  BY NoLongerWaited
<1>2. DOMAIN s = 1 .. Len(s) /\ Len(s) \in Nat
  OBVIOUS
<1>3. NotWaited(s) \in [1 .. Len(s) -> Writes(n, l)]
  BY <1>1, <1>2 DEF NotWaited
<1> QED BY <1>2, <1>3

LEMMA RestartedRequests ==
    ASSUME IInv, NEW d \in Device, Restarted(d)
    PROVE  /\ pulls' \in [Device -> Seq(Reads(drawn, landed))]
           /\ uploads' \in [Device -> Seq(Writes(drawn, landed))]
<1>1. Started \in Seq(Reads(drawn, landed))
  BY DEF Asked, Reads, Started
<1>2. NotWaited(uploads[d]) \in Seq(Writes(drawn, landed))
  BY NoneWaited DEF Traffic, IInv, Numbers
<1> QED BY <1>1, <1>2 DEF Restarted, Traffic, IInv

LEMMA ReadSteps ==
    ASSUME IInv, NEW d \in Device,
           Event(d) \/ Read(d) \/ PullFails(d) \/ GetKey(d)
    PROVE  IInv'
<1> USE DEF IInv
<1>1. /\ UNCHANGED <<mode, server, doc, base, drawn, landed, edited, uploads>>
      /\ pulls' \in [Device -> Seq(Reads(drawn, landed))]
  <2>1. CASE Event(d)
    BY <2>1, Begun DEF Event, state, history
  <2>2. CASE Read(d)
    <3>1. Document(d) \in Reads(drawn, landed)
      BY DEF Document, Answer, Reads, Contents, Drafts
    <3> QED BY <2>2, <3>1 DEF Read, state, history, Traffic
  <2>3. CASE PullFails(d)
    BY <2>3, TakenOut DEF PullFails, state, Traffic
  <2>4. CASE GetKey(d)
    BY <2>4, Begun DEF GetKey, state, history
  <2> QED BY <2>1, <2>2, <2>3, <2>4
<1>2. Traffic'
  BY <1>1 DEF Traffic
<1> QED BY <1>1, <1>2, OnlyRequests

LEMMA SendSteps ==
    ASSUME IInv, NEW d \in Device,
           TimerFires(d) \/ Flush(d) \/ UploadFails(d) \/ Restart(d)
    PROVE  IInv'
<1> USE DEF IInv
<1>1. /\ UNCHANGED <<mode, server, doc, base, drawn, landed, edited>>
      /\ pulls' \in [Device -> Seq(Reads(drawn, landed))]
      /\ uploads' \in [Device -> Seq(Writes(drawn, landed))]
  <2>1. ASSUME SendUpload(d)
        PROVE  uploads' \in [Device -> Seq(Writes(drawn, landed))]
    <3>1. Upload(local[d], Drafts /\ d \in keyed) \in Writes(drawn, landed)
      BY DEF Upload, Writes, Contents, Drafts
    <3> QED BY <2>1, <3>1 DEF SendUpload, Traffic
  <2>2. CASE TimerFires(d)
    BY <2>1, <2>2 DEF TimerFires, history, Traffic
  <2>3. CASE Flush(d)
    <3>1. UNCHANGED <<mode, server, doc, base, drawn, landed, edited>>
      BY <2>3 DEF Flush, history
    <3>2. pulls' \in [Device -> Seq(Reads(drawn, landed))]
      <4>1. pulls' = pulls \/ pulls' = PullBegun(d)
        BY <2>3 DEF Flush
      <4> QED BY <4>1, Begun DEF Traffic
    <3>3. uploads' \in [Device -> Seq(Writes(drawn, landed))]
      <4>1. uploads' = uploads \/ SendUpload(d)
        BY <2>3 DEF Flush
      <4> QED BY <2>1, <4>1 DEF Traffic
    <3> QED BY <3>1, <3>2, <3>3
  <2>4. CASE UploadFails(d)
    <3>1. PICK i \in DOMAIN uploads[d] :
             \/ uploads' = [uploads EXCEPT ![d][i].waited = FALSE]
             \/ uploads' = [uploads EXCEPT ![d] = RemoveAt(@, i)]
      BY <2>4 DEF UploadFails
    <3>2. uploads[d] \in Seq(Writes(drawn, landed))
      BY DEF Traffic
    <3>3. RemoveAt(uploads[d], i) \in Seq(Writes(drawn, landed))
      BY <3>2, TakenOut
    <3>4. [uploads[d][i] EXCEPT !.waited = FALSE] \in Writes(drawn, landed)
      BY <3>2, NoLongerWaited DEF Numbers
    <3>5. [uploads[d] EXCEPT ![i].waited = FALSE] \in Seq(Writes(drawn, landed))
      BY <3>2, <3>4
    <3>6. uploads' \in [Device -> Seq(Writes(drawn, landed))]
      BY <3>1, <3>3, <3>5 DEF Traffic
    <3> QED BY <2>4, <3>6 DEF UploadFails, state, Traffic
  <2>5. CASE Restart(d)
    BY <2>5, RestartedRequests DEF Restart
  <2> QED BY <2>2, <2>3, <2>4, <2>5
<1>2. Traffic'
  BY <1>1 DEF Traffic
<1> QED BY <1>1, <1>2, OnlyRequests

-----------------------------------------------------------------------------
(* Edits: a new number is in no base, a number of before landed, a draft that *)
(* is cleared is no edit.                                                    *)

LEMMA EditedKept ==
    ASSUME IInv, NEW d \in Device, NEW f \in Field, NEW v \in 0 .. drawn',
           Edited(d, f, v), drawn' \in drawn .. MaxValue,
           v > drawn \/ v = 0 \/ <<f, v>> \in landed,
           drafts' \in [Device -> Composers(drawn', landed')]
    PROVE  IInv'
<1> USE DEF IInv
<1>1. /\ UNCHANGED <<mode, server, base, uploads, landed>>
      /\ local' = [local EXCEPT ![d][f] = v]
      /\ edited' \in {edited, edited \cup {<<d, f, v>>}}
      /\ Settings /\ base[d] = Null => edited' = edited
  BY DEF Edited, Noted
<1>2. drawn \in Nat /\ drawn' \in Nat /\ drawn <= drawn' /\ drawn' \in 1 .. MaxValue
  BY DocumentAssumption DEF Numbers
<1>3. /\ Texts(drawn) \subseteq Texts(drawn')
      /\ Known(drawn, landed) \subseteq Known(drawn', landed')
      /\ Reads(drawn, landed) \subseteq Reads(drawn', landed')
      /\ Writes(drawn, landed) \subseteq Writes(drawn', landed')
  BY <1>1, <1>2, Growing
<1>4. Numbers'
  BY <1>1, <1>2 DEF Numbers
<1>5. Contents'
  <2>1. local' \in [Device -> Texts(drawn')]
    BY <1>1, <1>2, <1>3 DEF Contents, Texts
  <2> QED BY <1>1, <1>3, <2>1 DEF Contents
<1>6. Traffic'
  <2>1. pulls' = pulls \/ pulls' = PullBegun(d)
    BY DEF Edited, Push
  <2>2. pulls' \in [Device -> Seq(Reads(drawn, landed))]
    BY <2>1, Begun DEF Traffic
  <2>3. /\ Seq(Reads(drawn, landed)) \subseteq Seq(Reads(drawn', landed'))
        /\ Seq(Writes(drawn, landed)) \subseteq Seq(Writes(drawn', landed'))
    BY <1>3, Wider
  <2> QED BY <1>1, <2>2, <2>3 DEF Traffic
<1>7. BaseIsLanded'
  <2> SUFFICES ASSUME Settings, NEW e \in Device, NEW g \in Field, base[e] # Null,
                      <<e, g, base[e][g]>> \in edited', base[e][g] # 0
               PROVE  <<g, base[e][g]>> \in landed
    BY <1>1 DEF BaseIsLanded, Settings
  <2>1. base[e][g] \in 0 .. drawn
    BY DEF Contents, Texts
  <2>2. CASE <<e, g, base[e][g]>> \in edited
    BY <2>2 DEF BaseIsLanded
  <2>3. CASE <<e, g, base[e][g]>> = <<d, f, v>>
    BY <1>2, <2>1, <2>3
  <2> QED BY <1>1, <2>2, <2>3
<1>8. NothingBeforeTheFirst'
  <2> SUFFICES ASSUME Settings, NEW e \in Device, base[e] = Null,
                      NEW g \in Field, NEW w \in 0 .. drawn'
               PROVE  <<e, g, w>> \notin edited'
    BY <1>1 DEF NothingBeforeTheFirst, Settings
  <2>1. <<e, g, w>> \notin edited
    BY <1>2 DEF NothingBeforeTheFirst, Numbers
  <2> QED BY <1>1, <2>1
<1> QED BY <1>4, <1>5, <1>6, <1>7, <1>8

LEMMA EditSteps ==
    ASSUME IInv, NEW d \in Device, NEW f \in Field, Edit(d, f) \/ Send(d, f) \/ Undo(d, f)
    PROVE  IInv'
<1> USE DEF IInv
<1>1. drawn \in Nat /\ mode.draws <= MaxValue /\ drawn <= MaxValue /\ MaxValue \in Nat
  BY ModesAssumption, DocumentAssumption DEF Numbers
<1>2. Draw /\ landed' = landed =>
        /\ drawn' = drawn + 1 /\ drawn' \in drawn .. MaxValue
        /\ drawn' \in Nat /\ drawn <= drawn' /\ landed \subseteq landed'
  BY <1>1, ModesAssumption DEF Draw, Numbers
<1>3. CASE Edit(d, f)
  <2>1. drafts[d] \in Composers(drawn, landed)
    BY DEF Contents
  <2>2. Draw /\ Edited(d, f, drawn + 1) /\ landed' = landed
    BY <1>3 DEF Edit, Edited
  <2>3. /\ drawn' = drawn + 1 /\ drawn' \in drawn .. MaxValue
        /\ drawn' \in Nat /\ drawn <= drawn' /\ landed \subseteq landed'
    BY <1>2, <2>2
  <2>3a. Composers(drawn, landed) \subseteq Composers(drawn', landed')
    BY <1>1, <2>3, Growing
  <2>4. local'[d] \in Texts(drawn')
    BY <1>1, <2>2, <2>3 DEF Edited, Contents, Texts
  <2>5. Written(drafts[d], f) \in Composers(drawn', landed')
    BY <1>1, <2>1, <2>3a, WrittenKept
  <2>6. Offered(Written(drafts[d], f), local'[d]) \in Composers(drawn', landed')
    BY <1>1, <2>3, <2>4, <2>5, OfferedKept
  <2>7. drafts \in [Device -> Composers(drawn', landed')]
    BY <2>3a DEF Contents
  <2>8. drafts' \in [Device -> Composers(drawn', landed')]
    BY <1>3, <2>6, <2>7 DEF Edit
  <2>9. drawn + 1 \in 0 .. drawn' /\ drawn + 1 > drawn
    BY <1>1, <2>3
  <2>10. Edited(d, f, drawn + 1)
    BY <2>2
  <2> QED BY <2>3, <2>8, <2>9, <2>10, EditedKept
<1>4. CASE Send(d, f)
  <2>1. drafts[d] \in Composers(drawn, landed) /\ local[d] \in Texts(drawn)
    BY DEF Contents
  <2>2. Draw /\ Edited(d, f, 0) /\ landed' = landed
    BY <1>4 DEF Send, Edited
  <2>3. /\ drawn' = drawn + 1 /\ drawn' \in drawn .. MaxValue
        /\ drawn' \in Nat /\ drawn <= drawn' /\ landed \subseteq landed'
    BY <1>2, <2>2
  <2>3a. Composers(drawn, landed) \subseteq Composers(drawn', landed')
    BY <1>1, <2>3, Growing
  <2>4. local'[d] \in Texts(drawn')
    BY <1>1, <2>2, <2>3 DEF Edited, Contents, Texts
  <2>5. Cleared(drafts[d], local[d], f) \in Composers(drawn', landed')
    BY <1>1, <2>1, <2>3a, ClearedKept
  <2>6. Offered(Cleared(drafts[d], local[d], f), local'[d]) \in Composers(drawn', landed')
    BY <1>1, <2>3, <2>4, <2>5, OfferedKept
  <2>7. drafts \in [Device -> Composers(drawn', landed')]
    BY <2>3a DEF Contents
  <2>8. drafts' \in [Device -> Composers(drawn', landed')]
    BY <1>4, <2>6, <2>7 DEF Send
  <2>9. 0 \in 0 .. drawn'
    BY <2>3
  <2>10. Edited(d, f, 0)
    BY <2>2
  <2> QED BY <2>3, <2>8, <2>9, <2>10, EditedKept
<1>5. CASE Undo(d, f)
  <2>1. PICK v \in 1 .. MaxValue : <<f, v>> \in landed /\ Edited(d, f, v)
    BY <1>5 DEF Undo
  <2>2. drafts' = drafts /\ drawn' = drawn /\ landed' = landed
    BY <1>5, <2>1 DEF Undo, Edited
  <2>3. v \in 0 .. drawn'
    BY <1>1, <2>1, <2>2 DEF Numbers
  <2>4. drawn' \in drawn .. MaxValue /\ drafts' \in [Device -> Composers(drawn', landed')]
    BY <1>1, <2>2 DEF Contents
  <2> QED BY <2>1, <2>2, <2>3, <2>4, EditedKept
<1> QED BY <1>3, <1>4, <1>5

-----------------------------------------------------------------------------
(* Writes that land and are answered, and a new start of the page            *)

LEMMA LandKept ==
    ASSUME IInv, NEW d \in Device, Land(d)
    PROVE  IInv'
<1> USE DEF IInv
<1>1. PICK i \in DOMAIN uploads[d] :
         /\ ~uploads[d][i].landed
         /\ server' = [content |-> uploads[d][i].content, sealed |-> uploads[d][i].sealed]
         /\ landed' = landed \cup Held(uploads[d][i].content)
         /\ uploads' = [uploads EXCEPT ![d][i].landed = TRUE]
         /\ UNCHANGED <<mode, doc, state, pulls, drawn, edited>>
  BY DEF Land
<1> DEFINE u == uploads[d][i]
<1>2. uploads[d] \in Seq(Writes(drawn, landed)) /\ u \in Writes(drawn, landed)
  BY DEF Traffic
<1>3. u.content \in Texts(drawn) /\ u.sealed \in BOOLEAN
  BY <1>2 DEF Writes
<1>4. u.content \in Known(drawn, landed')
  BY <1>1, <1>3 DEF Known, Held
<1>5. drawn \in Nat /\ drawn <= drawn /\ landed \subseteq landed'
  BY <1>1 DEF Numbers
<1>6. /\ Known(drawn, landed) \subseteq Known(drawn, landed')
      /\ Reads(drawn, landed) \subseteq Reads(drawn, landed')
      /\ Writes(drawn, landed) \subseteq Writes(drawn, landed')
      /\ Composers(drawn, landed) \subseteq Composers(drawn, landed')
  BY <1>5, Growing
<1>7. Numbers'
  BY <1>1, <1>3 DEF Numbers, Held, Texts
<1>8. Contents'
  BY <1>1, <1>3, <1>4, <1>6 DEF Contents, doc, state
<1>9. Traffic'
  <2>1. [u EXCEPT !.landed = TRUE] \in Writes(drawn, landed')
    BY <1>2, <1>4 DEF Writes
  <2>2. uploads[d] \in Seq(Writes(drawn, landed'))
    BY <1>2, <1>6, Wider
  <2>3. [uploads[d] EXCEPT ![i] = [u EXCEPT !.landed = TRUE]] \in Seq(Writes(drawn, landed'))
    BY <2>1, <2>2
  <2>4. uploads' = [uploads EXCEPT ![d] = [uploads[d] EXCEPT ![i] = [u EXCEPT !.landed = TRUE]]]
    BY <1>1 DEF Traffic
  <2>5. /\ Seq(Reads(drawn, landed)) \subseteq Seq(Reads(drawn, landed'))
        /\ Seq(Writes(drawn, landed)) \subseteq Seq(Writes(drawn, landed'))
    BY <1>6, Wider
  <2> HIDE DEF u
  <2> QED BY <1>1, <2>3, <2>4, <2>5 DEF Traffic
<1>10. BaseIsLanded' /\ NothingBeforeTheFirst'
  BY <1>1, <1>5 DEF BaseIsLanded, NothingBeforeTheFirst, Settings, state
<1> QED BY <1>7, <1>8, <1>9, <1>10

LEMMA UploadedKept ==
    ASSUME IInv, NEW d \in Device, Uploaded(d)
    PROVE  IInv'
<1> USE DEF IInv
<1>1. PICK i \in DOMAIN uploads[d] :
         /\ uploads[d][i].landed
         /\ base' \in {base, [base EXCEPT ![d] = uploads[d][i].content]}
         /\ uploads' = [uploads EXCEPT ![d] = RemoveAt(@, i)]
         /\ UNCHANGED <<mode, server, doc, pulls, drawn, landed, edited>>
  BY DEF Uploaded, history
<1>2. uploads[d] \in Seq(Writes(drawn, landed)) /\ uploads[d][i] \in Writes(drawn, landed)
  BY DEF Traffic
<1>3. uploads[d][i].content \in Known(drawn, landed)
  BY <1>1, <1>2 DEF Writes
<1>4. Numbers'
  BY <1>1 DEF Numbers
<1>5. Contents'
  BY <1>1, <1>3 DEF Contents, doc, Known
<1>6. Traffic'
  BY <1>1, <1>2, TakenOut DEF Traffic
<1>7. Null \notin Texts(drawn) /\ uploads[d][i].content # Null
  BY <1>3, NullIsNoText DEF Numbers, Known
<1>8. BaseIsLanded'
  BY <1>1, <1>3 DEF BaseIsLanded, Settings, Contents, Known
<1>9. NothingBeforeTheFirst'
  BY <1>1, <1>7 DEF NothingBeforeTheFirst, Settings, Contents
<1> QED BY <1>4, <1>5, <1>6, <1>8, <1>9

LEMMA ReloadKept ==
    ASSUME IInv, NEW d \in Device, Reload(d)
    PROVE  IInv'
<1> USE DEF IInv
<1>1. /\ UNCHANGED <<mode, server, drawn, landed, edited>>
      /\ Restarted(d)
      /\ Settings => UNCHANGED <<doc, base>>
      /\ ~Settings => /\ local' = [local EXCEPT ![d] = Empty]
                      /\ drafts' = [drafts EXCEPT ![d] = NoDrafts]
                      /\ base' = [base EXCEPT ![d] = Null]
  BY DEF Reload
<1>2. Numbers'
  BY <1>1 DEF Numbers
<1>3. Empty \in Texts(drawn) /\ NoDrafts \in Composers(drawn, landed)
  <2>1. Empty \in Texts(drawn)
    BY DEF Empty, Texts, Numbers
  <2> QED BY <2>1 DEF NoDrafts, Composers, Empty
<1>4. Contents'
  BY <1>1, <1>3 DEF Contents, doc
<1>5. Traffic'
  BY <1>1, RestartedRequests DEF Traffic
<1>6. BaseIsLanded' /\ NothingBeforeTheFirst'
  BY <1>1 DEF BaseIsLanded, NothingBeforeTheFirst, Settings, doc
<1> QED BY <1>2, <1>4, <1>5, <1>6

-----------------------------------------------------------------------------
(* What was read is taken over                                             *)

\* The three things the answer to a read does to a document.
Stays == UNCHANGED <<local, drafts, base>>
Merges(d, c) ==
    /\ Settings /\ base[d] # Null
    /\ local' = [local EXCEPT ![d] = Applied(Merge(base[d], local[d], c), local[d])]
    /\ base' = [base EXCEPT ![d] = c]
    /\ drafts' = drafts
Adopted(d, c) ==
    /\ base[d] = Null \/ local[d] = base[d]
    /\ c # Null \/ Drafts
    /\ local' = [local EXCEPT ![d] = Shown(d, c)]
    /\ drafts' = [drafts EXCEPT ![d] = Remembered(d, c)]
    /\ base' = [base EXCEPT ![d] = local'[d]]

LEMMA PulledIs ==
    ASSUME IInv, NEW d \in Device, Pulled(d)
    PROVE  /\ UNCHANGED <<mode, server, uploads, drawn, landed, edited>>
           /\ pulls' \in [Device -> Seq(Reads(drawn, landed))]
           /\ \/ Stays
              \/ \E c \in Known(drawn, landed) : Merges(d, c)
              \/ \E c \in Known(drawn, landed) \cup {Null} : Adopted(d, c)
<1> USE DEF IInv
<1>1. PICK i \in DOMAIN pulls[d] :
         /\ IF pulls[d][i].locked THEN FoundLocked(d) ELSE FoundOpen(d, pulls[d][i])
         /\ pulls' = [pulls EXCEPT ![d] = RemoveAt(@, i)]
  BY DEF Pulled
<1> DEFINE c == pulls[d][i].content
<1>2. pulls[d] \in Seq(Reads(drawn, landed)) /\ pulls[d][i] \in Reads(drawn, landed)
  BY DEF Traffic
<1>3. c \in Known(drawn, landed) \cup {Null}
  BY <1>2 DEF Reads
<1>4. pulls' \in [Device -> Seq(Reads(drawn, landed))]
  BY <1>1, <1>2, TakenOut DEF Traffic
<1>5. Stays \/ (c # Null /\ Merges(d, c)) \/ Adopted(d, c)
  <2>1. CASE FoundLocked(d)
    BY <2>1 DEF FoundLocked, Stays, doc
  <2>2. CASE FoundOpen(d, pulls[d][i])
    <3>1. CASE Ahead(d) /\ Settings /\ c # Null
      BY <2>2, <3>1 DEF FoundOpen, Ahead, MergePulled, Merges, Contents
    <3>2. CASE ~Ahead(d) /\ Adopts(d, c)
      BY <2>2, <3>2 DEF FoundOpen, Ahead, AdoptPulled, Adopts, Adopted, Contents
    <3>3. CASE ~(Ahead(d) /\ Settings /\ c # Null) /\ ~(~Ahead(d) /\ Adopts(d, c))
      BY <2>2, <3>3 DEF FoundOpen, Stays, doc
    <3> QED BY <3>1, <3>2, <3>3
  <2> QED BY <1>1, <2>1, <2>2
<1> HIDE DEF c
<1>6. UNCHANGED <<mode, server, uploads, drawn, landed, edited>>
  BY DEF Pulled, history
<1> QED BY <1>3, <1>4, <1>5, <1>6

LEMMA ShownKept ==
    ASSUME IInv, NEW d \in Device, NEW c \in Known(drawn, landed) \cup {Null}, Adopted(d, c),
           Numbers'
    PROVE  /\ local'[d] \in Texts(drawn)
           /\ drafts'[d] \in Composers(drawn, landed)
           /\ local' \in [Device -> Texts(drawn)]
           /\ drafts' \in [Device -> Composers(drawn, landed)]
<1> USE DEF IInv
<1>1. /\ drawn \in Nat
      /\ local[d] \in Texts(drawn)
      /\ drafts[d] \in Composers(drawn, landed)
  BY DEF Numbers, Contents
<1>2. local'[d] = Shown(d, c) /\ drafts'[d] = Remembered(d, c)
  BY DEF Adopted, Contents
<1>3. c # Null => c \in Known(drawn, landed) /\ c \in Texts(drawn)
  BY DEF Known
<1>4. Shown(d, c) \in Texts(drawn)
  BY <1>1, <1>3, MergedTexts, AdoptedKept DEF Shown, Adopted, Settings, Drafts
<1>5. Remembered(d, c) \in Composers(drawn, landed)
  <2>1. CASE Settings
    BY <1>1, <2>1 DEF Remembered
  <2>2. CASE ~Settings /\ c = Null
    BY <1>1, <1>2, <1>4, <2>2, OfferedKept DEF Remembered
  <2>3. CASE ~Settings /\ c # Null
    <3>1. AdoptedDrafts(drafts[d], c) \in Composers(drawn, landed)
      BY <1>1, <1>3, <2>3, AdoptedKept
    <3> QED BY <1>1, <1>2, <1>4, <2>3, <3>1, OfferedKept DEF Remembered
  <2> QED BY <2>1, <2>2, <2>3
<1> QED BY <1>2, <1>4, <1>5 DEF Adopted, Contents

LEMMA PulledKept ==
    ASSUME IInv, NEW d \in Device, Pulled(d)
    PROVE  IInv'
<1> USE DEF IInv
<1>1. /\ UNCHANGED <<mode, server, uploads, drawn, landed, edited>>
      /\ pulls' \in [Device -> Seq(Reads(drawn, landed))]
  BY PulledIs
<1>2. Numbers' /\ Traffic'
  BY <1>1 DEF Numbers, Traffic
<1>3. Null \notin Texts(drawn)
  BY NullIsNoText DEF Numbers
<1>4. CASE Stays
  BY <1>1, <1>2, <1>4 DEF Stays, Contents, BaseIsLanded, NothingBeforeTheFirst, Settings
<1>5. ASSUME NEW c \in Known(drawn, landed), Merges(d, c)
      PROVE  Contents' /\ BaseIsLanded' /\ NothingBeforeTheFirst'
  <2>1. c \in Texts(drawn) /\ c # Null /\ \A f \in Field : <<f, c[f]>> \in landed
    BY <1>3 DEF Known
  <2>2. /\ drawn \in Nat
        /\ local[d] \in Texts(drawn) /\ base[d] \in Texts(drawn)
    BY <1>5 DEF Contents, Merges, Numbers
  <2>3. local' \in [Device -> Texts(drawn)]
    BY <1>5, <2>1, <2>2, MergedTexts DEF Merges, Contents
  <2>4. Contents'
    BY <1>1, <1>5, <2>1, <2>3 DEF Merges, Contents
  <2>5. base' = [base EXCEPT ![d] = c] /\ base \in [Device -> Texts(drawn) \cup {Null}]
    BY <1>5 DEF Merges, Contents
  <2>6. BaseIsLanded'
    BY <1>1, <2>1, <2>5 DEF BaseIsLanded, Settings
  <2>7. NothingBeforeTheFirst'
    BY <1>1, <2>1, <2>5 DEF NothingBeforeTheFirst, Settings
  <2> QED BY <2>4, <2>6, <2>7
<1>6. ASSUME NEW c \in Known(drawn, landed) \cup {Null}, Adopted(d, c)
      PROVE  Contents' /\ BaseIsLanded' /\ NothingBeforeTheFirst'
  <2>1. /\ local'[d] \in Texts(drawn)
        /\ local' \in [Device -> Texts(drawn)]
        /\ drafts' \in [Device -> Composers(drawn, landed)]
    BY <1>2, <1>6, ShownKept
  <2>2. base' = [base EXCEPT ![d] = local'[d]] /\ base \in [Device -> Texts(drawn) \cup {Null}]
    BY <1>6 DEF Adopted, Contents
  <2>3. Contents'
    BY <1>1, <2>1, <2>2 DEF Contents
  <2>4. base'[d] # Null
    BY <1>3, <2>1, <2>2
  <2>5. NothingBeforeTheFirst'
    BY <1>1, <2>2, <2>4 DEF NothingBeforeTheFirst, Settings
  <2>6. BaseIsLanded'
    <3> SUFFICES ASSUME Settings, NEW e \in Device, NEW f \in Field, base'[e] # Null,
                        <<e, f, base'[e][f]>> \in edited, base'[e][f] # 0
                 PROVE  <<f, base'[e][f]>> \in landed
      BY <1>1 DEF BaseIsLanded, Settings
    <3>1. CASE e # d
      BY <2>2, <3>1 DEF BaseIsLanded
    <3>2. CASE e = d
      <4>1. c \in Texts(drawn) /\ \A g \in Field : <<g, c[g]>> \in landed
        BY <1>6, <2>1 DEF Adopted, Settings, Drafts, Known
      <4>2. base'[d][f] = IF c[f] = 0 THEN local[d][f] ELSE c[f]
        BY <1>6, <2>2 DEF Adopted, Shown, Applied, Contents
      <4>3. CASE c[f] # 0
        BY <3>2, <4>1, <4>2, <4>3
      <4>4. CASE c[f] = 0 /\ base[d] = Null
        <5>1. local[d][f] \in 0 .. drawn
          BY DEF Contents, Texts
        <5> QED BY <3>2, <4>2, <4>4, <5>1 DEF NothingBeforeTheFirst
      <4>5. CASE c[f] = 0 /\ base[d] # Null /\ local[d] = base[d]
        BY <3>2, <4>2, <4>5 DEF BaseIsLanded
      <4> QED BY <1>6, <4>3, <4>4, <4>5 DEF Adopted
    <3> QED BY <3>1, <3>2
  <2> QED BY <2>3, <2>5, <2>6
<1> QED BY <1>2, <1>4, <1>5, <1>6, PulledIs

-----------------------------------------------------------------------------
LEMMA Inductive == IInv /\ [Next]_vars => IInv'
<1> SUFFICES ASSUME IInv, [Next]_vars PROVE IInv'
  OBVIOUS
<1>1. CASE UNCHANGED vars
  BY <1>1 DEF vars, doc, state, requests, history, IInv, Numbers, Contents, Traffic,
              BaseIsLanded, NothingBeforeTheFirst, Settings
<1>2. ASSUME NEW d \in Device, Step(d)
      PROVE  IInv'
  BY <1>2, ReadSteps, SendSteps, PulledKept, LandKept, UploadedKept DEF Step
<1>3. ASSUME NEW d \in Device, Other(d)
      PROVE  IInv'
  BY <1>3, EditSteps, ReadSteps, SendSteps, ReloadKept DEF Other
<1> QED BY <1>1, <1>2, <1>3 DEF Next

\* In every behaviour the numbers, the documents and the requests are well formed, and
\* neither what a device tells its edits from (state.base) nor what it last read of a
\* draft (synced) is an edit that the server never held.
THEOREM BaseNeverHoldsAnEdit == Spec => []IInv
<1>1. Init => IInv
  BY Initially
<1>2. IInv /\ [Next]_vars => IInv'
  BY Inductive
<1> QED BY <1>1, <1>2, PTL DEF Spec

-----------------------------------------------------------------------------
(* Types and bounds                                                        *)

Requested ==
    \A d \in Device : /\ Len(pulls[d]) <= 2 \/ Len(pulls[d]) <= mode.pulls
                      /\ Len(uploads[d]) <= mode.uploads

Timer == {"none", "set", "cleared"}

Shapes ==
    /\ remote \in [Device -> Content \cup {Null}]
    /\ pulled \in [Device -> BOOLEAN]
    /\ locked \in [Device -> BOOLEAN]
    /\ timer \in [Device -> Timer]
    /\ news \subseteq Device /\ keyed \subseteq Device
    /\ \A d \in Device : locked[d] => ~pulled[d]

LEMMA TextsAreContents ==
    ASSUME IInv
    PROVE  Texts(drawn) \subseteq Content /\ Known(drawn, landed) \subseteq Content
BY DocumentAssumption DEF IInv, Numbers, Texts, Known, Content, Value

LEMMA TypeFollows ==
    ASSUME IInv, Shapes, Requested
    PROVE  TypeOK
<1>1. /\ server \in [content : Content \cup {Null}, sealed : BOOLEAN]
      /\ local \in [Device -> Content]
      /\ base \in [Device -> Content \cup {Null}]
  BY TextsAreContents DEF IInv, Contents
<1>2. ASSUME NEW d \in Device, NEW i \in DOMAIN uploads[d]
      PROVE  uploads[d][i].content \in Content
  <2>1. uploads[d][i] \in Writes(drawn, landed)
    BY DEF IInv, Traffic
  <2> QED BY <2>1, TextsAreContents DEF Writes
<1> QED BY <1>1, <1>2 DEF Shapes, Requested, Timer, TypeOK

LEMMA Lengths ==
    ASSUME NEW S, NEW s \in Seq(S)
    PROVE  /\ Len(s) \in Nat
           /\ \A x \in S : Len(Append(s, x)) = Len(s) + 1
           /\ \A i \in DOMAIN s : Len(RemoveAt(s, i)) = Len(s) - 1
           /\ \A i \in DOMAIN s : \A x : Len([s EXCEPT ![i] = x]) = Len(s)
           /\ Len(NotWaited(s)) = Len(s)
BY DEF RemoveAt, NotWaited

\* What a step of a device may do to the requests it has under way.
Moves(d) ==
    /\ \A e \in Device : e # d => pulls'[e] = pulls[e] /\ uploads'[e] = uploads[e]
    /\ Len(pulls'[d]) <= Len(pulls[d]) \/ Len(pulls'[d]) <= mode.pulls \/ Len(pulls'[d]) <= 2
    /\ Len(uploads'[d]) <= Len(uploads[d]) \/ Len(uploads'[d]) <= mode.uploads
    /\ mode' = mode

LEMMA MovesKeep ==
    ASSUME IInv, IInv', Requested, NEW d \in Device, Moves(d)
    PROVE  Requested'
<1>1. /\ \A e \in Device : Len(pulls[e]) \in Nat /\ Len(uploads[e]) \in Nat
      /\ \A e \in Device : Len(pulls'[e]) \in Nat /\ Len(uploads'[e]) \in Nat
      /\ mode.pulls \in Nat /\ mode.uploads \in Nat
  BY ModesAssumption DEF IInv, Traffic, Numbers
<1>2. Len(pulls'[d]) <= 2 \/ Len(pulls'[d]) <= mode.pulls
  BY <1>1 DEF Requested, Moves
<1>3. Len(uploads'[d]) <= mode.uploads
  BY <1>1 DEF Requested, Moves
<1>4. ASSUME NEW e \in Device
      PROVE  /\ Len(pulls'[e]) <= 2 \/ Len(pulls'[e]) <= mode.pulls
             /\ Len(uploads'[e]) <= mode.uploads
  BY <1>2, <1>3 DEF Requested, Moves
<1> QED BY <1>4 DEF Requested, Moves

LEMMA StepMoves ==
    ASSUME IInv, NEW d \in Device, Step(d) \/ Other(d)
    PROVE  Moves(d)
<1>1. /\ pulls \in [Device -> Seq(Reads(drawn, landed))]
      /\ uploads \in [Device -> Seq(Writes(drawn, landed))]
      /\ mode.pulls \in Nat /\ mode.uploads \in Nat
      /\ Len(pulls[d]) \in Nat /\ Len(uploads[d]) \in Nat
  BY ModesAssumption DEF IInv, Traffic, Numbers
<1>2. Asked \in Reads(drawn, landed) /\ Len(Started) = 2
  BY DEF Asked, Reads, Started
<1>3. ASSUME pulls' = PullBegun(d), UNCHANGED <<uploads, mode>>
      PROVE  Moves(d)
  <2>1. Len(Append(pulls[d], Asked)) = Len(pulls[d]) + 1
    BY <1>1, <1>2, Lengths
  <2> QED BY <1>1, <1>3, <2>1 DEF PullBegun, Room, Moves
<1>4. ASSUME NEW i \in DOMAIN pulls[d], pulls' = [pulls EXCEPT ![d] = RemoveAt(@, i)],
             UNCHANGED <<uploads, mode>>
      PROVE  Moves(d)
  <2>1. Len(RemoveAt(pulls[d], i)) = Len(pulls[d]) - 1
    BY <1>1, Lengths
  <2> QED BY <1>1, <1>4, <2>1 DEF Moves
<1>5. ASSUME SendUpload(d), UNCHANGED <<pulls, mode>>
      PROVE  Moves(d)
  <2>1. Len(Append(uploads[d], Upload(local[d], Drafts /\ d \in keyed))) = Len(uploads[d]) + 1
    <3>1. Upload(local[d], Drafts /\ d \in keyed) \in Writes(drawn, landed)
      BY DEF Upload, Writes, IInv, Contents, Drafts
    <3> QED BY <1>1, <3>1, Lengths
  <2> QED BY <1>1, <1>5, <2>1 DEF SendUpload, Moves
<1>6. ASSUME NEW i \in DOMAIN uploads[d], uploads' = [uploads EXCEPT ![d] = RemoveAt(@, i)],
             UNCHANGED <<pulls, mode>>
      PROVE  Moves(d)
  <2>1. Len(RemoveAt(uploads[d], i)) = Len(uploads[d]) - 1
    BY <1>1, Lengths
  <2> QED BY <1>1, <1>6, <2>1 DEF Moves
<1>7. ASSUME NEW i \in DOMAIN uploads[d], NEW x, uploads' = [uploads EXCEPT ![d] = [@ EXCEPT ![i] = x]],
             UNCHANGED <<pulls, mode>>
      PROVE  Moves(d)
  <2>1. Len([uploads[d] EXCEPT ![i] = x]) = Len(uploads[d])
    BY <1>1, Lengths
  <2> QED BY <1>1, <1>7, <2>1 DEF Moves
<1>8. ASSUME Restarted(d), mode' = mode
      PROVE  Moves(d)
  <2>1. Len(NotWaited(uploads[d])) = Len(uploads[d])
    BY <1>1, Lengths
  <2>2. /\ \A e \in Device : e # d => pulls'[e] = pulls[e] /\ uploads'[e] = uploads[e]
        /\ pulls'[d] = Started /\ uploads'[d] = NotWaited(uploads[d])
    BY <1>1, <1>8 DEF Restarted
  <2>3. Len(pulls'[d]) = 2 /\ Len(uploads'[d]) = Len(uploads[d])
    BY <1>2, <2>1, <2>2
  <2>4. Len(pulls'[d]) <= 2 /\ Len(uploads'[d]) <= Len(uploads[d])
    BY <1>1, <2>3
  <2> QED BY <1>8, <2>2, <2>4 DEF Moves
<1>9. UNCHANGED <<pulls, uploads, mode>> => Moves(d)
  BY <1>1 DEF Moves
<1>10. CASE Event(d) \/ GetKey(d)
  BY <1>3, <1>10 DEF Event, GetKey
<1>11. CASE Read(d)
  <2>1. PICK i \in DOMAIN pulls[d] : pulls' = [pulls EXCEPT ![d][i] = Document(d)]
    BY <1>11 DEF Read
  <2>2. Len([pulls[d] EXCEPT ![i] = Document(d)]) = Len(pulls[d])
    BY <1>1, Lengths
  <2> QED BY <1>1, <1>11, <2>1, <2>2 DEF Read, Moves
<1>12. CASE Pulled(d) \/ PullFails(d)
  BY <1>4, <1>12 DEF Pulled, PullFails
<1>13. CASE TimerFires(d) \/ Flush(d)
  <2>1. mode' = mode
    BY <1>13 DEF TimerFires, Flush
  <2>2. \/ pulls' = PullBegun(d) /\ uploads' = uploads
        \/ pulls' = pulls /\ (uploads' = uploads \/ SendUpload(d))
    BY <1>13 DEF TimerFires, Flush
  <2> QED BY <1>3, <1>5, <1>9, <2>1, <2>2
<1>14. CASE Land(d)
  <2>1. PICK i \in DOMAIN uploads[d] : uploads' = [uploads EXCEPT ![d][i].landed = TRUE]
    BY <1>14 DEF Land
  <2>2. uploads' = [uploads EXCEPT ![d] = [@ EXCEPT ![i] = [uploads[d][i] EXCEPT !.landed = TRUE]]]
    BY <1>1, <2>1
  <2> QED BY <1>7, <1>14, <2>2 DEF Land
<1>15. CASE Uploaded(d)
  BY <1>6, <1>15 DEF Uploaded
<1>16. CASE UploadFails(d)
  <2>1. PICK i \in DOMAIN uploads[d] :
           \/ uploads' = [uploads EXCEPT ![d][i].waited = FALSE]
           \/ uploads' = [uploads EXCEPT ![d] = RemoveAt(@, i)]
    BY <1>16 DEF UploadFails
  <2>2. [uploads EXCEPT ![d][i].waited = FALSE]
           = [uploads EXCEPT ![d] = [@ EXCEPT ![i] = [uploads[d][i] EXCEPT !.waited = FALSE]]]
    BY <1>1
  <2> QED BY <1>6, <1>7, <1>16, <2>1, <2>2 DEF UploadFails
<1>17. CASE Restart(d) \/ Reload(d)
  BY <1>8, <1>17 DEF Restart, Reload
<1>18. ASSUME NEW f \in Field, Edit(d, f) \/ Send(d, f) \/ Undo(d, f)
       PROVE  Moves(d)
  <2>1. UNCHANGED <<uploads, mode>> /\ pulls' \in {pulls, PullBegun(d)}
    BY <1>18 DEF Edit, Send, Undo, Edited, Push
  <2> QED BY <1>3, <1>9, <2>1
<1> QED BY <1>10, <1>11, <1>12, <1>13, <1>14, <1>15, <1>16, <1>17, <1>18 DEF Step, Other

LEMMA TimerMoves ==
    ASSUME NEW d \in Device, NEW due, Scheduled(d, due), timer \in [Device -> Timer]
    PROVE  \E x \in Timer : timer' = [timer EXCEPT ![d] = x]
BY DEF Scheduled, Stopped, Timer

LEMMA ShapesKept ==
    ASSUME IInv, IInv', Shapes, NEW d \in Device, Step(d) \/ Other(d)
    PROVE  Shapes'
<1> USE DEF doc, state, history, requests
<1>1. /\ Texts(drawn) \subseteq Content /\ Known(drawn, landed) \subseteq Content
      /\ Texts(drawn') \subseteq Content
  <2>1. drawn' \in 1 .. MaxValue
    BY DEF IInv, Numbers
  <2>2. Texts(drawn') \subseteq Content
    BY <2>1, DocumentAssumption DEF Texts, Content, Value
  <2> QED BY <2>2, TextsAreContents
<1>2. local' \in [Device -> Content]
  BY <1>1 DEF IInv, Contents
<1>3. CASE Event(d) \/ Read(d) \/ PullFails(d) \/ GetKey(d) \/ UploadFails(d)
  BY <1>3 DEF Shapes, Event, Read, PullFails, GetKey, UploadFails
<1>4. CASE Pulled(d)
  <2>1. PICK i \in DOMAIN pulls[d] :
           IF pulls[d][i].locked THEN FoundLocked(d) ELSE FoundOpen(d, pulls[d][i])
    BY <1>4 DEF Pulled
  <2> DEFINE answer == pulls[d][i]
  <2>2. answer.content \in Content \cup {Null}
    <3>1. pulls[d][i] \in Reads(drawn, landed)
      BY DEF IInv, Traffic
    <3> QED BY <1>1, <3>1 DEF Reads
  <2>3. UNCHANGED <<news, keyed>>
    BY <1>4 DEF Pulled
  <2> HIDE DEF answer
  <2>4. CASE FoundLocked(d)
    BY <2>3, <2>4 DEF FoundLocked, Shapes
  <2>5. CASE FoundOpen(d, answer)
    <3>1. \E x \in Content \cup {Null} : remote' = [remote EXCEPT ![d] = x] \/ remote' = remote
      BY <1>2, <2>2, <2>5 DEF FoundOpen, MergePulled, AdoptPulled
    <3>2. /\ locked' = [locked EXCEPT ![d] = FALSE] /\ pulled' = [pulled EXCEPT ![d] = TRUE]
          /\ \E x \in Timer : timer' = [timer EXCEPT ![d] = x]
      BY <2>5, TimerMoves DEF FoundOpen, Shapes
    <3> QED BY <2>3, <3>1, <3>2 DEF Shapes
  <2> QED BY <2>1, <2>4, <2>5 DEF answer
<1>5. CASE TimerFires(d) \/ Flush(d)
  <2>1. \E x \in Timer : timer' = [timer EXCEPT ![d] = x]
    BY <1>5, TimerMoves DEF TimerFires, Flush, Shapes, Timer
  <2>2. UNCHANGED <<remote, pulled, locked, news, keyed>>
    BY <1>5 DEF TimerFires, Flush
  <2> QED BY <2>1, <2>2 DEF Shapes
<1>6. CASE Land(d)
  BY <1>6 DEF Land, Shapes
<1>7. CASE Uploaded(d)
  <2>1. PICK i \in DOMAIN uploads[d] :
           /\ remote' = IF uploads[d][i].waited THEN [remote EXCEPT ![d] = uploads[d][i].content]
                        ELSE remote
           /\ UNCHANGED <<pulled, locked, timer, news, keyed>>
    BY <1>7 DEF Uploaded
  <2>2. uploads[d][i].content \in Content
    <3>1. uploads[d][i] \in Writes(drawn, landed)
      BY DEF IInv, Traffic
    <3> QED BY <1>1, <3>1 DEF Writes
  <2> QED BY <2>1, <2>2 DEF Shapes
<1>8. CASE Restart(d) \/ Reload(d)
  <2>1. \E x \in Timer : timer' = [timer EXCEPT ![d] = x]
    BY <1>8, TimerMoves DEF Restart, Reload, Shapes, Timer
  <2>2. /\ remote' = [remote EXCEPT ![d] = Null] /\ pulled' = [pulled EXCEPT ![d] = FALSE]
        /\ locked' = [locked EXCEPT ![d] = FALSE] /\ UNCHANGED <<news, keyed>>
    BY <1>8 DEF Restart, Reload, Restarted
  <2> QED BY <2>1, <2>2 DEF Shapes
<1>9. ASSUME NEW f \in Field, Edit(d, f) \/ Send(d, f) \/ Undo(d, f)
      PROVE  Shapes'
  <2>1. Edited(d, f, drawn + 1) \/ Edited(d, f, 0) \/ \E v \in 1 .. MaxValue : Edited(d, f, v)
    BY <1>9 DEF Edit, Send, Undo
  <2>2. /\ UNCHANGED <<remote, pulled, locked, news, keyed>>
        /\ \E x \in Timer : timer' = [timer EXCEPT ![d] = x]
    BY <2>1, TimerMoves DEF Edited, Push, Shapes
  <2> QED BY <2>2 DEF Shapes
<1> QED BY <1>3, <1>4, <1>5, <1>6, <1>7, <1>8, <1>9 DEF Step, Other

\* The documents, what is known of the server and the requests under way keep their
\* types and bounds, and a document found locked waits for a read before it is pushed
\* (FoundLocked of #pull, Restarted, FoundOpen).
THEOREM TypeCorrect == Spec => []TypeOK
<1> DEFINE TInv == IInv /\ Shapes /\ Requested
<1>1. Init => TInv
  <2> SUFFICES ASSUME Init PROVE TInv
    OBVIOUS
  <2>1. IInv
    BY Initially
  <2>2. Shapes
    <3>1. Texts(drawn) \subseteq Content /\ base \in [Device -> Texts(drawn) \cup {Null}]
      BY <2>1, TextsAreContents DEF IInv, Contents
    <3> QED BY <3>1 DEF Init, Shapes, Timer
  <2>3. Requested
    <3>1. mode.pulls \in Nat /\ mode.uploads \in Nat
      BY ModesAssumption DEF Init
    <3>2. Len(Started) = 2
      BY DEF Started
    <3>3. ASSUME NEW d \in Device
          PROVE  /\ Len(pulls[d]) <= 2 \/ Len(pulls[d]) <= mode.pulls
                 /\ Len(uploads[d]) <= mode.uploads
      <4>1. pulls[d] \in {Started, <<>>} /\ uploads[d] = <<>>
        BY DEF Init
      <4>2. Len(pulls[d]) <= 2 /\ Len(uploads[d]) = 0
        <5>1. Len(<<>>) = 0
          OBVIOUS
        <5>2. Len(uploads[d]) = 0
          BY <4>1, <5>1
        <5>3. Len(pulls[d]) = 0 \/ Len(pulls[d]) = 2
          BY <3>2, <4>1, <5>1
        <5>4. \A n : n = 0 \/ n = 2 => n <= 2
          OBVIOUS
        <5> QED BY <5>2, <5>3, <5>4
      <4> QED BY <3>1, <4>2
    <3> QED BY <3>3 DEF Requested
  <2> QED BY <2>1, <2>2, <2>3
<1>2. TInv /\ [Next]_vars => TInv'
  <2> SUFFICES ASSUME TInv, [Next]_vars PROVE TInv'
    OBVIOUS
  <2>1. IInv'
    BY Inductive
  <2>2. CASE UNCHANGED vars
    BY <2>1, <2>2 DEF vars, doc, state, requests, history, Shapes, Requested
  <2>3. ASSUME NEW d \in Device, Step(d) \/ Other(d)
        PROVE  Shapes' /\ Requested'
    BY <2>1, <2>3, ShapesKept, StepMoves, MovesKeep
  <2> QED BY <2>1, <2>2, <2>3 DEF Next
<1>3. TInv => TypeOK
  BY TypeFollows
<1> HIDE DEF TInv
<1> QED BY <1>1, <1>2, <1>3, PTL DEF Spec

-----------------------------------------------------------------------------
(* An edit that nobody read                                                *)

Unread(d, f) ==
    /\ <<d, f, local[d][f]>> \in edited /\ local[d][f] # 0
    /\ <<f, local[d][f]>> \notin landed

\* The answer to a read leaves such an edit alone (FoundOpen of account-sync, #pull).
LEMMA PulledLeavesIt ==
    ASSUME IInv, NEW d \in Device, Pulled(d), NEW e \in Device, NEW f \in Field, Unread(e, f)
    PROVE  local'[e][f] = local[e][f]
<1> USE DEF IInv
<1>1. CASE Stays
  BY <1>1 DEF Stays
<1>2. ASSUME NEW c \in Known(drawn, landed), Merges(d, c), e = d
      PROVE  local'[e][f] = local[e][f]
  <2>1. /\ drawn \in Nat /\ c \in Texts(drawn)
        /\ local[d] \in Texts(drawn) /\ base[d] \in Texts(drawn)
    BY <1>2 DEF Contents, Merges, Numbers, Known
  <2>2. local[d][f] # base[d][f] /\ local[d][f] # 0
    BY <1>2 DEF Unread, BaseIsLanded, Merges
  <2>3. local'[d] = Applied(Merge(base[d], local[d], c), local[d])
    BY <1>2 DEF Merges, Contents
  <2> QED BY <1>2, <2>1, <2>2, <2>3, MergedTexts
<1>3. ASSUME NEW c \in Known(drawn, landed) \cup {Null}, Adopted(d, c), e = d
      PROVE  local'[e][f] = local[e][f]
  <2>1. local'[d] = Shown(d, c)
    BY <1>3 DEF Adopted, Contents
  <2>2. CASE Settings
    <3>1. local[d][f] \in 0 .. drawn
      BY DEF Contents, Texts
    <3>2. base[d] # Null
      BY <1>3, <2>2, <3>1 DEF Unread, NothingBeforeTheFirst
    <3>3. local[d] = base[d]
      BY <1>3, <3>2 DEF Adopted
    <3> QED BY <1>3, <2>2, <3>2, <3>3 DEF Unread, BaseIsLanded
  <2>3. CASE ~Settings /\ c = Null
    BY <1>3, <2>1, <2>3 DEF Shown
  <2>4. CASE ~Settings /\ c # Null
    <3>1. drafts[d].synced[f] # local[d][f] /\ local[d][f] # 0
      BY <1>3 DEF Contents, Composers, Unread
    <3>2. ~Untouched(drafts[d], local[d], f)
      BY <3>1 DEF Untouched
    <3> QED BY <1>3, <2>1, <2>4, <3>2 DEF Shown, AdoptedTexts
  <2> QED BY <2>2, <2>3, <2>4
<1>4. ASSUME e # d
      PROVE  local'[e][f] = local[e][f]
  BY <1>4, PulledIs DEF Stays, Merges, Adopted, Contents
<1> QED BY <1>1, <1>2, <1>3, <1>4, PulledIs

\* What happens beside it, and what is counted.
LEMMA Counts ==
    ASSUME NEW d \in Device, Step(d) \/ Other(d)
    PROVE  \/ spent' = spent
           \/ spent' = spent + 1
<1>1. CASE Step(d)
  BY <1>1 DEF Step, Event, Read, Pulled, TimerFires, Land, Uploaded, history
<1>2. CASE Other(d)
  BY <1>2 DEF Other, Edit, Send, Undo, Flush, PullFails, UploadFails, Restart, Reload, GetKey,
              Mishap, history
<1> QED BY <1>1, <1>2

Counted == spent \in Nat

LEMMA CountsOn == Spec => []Counted
<1>1. Init => Counted
  BY DEF Init, Counted
<1>2. Counted /\ [Next]_vars => Counted'
  <2>1. ASSUME Counted, UNCHANGED vars
        PROVE  Counted'
    BY <2>1 DEF vars, history, Counted
  <2>2. ASSUME Counted, Next
        PROVE  Counted'
    BY <2>2, Counts DEF Next, Counted
  <2> QED BY <2>1, <2>2
<1> QED BY <1>1, <1>2, PTL DEF Spec

LEMMA StepLeavesIt ==
    ASSUME IInv, Counted, [Next]_vars, NEW e \in Device, NEW f \in Field, Unread(e, f),
           local'[e][f] # local[e][f]
    PROVE  drawn' # drawn \/ spent' # spent
<1>1. CASE UNCHANGED vars
  BY <1>1 DEF vars, doc
<1>2. ASSUME NEW d \in Device, Step(d)
      PROVE  drawn' # drawn \/ spent' # spent
  <2>1. CASE Pulled(d)
    BY <2>1, PulledLeavesIt
  <2>2. ASSUME ~Pulled(d)
        PROVE  UNCHANGED doc
    BY <1>2, <2>2 DEF Step, Event, Read, TimerFires, Land, Uploaded
  <2> QED BY <2>1, <2>2 DEF doc
<1>3. ASSUME NEW d \in Device, Other(d)
      PROVE  drawn' # drawn \/ spent' # spent
  <2>1. drawn \in Nat
    BY DEF IInv, Numbers
  <2>2. ASSUME NEW g \in Field, Edit(d, g) \/ Send(d, g)
        PROVE  drawn' # drawn
    BY <2>1, <2>2 DEF Edit, Send, Draw
  <2>3. ASSUME NEW g \in Field, Undo(d, g)
        PROVE  spent' # spent
    BY <2>3 DEF Undo, Counted
  <2>4. CASE Flush(d) \/ GetKey(d)
    BY <2>4 DEF Flush, GetKey, doc
  <2>5. CASE PullFails(d) \/ UploadFails(d) \/ Restart(d) \/ Reload(d)
    <3>1. spent' = spent + 1
      BY <2>5 DEF PullFails, UploadFails, Restart, Reload, Mishap
    <3> QED BY <3>1 DEF Counted
  <2> QED BY <1>3, <2>2, <2>3, <2>4, <2>5 DEF Other, doc
<1> QED BY <1>1, <1>2, <1>3 DEF Next

\* EditStands: an edit of a setting or a draft that the server never held changes on its
\* device by another edit, an undo or a new page only. No read that is answered, merged
\* or adopted takes it away (#pull, pick, adoptDraftDocuments), however late.
THEOREM NoReadTakesAnEdit == Spec => EditStands
<1> DEFINE Stands ==
      \A d \in Device, f \in Field :
         (/\ <<d, f, local[d][f]>> \in edited /\ local[d][f] # 0
          /\ <<f, local[d][f]>> \notin landed
          /\ local'[d][f] # local[d][f])
         => drawn' # drawn \/ spent' # spent
<1>1. IInv /\ Counted /\ [Next]_vars => [Stands]_vars
  BY StepLeavesIt DEF Unread
<1>2. Spec => []IInv
  BY BaseNeverHoldsAnEdit
<1>3. Spec => []Counted
  BY CountsOn
<1> HIDE DEF Stands
<1>4. Spec => [][Stands]_vars
  BY <1>1, <1>2, <1>3, PTL DEF Spec
<1> QED BY <1>4 DEF EditStands, Stands
=============================================================================
