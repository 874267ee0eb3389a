------------------------------ MODULE AccountSync ------------------------------
(* Documents kept in the account data of a user and edited on several        *)
(* devices: AccountSync (src/src/lib/settings/account-sync.svelte.ts), and   *)
(* the sealing of the drafts (crates/sable-core/src/sealed_account_data.rs). *)
(*                                                                         *)
(* The server keeps one content per type and answers a read with what it     *)
(* holds; there is no compare and set. A write is announced to every device, *)
(* its writer too. Requests take their time, so that reads, writes and their *)
(* answers interleave with edits and with each other.                        *)
(*                                                                         *)
(* A device hands its edits to push at once (an effect of the layout), and   *)
(* adopting takes a new snapshot, so pending is always what the device shows *)
(* and has no variable. A device is always open; what it misses while it is  *)
(* closed, the reads of its start make up for.                               *)
EXTENDS SyncedDocuments, SequencesExt, FiniteSets

CONSTANTS
    Device,
    Modes           \* the documents and hazards to combine, one per behaviour

(* A mode: kind, "settings" or "drafts"; edits, who edits what; initial, what *)
(* the server holds; fresh, whether the devices have just been started; keys, *)
(* who may get the key; ordered, whether the requests of a device are carried *)
(* out and answered in order; prompt, whether the answer to a write comes     *)
(* before that to any read after it landed; again, whether a page is hidden    *)
(* again while a timer that was cleared still counts; and the bounds:         *)
(* draws, the last number of an edit, pulls and uploads of a device at once,  *)
(* failures, restarts, reloads and undos.                                     *)

ASSUME ModesAssumption == \A m \in Modes :
    /\ m.kind \in {"settings", "drafts"}
    /\ m.initial \in [Field -> 0 .. 1] \cup {Null}
    /\ m.fresh \/ m.initial # Null
    /\ m.draws \in 1 .. MaxValue
    /\ m.pulls \in Nat /\ m.uploads \in Nat

VARIABLES
    mode,
    server,         \* the content and whether it is sealed
    local,          \* what the document shows on each device
    drafts,         \* what the composer remembers beside the texts
    base,           \* state.base: what an edit is told from
    remote,         \* state.remote: what the server is taken to hold
    pulled,         \* state.pulled
    locked,         \* state.locked
    timer,          \* state.timer: none, set, or cleared and still defined
    pulls,          \* the reads under way, in the order they were begun
    uploads,        \* the writes under way
    news,           \* devices that a sync has something to tell
    keyed,          \* devices that hold the account data key
    drawn,          \* the last number given to an edit
    spent,          \* how many mishaps and undos happened
    landed,         \* what the server ever held
    edited          \* the edits, who made them, once the device had synced

doc == <<local, drafts>>
state == <<base, remote, pulled, locked, timer>>
requests == <<pulls, uploads, news>>
history == <<drawn, spent, landed, edited>>
vars == <<mode, server, doc, state, requests, keyed, history>>

Settings == mode.kind = "settings"
Drafts == mode.kind = "drafts"

-----------------------------------------------------------------------------
(* Requests                                                                *)

Asked == [at |-> "asked", content |-> Null, locked |-> FALSE, unsealed |-> FALSE]
Answer(content, isLocked, unsealed) ==
    [at |-> "answered", content |-> content, locked |-> isLocked, unsealed |-> unsealed]

Upload(content, sealed) ==
    [content |-> content, sealed |-> sealed, landed |-> FALSE, waited |-> TRUE]

InTurn(s, i, done(_)) == mode.ordered => \A j \in 1 .. i - 1 : done(s[j])

Started == <<Asked, Asked>>

\* Reads beyond mode.pulls at once are not begun.
Room(d) == Len(pulls[d]) < mode.pulls
PullBegun(d) == IF Room(d) THEN [pulls EXCEPT ![d] = Append(@, Asked)] ELSE pulls

Content0 == IF server.content = Null THEN Empty ELSE server.content
Held(content) == {<<f, content[f]>> : f \in Field}

-----------------------------------------------------------------------------
(* The devices have just been started, or have read what the server holds.   *)
(* start pulls, and the push of the effects that follows it pulls again,      *)
(* since nothing was pulled yet.                                             *)
Init ==
    /\ mode \in Modes
    /\ server = [content |-> mode.initial, sealed |-> FALSE]
    /\ local = [d \in Device |-> IF mode.fresh THEN Empty ELSE mode.initial]
    /\ drafts = [d \in Device |->
          IF mode.fresh \/ Settings THEN NoDrafts
          ELSE Offered(AdoptedDrafts(NoDrafts, mode.initial), mode.initial)]
    /\ base = [d \in Device |-> IF mode.fresh THEN Null ELSE mode.initial]
    /\ remote = base
    /\ pulled = [d \in Device |-> ~mode.fresh]
    /\ pulls = [d \in Device |-> IF mode.fresh THEN Started ELSE <<>>]
    /\ locked = [d \in Device |-> FALSE]
    /\ timer = [d \in Device |-> "none"]
    /\ uploads = [d \in Device |-> <<>>]
    /\ news = {}
    /\ keyed = {}
    /\ drawn = 1
    /\ spent = 0
    /\ landed = IF mode.initial = Null THEN {} ELSE Held(mode.initial)
    /\ edited = {}

-----------------------------------------------------------------------------
(* Edits                                                                   *)

\* #schedule clears the timer, which stays defined, before it sets it again.
Stopped(t) == IF t = "none" \/ ~mode.again THEN "none" ELSE "cleared"
Scheduled(d, due) == timer' = [timer EXCEPT ![d] = IF due THEN "set" ELSE Stopped(@)]

\* push and #schedule after an edit.
Push(d) ==
    /\ Scheduled(d, pulled[d] /\ ~locked[d] /\ local'[d] # remote[d])
    /\ pulls' = IF pulled[d] \/ locked[d] THEN pulls ELSE PullBegun(d)

\* Settings give way to what the account holds at the first sync.
Noted(d, f, v) ==
    edited' = IF Settings /\ base[d] = Null THEN edited ELSE edited \cup {<<d, f, v>>}

Edited(d, f, v) ==
    /\ local' = [local EXCEPT ![d][f] = v]
    /\ Push(d)
    /\ Noted(d, f, v)
    /\ UNCHANGED <<mode, server, base, remote, pulled, locked, uploads, news, keyed, landed>>

Draw ==
    /\ drawn < mode.draws
    /\ drawn' = drawn + 1

\* A preference is set, or a draft typed (writeDraft).
Edit(d, f) ==
    /\ <<d, f>> \in mode.edits
    /\ Draw
    /\ Edited(d, f, drawn + 1)
    /\ drafts' = IF Settings THEN drafts
                 ELSE [drafts EXCEPT ![d] = Offered(Written(@, f), local'[d])]
    /\ UNCHANGED spent

\* A message is sent (clearDraft).
Send(d, f) ==
    /\ Drafts
    /\ <<d, f>> \in mode.edits
    /\ local[d][f] # 0
    /\ Draw
    /\ Edited(d, f, 0)
    /\ drafts' = [drafts EXCEPT ![d] = Offered(Cleared(@, local[d], f), local'[d])]
    /\ UNCHANGED spent

\* A preference is set back to what it was before.
Undo(d, f) ==
    /\ Settings
    /\ <<d, f>> \in mode.edits
    /\ spent < mode.undos
    /\ spent' = spent + 1
    /\ \E v \in 1 .. MaxValue :
          /\ <<f, v>> \in landed
          /\ v # local[d][f]
          /\ Edited(d, f, v)
    /\ UNCHANGED <<drafts, drawn>>

-----------------------------------------------------------------------------
(* #pull                                                                   *)

\* An event of the sync: account_data_changed.
Event(d) ==
    /\ d \in news
    /\ Room(d)
    /\ news' = news \ {d}
    /\ pulls' = PullBegun(d)
    /\ UNCHANGED <<mode, server, doc, state, uploads, keyed, history>>

\* read_document
Document(d) ==
    IF server.sealed /\ d \notin keyed
    THEN Answer(Null, TRUE, FALSE)
    ELSE Answer(server.content, FALSE,
                Drafts /\ d \in keyed /\ ~server.sealed /\ server.content # Null)

Read(d) ==
    /\ \E i \in DOMAIN pulls[d] :
          /\ pulls[d][i].at = "asked"
          /\ InTurn(pulls[d], i, LAMBDA p : p.at = "answered")
          /\ pulls' = [pulls EXCEPT ![d][i] = Document(d)]
    /\ UNCHANGED <<mode, server, doc, state, uploads, news, keyed, history>>

\* #ahead
Ahead(d) == base[d] # Null /\ local[d] # base[d]

\* Whether the document adopts the content.
Adopts(d, content) == content # Null \/ (Drafts /\ local[d] = Empty)

Shown(d, content) ==
    IF Settings THEN Applied(content, local[d])
    ELSE IF content = Null THEN local[d]
    ELSE AdoptedTexts(drafts[d], local[d], content)

Remembered(d, content) ==
    IF Settings THEN drafts[d]
    ELSE Offered(IF content = Null THEN drafts[d]
                 ELSE AdoptedDrafts(drafts[d], content), local'[d])

\* What a merge adopted: settings only, the drafts document has none.
MergePulledSettled(d, content) ==                              \* mutant
    /\ local' = [local EXCEPT ![d] = Applied(Merge(base[d], @, content), @)]
    /\ base' = [base EXCEPT ![d] = content]
    /\ remote' = [remote EXCEPT ![d] = local'[d]]
    /\ UNCHANGED drafts
MergePulled(d, content) ==
    /\ local' = [local EXCEPT ![d] = Applied(Merge(base[d], @, content), @)]
    /\ base' = [base EXCEPT ![d] = content]
    /\ remote' = [remote EXCEPT ![d] = content]
    /\ UNCHANGED drafts

AdoptPulled(d, answer) ==
    /\ local' = [local EXCEPT ![d] = Shown(d, answer.content)]
    /\ drafts' = [drafts EXCEPT ![d] = Remembered(d, answer.content)]
    /\ base' = [base EXCEPT ![d] = local'[d]]
    /\ remote' = [remote EXCEPT ![d] =
          IF answer.unsealed THEN Null
          ELSE IF answer.content = Null THEN local'[d] ELSE answer.content]

FoundLockedPulled(d) ==                                        \* mutant
    /\ locked' = [locked EXCEPT ![d] = TRUE]
    /\ UNCHANGED <<doc, base, remote, pulled, timer>>
FoundLocked(d) ==
    /\ locked' = [locked EXCEPT ![d] = TRUE]
    /\ pulled' = [pulled EXCEPT ![d] = FALSE]
    /\ UNCHANGED <<doc, base, remote, timer>>

FoundOpen(d, answer) ==
    /\ locked' = [locked EXCEPT ![d] = FALSE]
    /\ pulled' = [pulled EXCEPT ![d] = TRUE]
    /\ IF Ahead(d)
       THEN IF Settings /\ answer.content # Null
            THEN MergePulled(d, answer.content)
            ELSE UNCHANGED <<doc, base, remote>>
       ELSE IF Adopts(d, answer.content)
            THEN AdoptPulled(d, answer)
            ELSE UNCHANGED <<doc, base, remote>>
    /\ Scheduled(d, local'[d] # remote'[d])

Pulled(d) ==
    /\ mode.prompt => \A i \in DOMAIN uploads[d] : ~(uploads[d][i].landed /\ uploads[d][i].waited)
    /\ \E i \in DOMAIN pulls[d] :
          /\ pulls[d][i].at = "answered"
          /\ InTurn(pulls[d], i, LAMBDA p : FALSE)
          /\ IF pulls[d][i].locked THEN FoundLocked(d) ELSE FoundOpen(d, pulls[d][i])
          /\ pulls' = [pulls EXCEPT ![d] = RemoveAt(@, i)]
    /\ UNCHANGED <<mode, server, uploads, news, keyed, history>>

-----------------------------------------------------------------------------
(* #upload                                                                 *)

\* set_sealed_account_data seals when the key is there.
SendUpload(d) ==
    /\ Len(uploads[d]) < mode.uploads
    /\ uploads' = [uploads EXCEPT ![d] = Append(@, Upload(local[d], Drafts /\ d \in keyed))]

\* The debounce of #schedule is over.
TimerFires(d) ==
    /\ timer[d] = "set"
    /\ timer' = [timer EXCEPT ![d] = "none"]
    /\ SendUpload(d)
    /\ UNCHANGED <<mode, server, doc, base, remote, pulled, locked, pulls, news, keyed, history>>

\* #flush: the page is hidden, and #schedule looks again, at once or anew: the timer
\* it clears counts the next time too.
Flush(d) ==
    /\ timer[d] # "none"
    /\ Scheduled(d, FALSE)
    /\ pulls' = IF pulled[d] \/ locked[d] THEN pulls ELSE PullBegun(d)
    /\ IF ~pulled[d] \/ local[d] = remote[d] THEN UNCHANGED uploads ELSE SendUpload(d)
    /\ UNCHANGED <<mode, server, doc, base, remote, pulled, locked, news, keyed, history>>

Land(d) ==
    \E i \in DOMAIN uploads[d] :
        LET u == uploads[d][i] IN
        /\ ~u.landed
        /\ InTurn(uploads[d], i, LAMBDA o : o.landed)
        /\ server' = [content |-> u.content, sealed |-> u.sealed]
        /\ landed' = landed \cup Held(u.content)
        /\ news' = Device
        /\ uploads' = [uploads EXCEPT ![d][i].landed = TRUE]
        /\ UNCHANGED <<mode, doc, state, pulls, keyed, drawn, spent, edited>>

\* The answer, which nobody waits for any more once the sync was started again.
Uploaded(d) ==
    \E i \in DOMAIN uploads[d] :
        LET u == uploads[d][i] IN
        /\ u.landed
        /\ InTurn(uploads[d], i, LAMBDA o : FALSE)
        /\ base' = IF u.waited THEN [base EXCEPT ![d] = u.content] ELSE base
        /\ remote' = IF u.waited THEN [remote EXCEPT ![d] = u.content] ELSE remote
        /\ uploads' = [uploads EXCEPT ![d] = RemoveAt(@, i)]
        /\ UNCHANGED <<mode, server, doc, pulled, locked, timer, pulls, news, keyed, history>>

-----------------------------------------------------------------------------
(* Mishaps                                                                 *)

Mishap(limit) ==
    /\ spent < limit
    /\ spent' = spent + 1

\* A read fails. The status tells, nothing else changes.
PullFails(d) ==
    /\ Mishap(mode.failures)
    /\ \E i \in DOMAIN pulls[d] : pulls' = [pulls EXCEPT ![d] = RemoveAt(@, i)]
    /\ UNCHANGED <<mode, server, doc, state, uploads, news, keyed, drawn, landed, edited>>

\* A write fails: it never arrives, or it arrived, or arrives later.
UploadFails(d) ==
    /\ Mishap(mode.failures)
    /\ \E i \in DOMAIN uploads[d] :
          /\ uploads[d][i].waited
          /\ \/ uploads' = [uploads EXCEPT ![d][i].waited = FALSE]
             \/ ~uploads[d][i].landed /\ uploads' = [uploads EXCEPT ![d] = RemoveAt(@, i)]
    /\ UNCHANGED <<mode, server, doc, state, pulls, news, keyed, drawn, landed, edited>>

NotWaited(s) == [i \in DOMAIN s |-> [s[i] EXCEPT !.waited = FALSE]]

\* stop and start, as when the account is looked up again; answers of requests
\* begun before are for an older generation.
Restarted(d) ==
    /\ remote' = [remote EXCEPT ![d] = Null]
    /\ pulled' = [pulled EXCEPT ![d] = FALSE]
    /\ locked' = [locked EXCEPT ![d] = FALSE]
    /\ pulls' = [pulls EXCEPT ![d] = Started]
    /\ uploads' = [uploads EXCEPT ![d] = NotWaited(@)]

Restart(d) ==
    /\ Mishap(mode.restarts)
    /\ Restarted(d)
    /\ Scheduled(d, FALSE)
    /\ UNCHANGED <<mode, server, doc, base, news, keyed, drawn, landed, edited>>

\* The page is loaded again. Settings and their base are stored, drafts are not.
Reload(d) ==
    /\ Mishap(mode.reloads)
    /\ Restarted(d)
    /\ timer' = [timer EXCEPT ![d] = "none"]
    /\ IF Settings THEN UNCHANGED <<doc, base>>
       ELSE /\ local' = [local EXCEPT ![d] = Empty]
            /\ drafts' = [drafts EXCEPT ![d] = NoDrafts]
            /\ base' = [base EXCEPT ![d] = Null]
    /\ UNCHANGED <<mode, server, news, keyed, drawn, landed, edited>>

\* The device gets the key from another one or from secret storage, and the
\* event of its type makes the sealed documents be read again.
GetKey(d) ==
    /\ d \in mode.keys \ keyed
    /\ Room(d)
    /\ keyed' = keyed \cup {d}
    /\ pulls' = PullBegun(d)
    /\ UNCHANGED <<mode, server, doc, state, uploads, news, history>>

-----------------------------------------------------------------------------
Step(d) ==
    \/ Event(d)
    \/ Read(d)
    \/ Pulled(d)
    \/ TimerFires(d)
    \/ Land(d)
    \/ Uploaded(d)

Other(d) ==
    \/ \E f \in Field : Edit(d, f) \/ Send(d, f) \/ Undo(d, f)
    \/ Flush(d)
    \/ PullFails(d)
    \/ UploadFails(d)
    \/ Restart(d)
    \/ Reload(d)
    \/ GetKey(d)

Next == \E d \in Device : Step(d) \/ Other(d)

Spec == Init /\ [][Next]_vars

\* Requests are carried out and answered, timers fire and the sync goes on.
LiveSpec == Spec /\ \A d \in Device :
    /\ WF_vars(Event(d))
    /\ WF_vars(Read(d))
    /\ WF_vars(Pulled(d))
    /\ WF_vars(TimerFires(d))
    /\ WF_vars(Land(d))
    /\ WF_vars(Uploaded(d))

-----------------------------------------------------------------------------
(* Properties                                                              *)

TypeOK ==
    /\ server \in [content : Content \cup {Null}, sealed : BOOLEAN]
    /\ local \in [Device -> Content]
    /\ base \in [Device -> Content \cup {Null}]
    /\ remote \in [Device -> Content \cup {Null}]
    /\ pulled \in [Device -> BOOLEAN]
    /\ locked \in [Device -> BOOLEAN]
    /\ timer \in [Device -> {"none", "set", "cleared"}]
    /\ \A d \in Device : /\ Len(pulls[d]) <= 2 \/ Len(pulls[d]) <= mode.pulls
                         /\ Len(uploads[d]) <= mode.uploads
    /\ \A d \in Device : \A i \in DOMAIN uploads[d] : uploads[d][i].content \in Content
    /\ news \subseteq Device /\ keyed \subseteq Device
    /\ \A d \in Device : locked[d] => ~pulled[d]

\* "merges an edit made on this device with one made on another", "never overwrites
\* a draft this device is already holding": an edit the server never held changes by
\* another edit only, whatever is read, merged, answered late, fails or starts again.
EditStands ==
    [][\A d \in Device, f \in Field :
          (/\ <<d, f, local[d][f]>> \in edited /\ local[d][f] # 0
           /\ <<f, local[d][f]>> \notin landed
           /\ local'[d][f] # local[d][f])
          => drawn' # drawn \/ spent' # spent]_vars

\* "merges an edit made on this device with one made on another", "keeps an edit made
\* after an upload when that upload echoes back": once the edits end, the devices show
\* what the server holds, and when one device did all of them, it holds the last.
Agreed == \A d \in Device : locked[d] \/ local[d] = Content0
LastEdits == {e \in edited : \A o \in edited : o[2] = e[2] => o[3] <= e[3]}
Arrived == \A e \in LastEdits : Content0[e[2]] = e[3]
Editors == {e[1] : e \in mode.edits}
Converges ==
    mode.converging => <>[](Agreed /\ (Cardinality(Editors) = 1 => Arrived))

\* "is neither adopted nor overwritten while this device lacks the key"
LockedIsNotOverwritten ==
    [][\A d \in Device : locked[d] /\ locked'[d] => Len(uploads'[d]) <= Len(uploads[d])]_vars
=============================================================================
