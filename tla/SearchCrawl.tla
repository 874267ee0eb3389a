------------------------------ MODULE SearchCrawl ------------------------------
(* The crawl of a room's history and its checkpoint (search/crawl.rs), over  *)
(* the index and its store (SearchIndex). The crawl asks the homeserver for  *)
(* pages of older and older messages and indexes them; the checkpoint, with  *)
(* the token of the next page, is a document of its own and may be written   *)
(* only when the pages it passes are. Another device of the account that     *)
(* asks for the room's index has the room and the checkpoint saved as well   *)
(* (peer_snapshot), concurrently with the crawl.                             *)
(*                                                                           *)
(* A token is the oldest event crawled so far. Left out: events that cannot  *)
(* be decrypted, covers of other devices, the floor, pacing and push-back.   *)
EXTENDS SearchIndex

VARIABLES
    crawl,    \* CrawlProgress for the room, see NewCrawl
    cp,       \* cp[t]: the save_changed_checkpoints call of task t
    stored    \* the checkpoint in the store

vars == <<indexVars, crawl, cp, stored>>

Tasks == {"crawl", "peer"}
NoToken == History + 1       \* no checkpoint, or one without a token
Exhausted == 0               \* reached_start

NewCrawl(checkpoint) ==
    [token |-> checkpoint,   \* tokens and exhausted
     awaiting |-> {},        \* the revision the index has to be durable at
     changed |-> FALSE,
     saved |-> checkpoint,
     page |-> [events |-> {}, redacted |-> {}, revision |-> 0],
     pc |-> "loop"]          \* where the task of the crawl is

NoCheckpoint == [pc |-> "idle"]

\* The messages of the history that a checkpoint says need no crawl.
Passed(token) == {e \in 1..History : e >= token}

-----------------------------------------------------------------------------
(* save_changed_checkpoints *)

\* Which rooms are unflushed is decided before the checkpoints are taken: awaiting
\* and the index have a lock each. (One step: in between durable only rises.)
ReadDurable(t) ==
    /\ cp[t].pc = "due"
    /\ cp' = [cp EXCEPT ![t] = [pc |-> "build",
                 unflushed |-> \E revision \in crawl.awaiting : revision > index.durable]]
    /\ UNCHANGED <<indexVars, crawl, stored>>

\* changed_checkpoints. An unflushed room keeps the checkpoint it has.
BuildCheckpoint(t) ==
    /\ cp[t].pc = "build"
    /\ LET checkpoint == IF cp[t].unflushed THEN crawl.saved ELSE crawl.token
       IN IF ~crawl.changed
          THEN cp' = [cp EXCEPT ![t] = NoCheckpoint] /\ UNCHANGED crawl
          ELSE /\ crawl' = [crawl EXCEPT !.changed = cp[t].unflushed,
                               !.awaiting = IF cp[t].unflushed THEN @ ELSE {}]
               /\ cp' = [cp EXCEPT ![t] =
                            IF checkpoint = crawl.saved THEN NoCheckpoint
                            ELSE [pc |-> "write", checkpoint |-> checkpoint]]
    /\ UNCHANGED <<indexVars, stored>>

WriteCheckpoint(t) ==
    /\ cp[t].pc = "write"
    /\ stored' = cp[t].checkpoint
    /\ crawl' = [crawl EXCEPT !.saved = cp[t].checkpoint]
    /\ cp' = [cp EXCEPT ![t] = NoCheckpoint]
    /\ UNCHANGED indexVars

FailCheckpoint(t) ==
    /\ cp[t].pc = "write"
    /\ faults < mode.faults
    /\ faults' = faults + 1
    /\ crawl' = [crawl EXCEPT !.changed = TRUE]
    /\ cp' = [cp EXCEPT ![t] = NoCheckpoint]
    /\ UNCHANGED <<mode, phase, index, disk, saving, edge, updated, crashes, shares,
                   stored>>

CheckpointStep(t) == ReadDurable(t) \/ BuildCheckpoint(t) \/ WriteCheckpoint(t)

-----------------------------------------------------------------------------
(* crawl and crawl_once *)

\* Each turn of the loop saves the checkpoint first. (With nothing changed,
\* changed_checkpoints returns early.)
Turn ==
    /\ phase = "running"
    /\ crawl.pc = "loop" /\ crawl.changed /\ cp["crawl"].pc = "idle"
    /\ crawl' = [crawl EXCEPT !.pc = "save"]
    /\ cp' = [cp EXCEPT !["crawl"] = [pc |-> "due"]]
    /\ UNCHANGED <<indexVars, stored>>

\* The homeserver answers with any stretch of messages before the token. With the
\* room at its start the loop sleeps and begins anew.
Fetch ==
    /\ phase = "running"
    /\ \/ crawl.pc = "loop" /\ ~crawl.changed
       \/ crawl.pc = "save" /\ cp["crawl"].pc = "idle"
    /\ crawl.token # Exhausted
    /\ \E end \in 1..(crawl.token - 1) :
          crawl' = [crawl EXCEPT !.pc = "page",
                       !.page = [events |-> end..(crawl.token - 1), redacted |-> Redacted,
                                 revision |-> 0]]
    /\ UNCHANGED <<indexVars, cp, stored>>

Rest ==
    /\ crawl.pc = "save" /\ cp["crawl"].pc = "idle" /\ crawl.token = Exhausted
    /\ crawl' = [crawl EXCEPT !.pc = "loop"]
    /\ UNCHANGED <<indexVars, cp, stored>>

\* The page that reaches the start of the room comes without a token.
Advance ==
    /\ crawl.pc = "page"
    /\ crawl' = [crawl EXCEPT !.pc = "ingest", !.changed = TRUE,
                    !.token = IF Min(crawl.page.events) = 1 THEN NoToken
                              ELSE Min(crawl.page.events)]
    /\ UNCHANGED <<indexVars, cp, stored>>

IngestPage ==
    /\ crawl.pc = "ingest"
    /\ index' \in UnloadToBudget(Ingest(index, crawl.page.events, crawl.page.redacted))
    /\ crawl' = [crawl EXCEPT !.pc = "await", !.page.revision = index'.revision]
    /\ UNCHANGED <<mode, phase, disk, saving, edge, updated, faults, crashes, shares,
                   cp, stored>>

AwaitingNothing(page) == {}                              \* mutant
\* awaiting.insert
Awaiting(page) == {page.revision}

\* The room waits for the page to be durable, and settles if it was the last.
Await ==
    /\ crawl.pc = "await"
    /\ crawl' = [NewCrawl(crawl.saved) EXCEPT
                    !.token = IF 1 \in crawl.page.events THEN Exhausted ELSE crawl.token,
                    !.changed = crawl.changed \/ 1 \in crawl.page.events,
                    !.awaiting = Awaiting(crawl.page)]
    /\ UNCHANGED <<indexVars, cp, stored>>

CrawlStep == Turn \/ Fetch \/ Rest \/ Advance \/ IngestPage \/ Await

-----------------------------------------------------------------------------
(* The rest of the program *)

\* peer_snapshot: the room is saved, then the checkpoint, whatever became of it.
Save(step, s) ==
    /\ step
    /\ s = "peer" /\ saving[s] = Idle => cp["peer"].pc = "idle"
    /\ cp' = IF s = "peer" /\ saving'[s] = Idle
             THEN [cp EXCEPT !["peer"] = [pc |-> "due"]] ELSE cp
    /\ UNCHANGED <<crawl, stored>>

\* The tasks of the session end with the process. load_crawl follows the restore.
End ==
    /\ Crash
    /\ cp' = [t \in Tasks |-> NoCheckpoint]
    /\ crawl' = NewCrawl(stored)
    /\ UNCHANGED stored

Other(step) == step /\ UNCHANGED <<crawl, cp, stored>>

Init ==
    /\ IndexInit
    /\ stored = (LET old == mode.stored \cap 1..History IN
                 IF old = {} THEN NoToken
                 ELSE IF 1 \in old THEN Exhausted ELSE Min(old))
    /\ crawl = NewCrawl(stored)
    /\ cp = [t \in Tasks |-> NoCheckpoint]

Next ==
    \/ \E s \in Savers : Save(SaveStep(s), s) \/ Save(FailSave(s), s)
    \/ \E t \in Tasks : CheckpointStep(t) \/ FailCheckpoint(t)
    \/ CrawlStep
    \/ Other(Sync) \/ Other(IndexRoom) \/ Other(Restore) \/ Other(Prime)
    \/ End

\* Whether the task of the index, the saves and the crawl have something to do.
IndexCanGoOn == phase # "running" \/ updated
SaveCanGoOn ==
    \/ \E s \in Savers : saving[s] # Idle
    \/ phase = "running" /\ index.dirty
CrawlCanGoOn ==
    \/ crawl.pc # "loop" \/ \E t \in Tasks : cp[t] # NoCheckpoint
    \/ phase = "running" /\ (crawl.changed \/ crawl.token # Exhausted)

\* What the tasks of the session have begun goes on, and the program is started
\* again. These are the weak fairness of the steps of the index, of the saves and of
\* the crawl, with ENABLED written out (it is costly to evaluate): such a step
\* changes what the subscript names, as do only finitely many syncs, failures and
\* crashes. Nothing says that messages come, that writes fail or that another
\* device asks.
Fairness ==
    /\ ([]<>(~IndexCanGoOn)) \/ ([]<><<TRUE>>_(<<phase, updated>>))
    /\ ([]<>(~SaveCanGoOn)) \/ ([]<><<TRUE>>_saving)
    /\ ([]<>(~CrawlCanGoOn)) \/ ([]<><<TRUE>>_(<<crawl.pc, cp>>))

Spec == Init /\ [][Next]_vars /\ Fairness

-----------------------------------------------------------------------------
(* Properties *)

\* Sets of a record type would be as large as the store: what has a shape is spelt out.
TypeOK ==
    /\ mode \in Modes
    /\ phase \in {"down", "restored", "running"}
    /\ DOMAIN index = DOMAIN NewIndex
    /\ index.docs \cup index.ids \cup index.redacted \cup index.pending \subseteq Event
    /\ DOMAIN index.chunks \subseteq 0..Newest
    /\ index.cold \cup index.dirtyChunks \cup index.meta \subseteq Ids(index.chunks)
    /\ \A c \in Ids(index.chunks) : c < index.next
    /\ index.durable <= index.revision
    /\ DOMAIN saving = Savers
    /\ edge \in History..Newest
    /\ updated \in BOOLEAN
    /\ crawl.token \in 0..NoToken /\ crawl.saved \in 0..NoToken /\ stored \in 0..NoToken
    /\ Cardinality(crawl.awaiting) <= 1

Unredacted(events) == events \ (Redacted \cup Redactions)

\* The checkpoint in the store is never ahead of the documents: a message the crawl
\* will not ask for again is one that a restart finds, or that was redacted, or its
\* chunk is just being split (save_changed_checkpoints, save_rooms; crawl.rs 1733
\* names it).
CheckpointKeepsUp == Unredacted(Passed(stored)) \subseteq Kept \cup Pieces

\* A message the crawl has passed is found by a search until it is redacted, from
\* memory or from its unloaded chunk, whatever is unloaded or saved meanwhile. The
\* only ones a search misses are in the hands of a save: their chunk was unloaded
\* while the save has yet to write it (unloadable, take_flush).
PassedIsFound ==
    phase # "down" /\ crawl.pc \in {"loop", "save"} =>
        Unredacted(Passed(crawl.token)) \subseteq Found \cup Unread

\* Every message of the room is in the store in the end, and so is a checkpoint that
\* says so: no crash, failed write or unloading makes the crawl stop short.
EverythingKept == <>[](Unredacted(1..edge) \subseteq Kept /\ stored = Exhausted)

\* A redacted message is neither found nor left in any document of the store,
\* however the save, the unloading of its chunk and its crawl are interleaved.
RedactedPurged ==
    <>[](/\ Found \cap Redacted = {}
         /\ \A c \in DOMAIN disk.chunks : disk.chunks[c].docs \cap Redacted = {})

\* The index implements its promise, see SearchKept.
KeepsItsPromise == Promise!Spec
=============================================================================
