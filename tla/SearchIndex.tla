------------------------------ MODULE SearchIndex ------------------------------
(* The message index of one room and its copy on disk (search/index.rs,      *)
(* chunks.rs, persist.rs, core_api.rs). In memory a RoomIndex holds the      *)
(* documents, cut by time into chunks; a chunk whose documents are on disk   *)
(* may be unloaded (cold). save_rooms takes a flush of what changed and      *)
(* writes it document by document: the chunks, then the manifest that lists  *)
(* them, then what there is to merge into cold chunks, then the manifest     *)
(* again. Every write is atomic, any may fail, and the process may end       *)
(* between any two; a restart restores the index from the documents it finds.*)
(*                                                                           *)
(* An event is a number, its timestamp and its id. The events up to History  *)
(* are older than the session and come by the crawl (SearchCrawl), the later *)
(* ones by the sync, which also keeps them in the event cache of the SDK. An *)
(* event is a message or, after History, a redaction of an earlier one. A    *)
(* chunk is as heavy as it has documents. Left out: edits, events that       *)
(* cannot be decrypted, the disk budget and its floor, the schemas before    *)
(* this one, failing reads, chunks that lost their last event (it takes an   *)
(* edit or the budget), and leaving the room.                                *)
EXTENDS Naturals, FiniteSetsExt

CONSTANTS History,   \* the newest event of before the session
          Newest,      \* the newest event there will be
          Modes      \* the kinds of behaviours, see Mode
ASSUME EventAssumption == History \in Nat /\ Newest \in Nat /\ History <= Newest

Event == 1..Newest

\* last: the last event; target: what the redactions of the session redact; stored: the messages an
\* earlier session left on disk, in chunks that begin at starts, with a checkpoint
\* of the crawl behind them; weight: CHUNK_WEIGHT in documents, 0 for without
\* limit; unloading: whether memory gets short; faults: writes that fail; crashes:
\* how often the process ends; sharing: saves of the room for another device.
Mode == [last : Event, target : UNION {[R -> Event] : R \in SUBSET Event},
         stored : SUBSET Event, starts : SUBSET (0..Newest), weight : Nat,
         unloading : BOOLEAN, faults : Nat, crashes : Nat, sharing : Nat]
ASSUME ModesAssumption == Modes \subseteq Mode
\* The crawl of before went back from the newest message; the first chunk of a room
\* begins at 0.
ASSUME StoredAssumption ==
    \A m \in Modes :
        /\ m.stored \subseteq 1..History
        /\ \A e \in m.stored : e..History \subseteq m.stored
        /\ m.starts = {} <=> m.stored = {}
        /\ m.starts # {} => 0 \in m.starts

Savers == {"loop", "peer"}        \* watch_search_persist; peer_snapshot

VARIABLES
    mode,     \* the kind of this behaviour; it never changes
    phase,    \* "down", "restored" (restore_persisted_index is done), "running"
    index,    \* the RoomIndex, see NewIndex
    disk,     \* the store: manifest and chunks
    saving,   \* saving[s]: the flush a save_rooms call is writing, see Idle
    edge,     \* the newest event the sync brought, into the event cache
    updated,  \* whether the index has yet to hear of an update of the cache
    faults,   \* writes that failed so far
    crashes,  \* ends of the process so far
    shares    \* saves for other devices so far

indexVars == <<mode, phase, index, disk, saving, edge, updated, faults, crashes,
               shares>>

NoChunks == [s \in {} |-> 0]
\* An absent manifest opens as one that lists nothing.
NoManifest == [chunks |-> NoChunks, next |-> 0, redacted |-> {}, pending |-> {}]
Idle == [pc |-> "idle", todo |-> {}, hot |-> {}, cold |-> {}, targets |-> {},
         manifest |-> NoManifest, redactions |-> {}, revision |-> 0]

Redactions == DOMAIN mode.target
\* What the homeserver delivers without its content by now.
Redacted == {mode.target[r] : r \in {x \in Redactions : x <= edge}}
Messages == {e \in 1..edge : e \notin Redactions}

-----------------------------------------------------------------------------
(* RoomIndex *)

NewIndex ==
    [docs |-> {},         \* documents
     ids |-> {},          \* classified
     redacted |-> {},
     pending |-> {},      \* pending_redactions
     chunks |-> NoChunks, \* chunks: start -> id
     cold |-> {},
     dirtyChunks |-> {},
     dirty |-> FALSE,
     revision |-> 0,
     durable |-> 0,
     meta |-> {},         \* the keys of chunk_meta: chunks that were written
     next |-> 0]          \* next_chunk

Ids(chunks) == {chunks[s] : s \in DOMAIN chunks}

\* range_of, as a set of timestamps.
RangeOf(chunks, c) ==
    LET start == CHOOSE s \in DOMAIN chunks : chunks[s] = c
        later == {s \in DOMAIN chunks : s > start}
    IN {t \in 0..Newest : t >= start /\ \A s \in later : t < s}

ChunkAt(ix, t) == ix.chunks[Max({s \in DOMAIN ix.chunks : s <= t})]

\* chunk_for: the first document of a room opens the chunk that begins at 0.
WithChunk(ix) ==
    IF DOMAIN ix.chunks = {}
    THEN [ix EXCEPT !.chunks = [s \in {0} |-> ix.next], !.next = @ + 1]
    ELSE ix

MarkDirty(ix, t) ==
    LET x == WithChunk(ix)
    IN [x EXCEPT !.dirty = TRUE, !.dirtyChunks = @ \cup {ChunkAt(x, t)}]

Touch(ix, t) == [MarkDirty(ix, t) EXCEPT !.revision = @ + 1]

MarkClassified(ix, e) ==
    IF e \in ix.ids THEN ix ELSE MarkDirty([ix EXCEPT !.ids = @ \cup {e}], e)

Upsert(ix, e) ==
    IF e \in ix.redacted \cup ix.docs THEN ix
    ELSE Touch([ix EXCEPT !.docs = @ \cup {e}], e)

Retire(ix, e) ==
    IF e \in ix.docs THEN Touch([ix EXCEPT !.docs = @ \ {e}], e) ELSE ix

IsHot(ix, e) == e \in ix.docs /\ ChunkAt(ix, e) \notin ix.cold

ForgetInMemory(ix, e) == Retire(ix, e)                   \* mutant
ForgetMessage(ix, e) ==
    LET x == Retire(ix, e)
    IN IF ~IsHot(ix, e) /\ ix.cold # {}
       THEN [x EXCEPT !.pending = @ \cup {e}, !.dirty = TRUE]
       ELSE x

ApplyRedacted(ix, e) ==
    IF e \in ix.redacted THEN ix
    ELSE ForgetMessage([ix EXCEPT !.redacted = @ \cup {e}, !.dirty = TRUE,
                                  !.revision = @ + 1], e)

\* ingest_with for one event: delivered as redacted, known, a redaction, a message.
IngestEvent(ix, e, redacted) ==
    IF e \in redacted THEN ApplyRedacted(ix, e)
    ELSE IF e \in ix.ids THEN ix
    ELSE LET x == MarkClassified(ix, e)
         IN IF e \in Redactions THEN ApplyRedacted(x, mode.target[e]) ELSE Upsert(x, e)

\* The oldest first.
Ingest(ix, events, redacted) ==
    LET upto[e \in 0..Newest] ==
            IF e = 0 THEN ix
            ELSE IF e \in events THEN IngestEvent(upto[e - 1], e, redacted)
            ELSE upto[e - 1]
    IN upto[Newest]

DropRange(ix, gone) ==
    LET range == UNION {RangeOf(ix.chunks, c) : c \in gone}
    IN [ix EXCEPT !.docs = @ \ range, !.ids = @ \ range]

UnloadableDirty(ix) == (Ids(ix.chunks) \cap ix.meta) \ ix.cold   \* mutant
Unloadable(ix) == (Ids(ix.chunks) \cap ix.meta) \ (ix.cold \cup ix.dirtyChunks)

Prefix(chunks, some, of) ==
    \A s, t \in DOMAIN chunks :
        s < t /\ chunks[s] \in of /\ chunks[t] \in some => chunks[s] \in some

\* unload_to_budget unloads chunks that are on disk, the oldest first, until memory
\* suffices: the indices it may make of ix.
UnloadToBudget(ix) ==
    {[DropRange(ix, some) EXCEPT !.cold = @ \cup some] :
        some \in {u \in SUBSET Unloadable(ix) :
                      /\ Prefix(ix.chunks, u, Unloadable(ix))
                      /\ ~mode.unloading => u = {}}}

-----------------------------------------------------------------------------
(* take_flush *)

\* split_chunk: where the pieces of the chunk that begins at start begin.
PieceStarts(ix, start) ==
    LET docs == ix.docs \cap RangeOf(ix.chunks, ix.chunks[start])
        below(d) == Cardinality({x \in docs : x < d})
    IN IF mode.weight = 0 \/ Cardinality(docs) <= 2 * mode.weight THEN {start}
       ELSE {start} \cup {d \in docs : below(d) > 0 /\ below(d) % mode.weight = 0}

Content(ix, chunks, s) ==
    LET range == RangeOf(chunks, chunks[s])
    IN [start |-> s, id |-> chunks[s], docs |-> ix.docs \cap range, ids |-> ix.ids \cap range]

\* RoomIndex::take_flush: the index it leaves, and the flush.
TakeFlush(ix) ==
    LET dirty == {s \in DOMAIN ix.chunks : ix.chunks[s] \in ix.dirtyChunks}
        coldDirty == {s \in dirty : ix.chunks[s] \in ix.cold}
        written == UNION {PieceStarts(ix, s) : s \in dirty \ coldDirty}
        new == written \ DOMAIN ix.chunks
        chunks == [s \in DOMAIN ix.chunks \cup new |->
                       IF s \in new THEN ix.next + Cardinality({n \in new : n < s})
                       ELSE ix.chunks[s]]
        next == ix.next + Cardinality(new)
    IN [index |-> [ix EXCEPT !.chunks = chunks, !.next = next,
                             !.dirty = FALSE, !.dirtyChunks = {}],
        flush |-> [pc |-> "chunks",
                   todo |-> {Content(ix, chunks, s) : s \in written},
                   hot |-> {chunks[s] : s \in written},
                   cold |-> {Content(ix, chunks, s) : s \in coldDirty},
                   targets |-> {ix.chunks[s] : s \in coldDirty}
                               \cup (IF ix.pending = {} THEN {} ELSE ix.cold),
                   manifest |-> [chunks |-> chunks, next |-> next,
                                 redacted |-> ix.redacted, pending |-> ix.pending],
                   redactions |-> ix.pending,
                   revision |-> ix.revision]]

Patched(flush) == {p.id : p \in flush.cold}

\* MessageIndex::flushed, without the documents that save_room found missing.
Flushed(ix, flush) ==
    LET x == [ix EXCEPT !.durable = Max({@, flush.revision}),
                        !.meta = @ \cup flush.hot \cup Patched(flush),
                        !.pending = @ \ flush.redactions]
    IN DropRange(x, (Patched(flush) \cap Ids(x.chunks)) \ x.dirtyChunks)

FlushFailedUntouched(ix, flush) ==                       \* mutant
    [ix EXCEPT !.dirtyChunks = @ \cup flush.hot \cup Patched(flush)]
\* MessageIndex::flush_failed
FlushFailed(ix, flush) ==
    [ix EXCEPT !.dirty = TRUE, !.dirtyChunks = @ \cup flush.hot \cup Patched(flush)]

-----------------------------------------------------------------------------
(* save_rooms for this room, by saver s *)

TakeSave(s) ==
    /\ phase = "running"
    /\ saving[s] = Idle
    /\ s = "loop" => index.dirty
    /\ s = "peer" => shares < mode.sharing
    /\ LET taken == TakeFlush(index)
       IN /\ index' = taken.index
          /\ saving' = [saving EXCEPT ![s] = taken.flush]
    /\ shares' = IF s = "peer" THEN shares + 1 ELSE shares
    /\ UNCHANGED <<mode, phase, disk, edge, updated, faults, crashes>>

Put(chunks, c) ==
    [id \in DOMAIN chunks \cup {c.id} |->
        IF id = c.id THEN [docs |-> c.docs, ids |-> c.ids] ELSE chunks[id]]

\* The oldest first.
WriteChunk(s) ==
    /\ saving[s].pc = "chunks"
    /\ \E c \in saving[s].todo :
          /\ \A d \in saving[s].todo : c.start <= d.start
          /\ disk' = [disk EXCEPT !.chunks = Put(@, c)]
          /\ saving' = [saving EXCEPT ![s].todo = @ \ {c}]
    /\ UNCHANGED <<mode, phase, index, edge, updated, faults, crashes, shares>>

\* With nothing to merge and no redaction to clear the save is over.
WriteManifest(s) ==
    /\ saving[s].pc = "chunks" /\ saving[s].todo = {}
    /\ disk' = [disk EXCEPT !.manifest = saving[s].manifest]
    /\ saving' = [saving EXCEPT ![s].pc =
                     IF saving[s].targets # {} THEN "merge"
                     ELSE IF saving[s].redactions # {} THEN "manifest" ELSE "saved"]
    /\ UNCHANGED <<mode, phase, index, edge, updated, faults, crashes, shares>>

MergedOver(old, flush, c) ==                             \* mutant
    [id |-> c, docs |-> UNION {p.docs : p \in {q \in flush.cold : q.id = c}},
     ids |-> old.ids]
\* merge_cold: the overlay goes in, what is redacted goes out.
Merged(old, flush, c) ==
    LET patch == {p \in flush.cold : p.id = c}
    IN [id |-> c,
        docs |-> (old.docs \cup UNION {p.docs : p \in patch})
                     \ (flush.manifest.redacted \cup flush.redactions),
        ids |-> old.ids \cup UNION {p.ids : p \in patch}]

MergeChunk(s) ==
    /\ saving[s].pc = "merge"
    /\ \E c \in saving[s].targets :
          /\ disk' = [disk EXCEPT !.chunks = Put(@, Merged(@[c], saving[s], c))]
          /\ saving' = [saving EXCEPT ![s].targets = @ \ {c},
                                     ![s].pc = IF saving[s].targets = {c} THEN "manifest" ELSE @]
    /\ UNCHANGED <<mode, phase, index, edge, updated, faults, crashes, shares>>

WriteManifestAgain(s) ==
    /\ saving[s].pc = "manifest"
    /\ disk' = [disk EXCEPT !.manifest = [saving[s].manifest EXCEPT !.pending = {}]]
    /\ saving' = [saving EXCEPT ![s].pc = "saved"]
    /\ UNCHANGED <<mode, phase, index, edge, updated, faults, crashes, shares>>

FinishSave(s) ==
    /\ saving[s].pc = "saved"
    /\ index' \in UnloadToBudget(Flushed(index, saving[s]))
    /\ saving' = [saving EXCEPT ![s] = Idle]
    /\ UNCHANGED <<mode, phase, disk, edge, updated, faults, crashes, shares>>

\* A write fails: the flush is given back.
FailSave(s) ==
    /\ saving[s].pc \in {"chunks", "merge", "manifest"}
    /\ faults < mode.faults
    /\ faults' = faults + 1
    /\ index' \in UnloadToBudget(FlushFailed(index, saving[s]))
    /\ saving' = [saving EXCEPT ![s] = Idle]
    /\ UNCHANGED <<mode, phase, disk, edge, updated, crashes, shares>>

SaveStep(s) ==
    \/ TakeSave(s) \/ WriteChunk(s) \/ WriteManifest(s) \/ MergeChunk(s)
    \/ WriteManifestAgain(s) \/ FinishSave(s)

-----------------------------------------------------------------------------
(* The sync, the end of the process and the restart *)

Live == (History + 1)..edge

\* The sync stores an event in the event cache and tells of the update.
Sync ==
    /\ phase # "down"
    /\ edge < mode.last
    /\ edge' = edge + 1
    /\ updated' = TRUE
    /\ UNCHANGED <<mode, phase, index, disk, saving, faults, crashes, shares>>

\* index_room_search after an update: every event of the cache the index lacks.
IndexRoom ==
    /\ phase = "running"
    /\ updated
    /\ updated' = FALSE
    /\ index' \in UnloadToBudget(Ingest(index, Live, Redacted))
    /\ UNCHANGED <<mode, phase, disk, saving, edge, faults, crashes, shares>>

Crash ==
    /\ phase # "down"
    /\ crashes < mode.crashes
    /\ crashes' = crashes + 1
    /\ phase' = "down"
    /\ index' = NewIndex
    /\ saving' = [s \in Savers |-> Idle]
    /\ updated' = FALSE
    /\ UNCHANGED <<mode, disk, edge, faults, shares>>

\* RoomIndex::restored_with the given chunks loaded: documents that lie in another
\* chunk than their own, or are redacted, have their chunks written again.
Restored(manifest, loaded) ==
    LET stored == [c \in loaded |-> disk.chunks[c]]
        x == [NewIndex EXCEPT
                 !.docs = (UNION {stored[c].docs : c \in loaded}) \ manifest.redacted,
                 !.ids = UNION {stored[c].ids : c \in loaded},
                 !.redacted = manifest.redacted, !.pending = manifest.pending,
                 !.chunks = manifest.chunks, !.next = manifest.next,
                 !.meta = Ids(manifest.chunks), !.cold = Ids(manifest.chunks) \ loaded]
        redacted == {c \in loaded : stored[c].docs \cap manifest.redacted # {}}
        homes(c) == {ChunkAt(x, t) : t \in stored[c].docs \cup stored[c].ids}
        strays == {c \in loaded : ~(homes(c) \subseteq {c})}
        misplaced == redacted \cup strays \cup UNION {homes(c) : c \in strays}
    IN [x EXCEPT !.dirtyChunks = misplaced,
                 !.dirty = misplaced # {} \/ manifest.pending # {}]

\* restore_persisted_index loads the newest chunks, as many as memory allows.
Restore ==
    /\ phase = "down"
    /\ phase' = "restored"
    /\ \E loaded \in SUBSET Ids(disk.manifest.chunks) :
          /\ Prefix(disk.manifest.chunks, Ids(disk.manifest.chunks) \ loaded,
                    Ids(disk.manifest.chunks))
          /\ mode.unloading \/ loaded = Ids(disk.manifest.chunks)
          /\ index' \in UnloadToBudget(Restored(disk.manifest, loaded))
    /\ UNCHANGED <<mode, disk, saving, edge, updated, faults, crashes, shares>>

\* latest_indexed, asked of the latest message of the room.
LatestIndexed == Messages # {} /\ Max(Messages) \in index.ids \ Redacted

\* prime_persisted_rooms: unless the latest event is indexed, what the cache has.
Prime ==
    /\ phase = "restored"
    /\ phase' = "running"
    /\ IF LatestIndexed THEN UNCHANGED index
       ELSE index' \in UnloadToBudget(Ingest(index, Live, Redacted))
    /\ UNCHANGED <<mode, disk, saving, edge, updated, faults, crashes, shares>>

InitialDisk(m) ==
    LET id(s) == Cardinality({t \in m.starts : t < s})
        chunks == [s \in m.starts |-> id(s)]
        part(c) == m.stored \cap RangeOf(chunks, c)
    IN [manifest |-> [NoManifest EXCEPT !.chunks = chunks, !.next = Cardinality(m.starts)],
        chunks |-> [c \in Ids(chunks) |-> [docs |-> part(c), ids |-> part(c)]]]

IndexInit ==
    /\ mode \in Modes
    /\ phase = "down"
    /\ index = NewIndex
    /\ disk = InitialDisk(mode)
    /\ saving = [s \in Savers |-> Idle]
    /\ edge = History
    /\ updated = FALSE
    /\ faults = 0
    /\ crashes = 0
    /\ shares = 0

-----------------------------------------------------------------------------
(* What the index has *)

DocsIn(chunks) == UNION {disk.chunks[c].docs : c \in chunks \cap DOMAIN disk.chunks}

\* What a search finds: documents in memory, and those of the cold chunks.
Found == index.docs \cup
             (DocsIn(index.cold) \ index.redacted)

\* What a save under way has yet to write, and of that the messages of chunks that
\* were unloaded meanwhile: no search finds those until they are written.
InFlight == UNION {UNION {c.docs : c \in saving[s].todo} : s \in Savers}
Unread == UNION {UNION {c.docs : c \in {d \in saving[s].todo : d.id \in index.cold}} :
                    s \in Savers}

\* What a restart finds.
Kept == DocsIn(Ids(disk.manifest.chunks)) \ disk.manifest.redacted

\* A chunk that is split is overwritten with its first piece before the other pieces
\* are written and listed: until then a restart may miss their messages.
PiecesOf(s) ==
    LET listed == Ids(disk.manifest.chunks)
    IN DocsIn(saving[s].hot \ listed)
           \cup UNION {c.docs : c \in {d \in saving[s].todo : d.id \notin listed}}
Pieces ==
    UNION {PiecesOf(s) : s \in {x \in Savers : /\ saving[x].pc = "chunks"
                                               /\ disk.manifest.chunks # NoChunks}}

\* What the process has hold of, in memory, on disk, or in the save under way.
Held == IF phase = "down" THEN Kept ELSE Found \cup (InFlight \ index.redacted)

\* What a restart finds, once a split under way is written.
Promised == Kept \cup (Pieces \ disk.manifest.redacted)

Gone == IF phase = "down" THEN disk.manifest.redacted ELSE index.redacted

\* The index implements its promise.
Promise == INSTANCE SearchKept WITH held <- Held, kept <- Promised, gone <- Gone
=============================================================================
