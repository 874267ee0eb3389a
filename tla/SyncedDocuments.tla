--------------------------- MODULE SyncedDocuments ---------------------------
(* What the documents of the account make of the content they read: the      *)
(* settings (src/src/lib/settings/sync.ts) and the drafts of the composer    *)
(* (src/src/lib/composer/composer-drafts.svelte.ts).                          *)
(*                                                                         *)
(* A content gives every field (a preference, a room) a number: what was set *)
(* or typed there, no two edits the same, 0 for what is not in the document. *)
EXTENDS Naturals

CONSTANTS Field, MaxValue, Null

Value == 0 .. MaxValue
Content == [Field -> Value]
Empty == [f \in Field |-> 0]

ASSUME DocumentAssumption == MaxValue \in Nat /\ Null \notin Content

-----------------------------------------------------------------------------
(* Settings                                                                *)

PickTheirs(base, mine, theirs) == theirs                       \* mutant

\* sync.ts pick: this device's value where it changed, the other's elsewhere.
Pick(base, mine, theirs) == IF mine = base THEN theirs ELSE mine

\* mergeSettings
Merge(base, mine, theirs) ==
    [f \in Field |-> Pick(base[f], mine[f], theirs[f])]

\* applySettings: what the content does not hold stays as it is.
Applied(content, mine) ==
    [f \in Field |-> IF content[f] = 0 THEN mine[f] ELSE content[f]]

-----------------------------------------------------------------------------
(* Drafts: beside the texts, what was last read of each room (synced), what  *)
(* was ever handed out for upload (offered), and what must not come back     *)
(* because it was sent (discarded).                                          *)

NoDrafts == [synced |-> Empty, offered |-> [f \in Field |-> {}],
             discarded |-> [f \in Field |-> {}]]

\* draftDocuments notes what it hands out.
Offered(drafts, texts) ==
    [drafts EXCEPT !.offered =
        [f \in Field |-> drafts.offered[f] \cup ({texts[f]} \ {0})]]

\* writeDraft and clearDraft
Written(drafts, f) == [drafts EXCEPT !.discarded[f] = {}]

Cleared(drafts, texts, f) ==
    [drafts EXCEPT !.discarded[f] =
        (drafts.offered[f] \cup {drafts.synced[f], texts[f]}) \ {0}]

\* adoptDraftDocuments: a room that is and was not in the document is left alone.
Concerned(drafts, content, f) == content[f] # 0 \/ drafts.synced[f] # 0

StillDiscarded(drafts, content, f) ==
    IF content[f] \in drafts.discarded[f] THEN drafts.discarded[f] ELSE {}

Untouched(drafts, texts, f) == texts[f] \in {0, drafts.synced[f]}

AdoptedTexts(drafts, texts, content) ==
    [f \in Field |->
        IF /\ Concerned(drafts, content, f)
           /\ Untouched(drafts, texts, f)
           /\ StillDiscarded(drafts, content, f) = {}
        THEN content[f]
        ELSE texts[f]]

AdoptedDrafts(drafts, content) ==
    [drafts EXCEPT
        !.synced = content,
        !.discarded =
            [f \in Field |-> IF Concerned(drafts, content, f)
                             THEN StillDiscarded(drafts, content, f)
                             ELSE drafts.discarded[f]]]
=============================================================================
