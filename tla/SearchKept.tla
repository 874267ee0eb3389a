------------------------------- MODULE SearchKept -------------------------------
(* What the persisted search index of a room promises                        *)
(* (src/crates/sable-core/src/search): a message that was indexed is held    *)
(* until it is redacted or the process ends, one that was written stays      *)
(* written until it is redacted, and a restart finds what was written.       *)
(* Held is not found: what a save has in its hands no search reads.          *)
(* SearchCrawl is shown to implement this.                                   *)

CONSTANT Event

VARIABLES
    held,   \* the messages the process has hold of: in memory, on disk, in a save
    kept,   \* the messages a restart would find once a split under way is written
    gone    \* the redactions the process knows of

vars == <<held, kept, gone>>

Init ==
    /\ kept \in SUBSET Event
    /\ held = kept
    /\ gone = {}

\* Messages and redactions come in: from the sync, the crawl or the event cache.
Learn ==
    \E more \in SUBSET Event, redacted \in SUBSET Event :
        /\ gone' = gone \cup redacted
        /\ held' = (held \cup more) \ gone'
        /\ UNCHANGED kept

\* A document of the store is written. It may be from before a redaction that
\* came in since; it never costs a message that is not redacted.
Write ==
    /\ kept' \in SUBSET (kept \cup held \cup gone)
    /\ kept \ kept' \subseteq gone
    /\ UNCHANGED <<held, gone>>

\* The process ends. Redactions that were not written have to be learned again.
Stop ==
    /\ held' = kept
    /\ gone' \in SUBSET gone
    /\ kept \cap gone' = {}
    /\ UNCHANGED kept

Next == Learn \/ Write \/ Stop

Spec == Init /\ [][Next]_vars

\* What a restart finds is nothing but what was held, or was redacted since it
\* was written: restore_persisted_index invents nothing.
KeptIsKnown == kept \subseteq held \cup gone
=============================================================================
