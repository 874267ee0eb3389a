----------------------------- MODULE MCSearchCrawl -----------------------------
(* Instances of SearchCrawl: three messages of history, then one or two more *)
(* events. A mode turns on hazards together that the code copes with; README *)
(* names the pairs it does not cope with.                                    *)
EXTENDS SearchCrawl

\* Nothing stored, no redaction, no limit to a chunk, nothing goes wrong.
Quiet == [last |-> Newest, target |-> <<>>, stored |-> {}, starts |-> {}, weight |-> 0,
          unloading |-> FALSE, faults |-> 0, crashes |-> 0, sharing |-> 0]

Redacts(t) == [r \in {Newest} |-> t]

\* One chunk, a redaction of the latest message, a failed write and a restart.
Ending == [Quiet EXCEPT !.target = Redacts(4), !.crashes = 1, !.faults = 1]
\* Two stored chunks that may be unloaded, and two restarts.
EndingCold == [Quiet EXCEPT !.stored = 2..3, !.starts = {0, 3}, !.unloading = TRUE,
                            !.crashes = 2]
\* A redacted message in an unloaded chunk.
Cold == [Quiet EXCEPT !.stored = 2..3, !.starts = {0, 3}, !.unloading = TRUE,
                      !.target = Redacts(2)]
\* A chunk that is split while its messages are redacted.
Splitting == [Quiet EXCEPT !.weight = 1, !.unloading = TRUE, !.target = Redacts(2)]
\* Writes fail.
Failing == [Quiet EXCEPT !.stored = 2..3, !.starts = {0, 3}, !.target = Redacts(2),
                         !.faults = 2]

\* Another device asks, twice, for a room whose history is indexed.
Sharing == [Quiet EXCEPT !.last = 4, !.stored = 1..3, !.starts = {0}, !.sharing = 2]

\* Another device asks during the crawl.
SharingCrawl == {[Quiet EXCEPT !.sharing = 1]}

Soundly == {Sharing, Ending, EndingCold, Cold, Splitting, Failing}
=============================================================================
