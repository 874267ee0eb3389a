----------------------------- MODULE MCAccountSync -----------------------------
(* Instances of AccountSync for TLC.                                       *)
EXTENDS AccountSync, TLC

CONSTANTS a, b, x, y

Quiet == [ordered |-> TRUE, prompt |-> TRUE, again |-> FALSE, fresh |-> FALSE, converging |-> FALSE,
          draws |-> 3, pulls |-> 2, uploads |-> 1,
          failures |-> 0, restarts |-> 0, reloads |-> 0, undos |-> 0, keys |-> {}]
Late == [Quiet EXCEPT !.ordered = FALSE, !.prompt = FALSE, !.again = TRUE, !.pulls = 1]

Settled == [Quiet EXCEPT !.converging = TRUE]

One == [f \in Field |-> 1]
SettingsOf(edits) == [kind |-> "settings", edits |-> edits, initial |-> One]
DraftsOf(edits, initial) == [kind |-> "drafts", edits |-> edits, initial |-> initial]

\* Two devices, of different settings and of the same, and one.
Converging == {
    [Settled EXCEPT !.again = TRUE] @@ SettingsOf({<<a, x>>, <<b, y>>}),
    [Settled EXCEPT !.again = TRUE] @@ SettingsOf({<<a, x>>, <<b, x>>}),
    [Settled EXCEPT !.uploads = 2] @@ SettingsOf({<<a, x>>, <<a, y>>})}

\* Answers in any order, writes that fail or land late, settings set back, starts,
\* and an account that has no settings yet.
Untidy == {
    [Late EXCEPT !.failures = 1, !.uploads = 2] @@ SettingsOf({<<a, x>>}),
    [Late EXCEPT !.undos = 1] @@ SettingsOf({<<a, x>>}),
    [Late EXCEPT !.restarts = 1] @@ SettingsOf({<<a, x>>}),
    [Late EXCEPT !.fresh = TRUE, !.pulls = 2] @@ SettingsOf({<<a, x>>}),
    [Quiet EXCEPT !.fresh = TRUE, !.pulls = 1, !.draws = 2] @@ [SettingsOf({<<a, x>>}) EXCEPT !.initial = Null],
    [Quiet EXCEPT !.reloads = 1, !.pulls = 1] @@ SettingsOf({<<a, x>>, <<b, x>>})}

\* Drafts, known and new, while the key arrives.
Typing == {
    Late @@ DraftsOf({<<a, x>>}, One),
    [Late EXCEPT !.reloads = 1, !.draws = 2] @@ DraftsOf({<<a, x>>}, Empty),
    [Late EXCEPT !.keys = {a}, !.draws = 2] @@ DraftsOf({<<a, x>>, <<b, x>>}, Empty),
    [Quiet EXCEPT !.fresh = TRUE, !.draws = 2] @@ DraftsOf({<<a, x>>}, One)}

\* One device gets the key, the other does not.
Locked == {[Quiet EXCEPT !.keys = {a}] @@ DraftsOf({<<a, x>>, <<b, x>>}, Empty)}

SyncModes == Converging \cup Untidy \cup Typing
=============================================================================
