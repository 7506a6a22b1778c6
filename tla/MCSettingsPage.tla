---------------------------- MODULE MCSettingsPage ----------------------------
(* A yes-or-no field that two protocols offer and a number that one does, of *)
(* a provider, whose draft a re-read keeps or rebuilds as a whole; a guarded  *)
(* leaf of a row and one of none, and the switch; two fields of the format    *)
(* card, which depend on one another.                                         *)
EXTENDS SettingsPage

\* The second mode needs a script, and the first value is none.
MCRefused == {[mode |-> "b", script |-> "a"]}
=============================================================================
