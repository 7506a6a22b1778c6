--------------------------- MODULE MCConfigImport ---------------------------
(* One item of two capabilities and two endpoints, and a file that overrides *)
(* it and brings the effort older releases stored elsewhere.  Two imports,    *)
(* and a foreign write or a write of the card's own between their steps: the  *)
(* sizes at which imports overlap, a restored copy replaces another, and a    *)
(* conflict hits each namespace.                                              *)
EXTENDS ConfigImport

Holds(cap, wiring) == [k \in {"item"} |-> [cap |-> cap, wiring |-> wiring]]
Of(plugin, pluginEffort, llm, llmEffort) ==
  [plugin |-> [dict |-> plugin, effort |-> pluginEffort], llm |-> [dict |-> llm, effort |-> llmEffort]]

MCFiles == {Of(Holds("new", "theirs"), Missing, Holds("new", "theirs"), "e1")}
MCInitials == {Of(Missing, Missing, Holds("old", "ours"), Missing)}
MCChoices == {[mode |-> "merge", wire |-> FALSE], [mode |-> "replace", wire |-> FALSE],
              [mode |-> "replace", wire |-> TRUE]}
MCForeign == {[dict |-> Holds("old", Missing), effort |-> Missing]}
=============================================================================
