----------------------------- MODULE ImportPlan -----------------------------
(***************************************************************************)
(* What an import writes: planImport (src/client/config-snapshot/plan.ts)  *)
(* with the wiring rule it applies first (wiring.ts).  Pure operators over *)
(* the sections of a snapshot and of the settings.                         *)
(*                                                                         *)
(* A section holds one dict-valued entry and one plain one: `providers`    *)
(* and the `subagentEffort` of older releases in the llm section,          *)
(* `opencodeSession` and `subagentEffort` in the plugin's.  An item of the *)
(* dict (a provider, a session setting) is split the way the wiring rule   *)
(* splits it: what it can do, and where it sends requests (`baseURL`,      *)
(* `apiKeyEnv`, `headers`; `format.script`).  An entry of the wrong shape  *)
(* is left out, and so is the library, which no import plans.              *)
(***************************************************************************)
EXTENDS Integers, FiniteSets

CONSTANTS
  Items,        \* keys of the dict-valued entries
  Caps,         \* what an item can do
  Wirings,      \* endpoints, credentials, headers and scripts
  Efforts,      \* values of the plain entry
  Missing,      \* no such entry
  EntryConfig   \* the settings model that refuses undeclared keys (0.1.7 on)

ASSUME PlanConstants ==
  /\ Missing \notin Caps \union Wirings \union Efforts
  /\ EntryConfig \in BOOLEAN

Namespaces == {"plugin", "llm"}
Part == [cap : Caps \union {Missing}, wiring : Wirings \union {Missing}]
Dict == UNION {[K -> Part] : K \in SUBSET Items}
Section == [dict : Dict \union {Missing}, effort : Efforts \union {Missing}]
Sections == [Namespaces -> Section]

Keys == {"dict", "effort"}
EmptyPart == [cap |-> Missing, wiring |-> Missing]
Over(f, g) == [x \in DOMAIN f \union DOMAIN g |-> IF x \in DOMAIN f THEN f[x] ELSE g[x]]

\* sectionsForEntryConfig: the plain entry of the llm section moves to the
\* section that declares it, which keeps its own when it has one.
ForEntryConfig(file) ==
  IF ~EntryConfig THEN file
  ELSE [plugin |-> [file["plugin"] EXCEPT !.effort = IF @ = Missing THEN file["llm"].effort ELSE @],
        llm |-> [file["llm"] EXCEPT !.effort = Missing]]

\* withoutLegacyLlmKeys.
Declared(ns, section) ==
  IF EntryConfig /\ ns = "llm" THEN [section EXCEPT !.effort = Missing] ELSE section

\* What this machine has of an item.
Local(dict, k) == IF dict # Missing /\ k \in DOMAIN dict THEN dict[k] ELSE EmptyPart

\* A mutant of Rewired: an item this machine lacks keeps the file's wiring.
RewiredForNew(part, dict, k, wire) ==
  IF wire \/ Local(dict, k) = EmptyPart THEN part
  ELSE [part EXCEPT !.wiring = Local(dict, k).wiring]

\* The file's wiring is discarded and this machine's kept, unless opted in.
Rewired(part, dict, k, wire) ==
  IF wire THEN part ELSE [part EXCEPT !.wiring = Local(dict, k).wiring]

\* adjustIncoming: a provider this machine lacks, with nothing left to it, is
\* not imported.
AdjustIncoming(ns, incoming, current, wire) ==
  IF incoming.dict = Missing THEN incoming
  ELSE LET new(k) == Rewired(incoming.dict[k], current.dict, k, wire)
           known == IF current.dict = Missing THEN {} ELSE DOMAIN current.dict
           kept == {k \in DOMAIN incoming.dict : ns = "plugin" \/ k \in known \/ new(k) # EmptyPart}
       IN [incoming EXCEPT !.dict = [k \in kept |-> new(k)]]

\* What a mode makes of one entry: merging is one level deep.
Planned(key, incoming, current, mode) ==
  IF key = "dict" /\ mode = "merge" /\ Missing \notin {incoming.dict, current.dict}
  THEN Over(incoming.dict, current.dict)
  ELSE incoming[key]

\* The operations planned for a namespace: the entries that change, and what
\* they become; Missing stands for an unset.
Ops(ns, file, section, mode, wire) ==
  LET current == Declared(ns, section)
      incoming == AdjustIncoming(ns, ForEntryConfig(file)[ns], current, wire)
      keys == {k \in Keys : incoming[k] # Missing \/ mode = "replace"}
      new(k) == Planned(k, incoming, current, mode)
  IN [k \in {k \in keys : new(k) # current[k]} |-> new(k)]

PlanImport(file, sections, mode, wire) ==
  [ns \in Namespaces |-> Ops(ns, file, sections[ns], mode, wire)]

Empty(plan) == \A ns \in Namespaces : DOMAIN plan[ns] = {}

Written(section, ops) ==
  [section EXCEPT !.dict = IF "dict" \in DOMAIN ops THEN ops["dict"] ELSE @,
                  !.effort = IF "effort" \in DOMAIN ops THEN ops["effort"] ELSE @]
=============================================================================
