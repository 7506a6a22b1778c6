---------------------------- MODULE AtomicImport ----------------------------
(***************************************************************************)
(* What an import promises of the settings: each namespace it writes goes, *)
(* in one step, from what it holds to what the plan makes of exactly that, *)
(* whoever else writes.  Nobody's change is lost to a plan that was        *)
(* computed before it.                                                     *)
(***************************************************************************)
EXTENDS ImportPlan

VARIABLES
  docs,      \* the sections as stored
  offered,   \* the snapshots the user confirmed an import of
  imported   \* how many import writes each namespace took

vars == <<docs, offered, imported>>

Init == docs \in Sections /\ offered = {} /\ imported = [ns \in Namespaces |-> 0]

Confirm ==
  /\ UNCHANGED <<docs, imported>>
  /\ offered \subseteq offered' /\ offered' \subseteq Sections

Import(ns) ==
  /\ imported' = [imported EXCEPT ![ns] = @ + 1]
  /\ \E file \in offered, mode \in {"merge", "replace"}, wire \in BOOLEAN :
       docs' = [docs EXCEPT ![ns] = Written(@, Ops(ns, file, @, mode, wire))]
  /\ UNCHANGED offered

OthersWrite(ns) ==
  /\ UNCHANGED <<offered, imported>>
  /\ docs'[ns] \in Section /\ docs' = [docs EXCEPT ![ns] = docs'[ns]]

Next == Confirm \/ \E ns \in Namespaces : Import(ns) \/ OthersWrite(ns)

Spec == Init /\ [][Next]_vars
=============================================================================
