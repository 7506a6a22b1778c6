---------------------------- MODULE AgentPolicies ----------------------------
(***************************************************************************)
(* What the plugin does to an agent of the Host: the route and the effort  *)
(* a subagent starts with (src/host/subagent.ts), and the compaction pass  *)
(* before each of its steps (src/host/compaction.ts, with the policy of    *)
(* src/shared/compaction.ts).  One agent: those of several share nothing.  *)
(*                                                                         *)
(* The agent loop, its model selection, the meter, the model catalogue and *)
(* the backend that summarizes are external.  A service that is missing    *)
(* counts as a window that is not declared: both leave the pass without a  *)
(* target.  Ratios are hundredths of the window.  What is only logged is   *)
(* left out.                                                               *)
(***************************************************************************)
EXTENDS Integers, FiniteSets, SequencesExt

CONSTANTS
  Models, Absent,
  Window,      \* the declared window of each model, Absent when it declares none
  Wires,       \* the custom effort each model declares, and the level it maps to
  Price,       \* tokens of a node, by kind
  Policies,    \* the compaction policies the settings may hold, Absent where they hold
               \* none; a leaf that is absent or no number is Absent
  Children,    \* the subagent settings they may hold: route, own and legacy effort
  MaxNodes, MaxChanges  \* bounds: nodes of the surface, settings changes

Kinds == {"system", "text", "call", "calls", "result"}
Standard == {"off", "high"}

Ratios == [threshold : Nat \union {Absent}, retain : Nat \union {Absent}]
Policy == [enabled : BOOLEAN, threshold : Nat \union {Absent}, retain : Nat \union {Absent},
           models : [Models -> Ratios]]

ASSUME PolicyConstants ==
  /\ Window \in [Models -> Nat \union {Absent}] /\ Wires \in [Models -> [wire : STRING, level : Standard]]
  /\ Price \in [Kinds -> Nat]
  /\ Policies \subseteq Policy \union {Absent}
  /\ \A said \in Children : said.route \in Models \union {Absent}
  /\ {MaxNodes, MaxChanges} \subseteq Nat

VARIABLES
  policy, child,  \* the settings: compaction, and the subagent's
  agent,          \* origin, host and model selection
  surface,        \* the nodes of the session, oldest first
  pass,           \* the pre-step listener
  sent,           \* the last request
  changes

vars == <<policy, child, agent, surface, pass, sent, changes>>

NoPass == [at |-> "idle", policy |-> Absent, size |-> 0, retain |-> 0, first |-> 0, end |-> 0]
At(step) == [NoPass EXCEPT !.at = step]

Init ==
  /\ policy \in Policies /\ child \in Children
  /\ agent \in [subagent : BOOLEAN, selects : BOOLEAN, model : Models, effort : {Absent, "high"},
                created : {FALSE}, said : {Absent}, refused : {""}]
  /\ surface \in {<<>>, <<"system">>}
  /\ pass = NoPass /\ sent = Absent /\ changes = 0

----------------------------------------------------------------------------
(* The subagent's route and effort.                                        *)

\* readSubagentEffort: the plugin's own section, then the place older releases
\* stored it in.
Effort(said) == IF said.own # Absent THEN said.own ELSE said.legacy

\* resolveSubagentEffort: a standard level, or the level of a custom one the
\* model in use declares.
Resolved(said, model) ==
  LET effort == Effort(said)
  IN IF effort \in Standard THEN effort
     ELSE IF effort = Wires[model].wire THEN Wires[model].level ELSE Absent

\* applySubagentEffort, on a selection.
WithEffort(sel, said) ==
  LET effort == Resolved(said, sel.model)
  IN IF effort = Absent THEN sel ELSE [sel EXCEPT !.effort = effort]

\* applySubagentRoute: the route brings no effort of its own.
WithRoute(sel, said) ==
  IF said.route = Absent THEN sel ELSE [sel EXCEPT !.model = said.route, !.effort = Absent]

\* A mutant of Selected: the effort is resolved before the route.
SelectedEffortFirst(sel, said) == WithRoute(WithEffort(sel, said), said)

Selected(sel, said) == WithEffort(WithRoute(sel, said), said)

\* handleAgentCreated: a selection for the route, then one for the effort where
\* it is another than the one in force.  The Host may refuse either, which ends
\* it: with the route the effort is given up as well, and a refused effort leaves
\* the agent on its route without it.
Created ==
  /\ ~agent.created
  /\ LET born == [agent EXCEPT !.created = TRUE, !.said = child]
         routed == WithRoute(born, child)
         full == Selected(born, child)
     IN agent' \in
          IF ~(agent.subagent /\ agent.selects) THEN {born}
          ELSE {full} \union {[born EXCEPT !.refused = "route"] : r \in {child.route} \ {Absent}}
                      \union {[routed EXCEPT !.refused = "effort"] : sel \in {full} \ {routed}}
  /\ UNCHANGED <<policy, child, surface, pass, sent, changes>>

\* handleAgentRequest: where the Host has no selection to write, the effort is
\* resolved for each request.
Request ==
  /\ pass.at = "next"
  /\ LET said == IF agent.subagent /\ ~agent.selects THEN child ELSE agent.said
         sel == [model |-> agent.model, effort |-> agent.effort, said |-> said]
     IN sent' = IF agent.subagent /\ ~agent.selects THEN WithEffort(sel, said) ELSE sel
  /\ pass' = At("replying")
  /\ UNCHANGED <<policy, child, agent, surface, changes>>

----------------------------------------------------------------------------
(* The compaction pass.                                                    *)

\* compactionPolicyFrom: the shipped defaults stand for whatever is missing.
PolicyFrom(stored) ==
  LET or(leaf, default) == IF stored[leaf] = Absent THEN default ELSE stored[leaf]
  IN IF stored = Absent
     THEN [enabled |-> FALSE, threshold |-> 60, retain |-> 16,
           models |-> [m \in Models |-> [threshold |-> Absent, retain |-> Absent]]]
     ELSE [stored EXCEPT !.threshold = or("threshold", 60), !.retain = or("retain", 16)]

\* policyForModel: what the model overrides, and the global ratio otherwise.
Ratio(p, model, which) ==
  IF p.models[model][which] # Absent THEN p.models[model][which] ELSE p[which]
Tokens(model, ratio) == (Window[model] * ratio) \div 100

\* routeOf: the model of the last request, or the agent's before the first.
Route == IF sent # Absent THEN sent.model ELSE agent.model

Delta == [kind \in Kinds |->
  CASE kind = "call" -> 1 [] kind = "calls" -> 2 [] kind = "result" -> -1 [] OTHER -> 0]

Total(W, nodes) == FoldLeft(LAMBDA n, kind : n + W[kind], 0, nodes)

\* balanceCuts: the open tool calls before each node, and after the last.
Open == [k \in 1..(Len(surface) + 1) |-> Total(Delta, SubSeq(surface, 1, k - 1))]

TailPrice(k) == Total(Price, SubSeq(surface, k, Len(surface)))

HeadAt == IF surface # <<>> /\ surface[1] = "system" THEN 2 ELSE 1

\* The walk back to where the kept tail reaches the budget, or to the start.
KeepFrom(budget) ==
  LET f[k \in 0..Len(surface)] == IF k <= 1 \/ TailPrice(k) >= budget THEN k ELSE f[k - 1]
  IN f[Len(surface)]

\* A mutant of Uncut: the cut stays where the budget put it.
UncutNever(k) == k

\* And on to where no tool call is cut from its result.
Uncut(k) ==
  LET f[j \in 0..k] == IF j <= HeadAt \/ Open[j] = 0 THEN j ELSE f[j - 1] IN f[k]

\* selectCompactableRange: where the kept tail starts; no cut above the head,
\* no range.
Cut(budget) ==
  IF KeepFrom(budget) <= HeadAt THEN HeadAt ELSE Uncut(KeepFrom(budget))

\* handlePreStep up to its await: a pass that is off, or that has no window to
\* price against, is over at once.
PreStep ==
  /\ pass.at = "preStep"
  /\ LET read == PolicyFrom(policy)
     IN pass' = IF read.enabled /\ Window[Route] # Absent
                THEN [At("window") EXCEPT !.policy = read] ELSE At("next")
  /\ UNCHANGED <<policy, child, agent, surface, sent, changes>>

\* A mutant of Absorbed: a pass that fails takes the turn down with it.
AbsorbedNever == At("failed")

\* Every failure ends in next().
Absorbed == At("next")

\* The window is answered: the surface is measured and the range selected at
\* once, by the policy that was read before the await.
WindowAnswers ==
  LET model == Route
      budget == Tokens(model, Ratio(pass.policy, model, "retain"))
  IN /\ pass.at = "window"
     /\ pass' = IF TailPrice(1) < Tokens(model, Ratio(pass.policy, model, "threshold"))
                   \/ surface = <<>> \/ Cut(budget) <= HeadAt
                THEN At("next")
                ELSE [At("compacting") EXCEPT !.size = Len(surface), !.retain = budget,
                        !.first = HeadAt, !.end = Cut(budget) - 1]
     /\ UNCHANGED <<policy, child, agent, surface, sent, changes>>

\* The catalogue fails, or the meter has measured another surface.
WindowFails ==
  /\ pass.at = "window"
  /\ pass' = Absorbed
  /\ UNCHANGED <<policy, child, agent, surface, sent, changes>>

\* The backend puts a summary in the range's place, or fails.
BackendAnswers(ok) ==
  /\ pass.at = "compacting"
  /\ pass' = IF ok THEN At("next") ELSE Absorbed
  /\ surface' = IF ok
                THEN SubSeq(surface, 1, pass.first - 1) \o <<"text">> \o SubSeq(surface, pass.end + 1, Len(surface))
                ELSE surface
  /\ UNCHANGED <<policy, child, agent, sent, changes>>

Pass == PreStep \/ WindowAnswers \/ WindowFails \/ \E ok \in BOOLEAN : BackendAnswers(ok)

----------------------------------------------------------------------------
(* The environment.                                                        *)

Grow(nodes) ==
  /\ Len(surface) + Len(nodes) <= MaxNodes
  /\ surface' = surface \o nodes

\* A turn starts with a message.
Turn ==
  /\ agent.created /\ pass.at = "idle"
  /\ Grow(<<"text">>) /\ pass' = At("preStep")
  /\ UNCHANGED <<policy, child, agent, sent, changes>>

\* The model answers, or calls tools, whose results start another step; one that
\* was interrupted may leave a call without its result.
Replies ==
  /\ pass.at = "replying"
  /\ \/ \E nodes \in {<<"text">>, <<"call">>} : Grow(nodes) /\ pass' = NoPass
     \/ \E nodes \in {<<"call", "result">>, <<"calls", "result", "result">>} :
          Grow(nodes) /\ pass' = At("preStep")
     \/ pass' = NoPass /\ UNCHANGED surface
  /\ UNCHANGED <<policy, child, agent, sent, changes>>

\* A message queued while the pass waits.
Queued ==
  /\ pass.at \in {"window", "compacting"} /\ Grow(<<"text">>)
  /\ UNCHANGED <<policy, child, agent, pass, sent, changes>>

SettingsMove ==
  /\ changes < MaxChanges /\ changes' = changes + 1
  /\ policy' \in Policies /\ child' \in Children
  /\ UNCHANGED <<agent, surface, pass, sent>>

Next == Created \/ Turn \/ Pass \/ Request \/ Replies \/ Queued \/ SettingsMove

Spec == Init /\ [][Next]_vars

\* The Host goes on with its own steps; every await is answered.
FairSpec == Spec /\ WF_vars(Pass) /\ WF_vars(Request)

----------------------------------------------------------------------------
(* Properties.                                                             *)

\* The price of the nodes from k on, and the calls before it without a result.
Worth(nodes, k) == SumFunctionOnSet([i \in 1..Len(nodes) |-> Price[nodes[i]]], k..Len(nodes))

Unanswered(nodes, k) ==
  LET count(kinds) == Cardinality({i \in 1..(k - 1) : nodes[i] \in kinds})
  IN count({"call"}) + 2 * count({"calls"}) - count({"result"})

SafeCuts(nodes, first, retain) ==
  {k \in (first + 1)..Len(nodes) : Unanswered(nodes, k) = 0 /\ Worth(nodes, k) >= retain}

\* A pass under way replaces the most that is safe: of the cuts above the head
\* that part no tool call from its result and keep a tail worth the budget, it
\* took the newest, of a surface that has only grown since.
CompactsWhatIsSafe ==
  pass.at = "compacting" =>
    LET seen == SubSeq(surface, 1, pass.size)
        safe == SafeCuts(seen, pass.first, pass.retain)
    IN /\ \A i \in pass.first..pass.end : seen[i] # "system"
       /\ pass.end + 1 \in safe /\ \A k \in safe : k <= pass.end + 1

\* A subagent's requests go to the model configured for it and carry the effort
\* configured, in the terms of the model they go to, whatever else was selected
\* for the agent before; what it inherited is left alone where nothing is
\* configured or nothing maps.  A refusal is never made good: a child whose
\* route the Host refused runs on the parent's with the parent's effort, and one
\* whose effort it refused runs on the route without the configured effort.
ChildRunsAsConfigured ==
  sent # Absent /\ agent.subagent =>
    /\ agent.selects /\ agent.refused # "route" /\ sent.said.route # Absent => sent.model = sent.said.route
    /\ agent.refused = "" /\ Resolved(sent.said, sent.model) # Absent =>
         sent.effort = Resolved(sent.said, sent.model)

\* A compaction that fails never holds up the turn.
TurnsGoOn == pass.at = "preStep" ~> pass.at = "replying"
=============================================================================
