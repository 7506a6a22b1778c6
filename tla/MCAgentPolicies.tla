--------------------------- MODULE MCAgentPolicies ---------------------------
(* Two models, of which one declares no window; surfaces of up to seven nodes *)
(* and a window of 13 tokens, so that a pass may find nothing to compact,     *)
(* tool calls at its cut, or one it has compacted before; policies of defaults, *)
(* of a model's own and none; a custom effort of each model that means        *)
(* nothing to the other.                                                      *)
EXTENDS AgentPolicies

MCWindow == [m \in {"m1", "m2"} |-> IF m = "m1" THEN 13 ELSE Absent]
MCWires == [m \in {"m1", "m2"} |-> [wire |-> IF m = "m1" THEN "max" ELSE "ultra", level |-> "high"]]
MCPrice == [kind \in {"system", "text", "call", "calls", "result"} |->
  IF kind \in {"text", "result"} THEN 2 ELSE 1]

Follow == [threshold |-> Absent, retain |-> Absent]
MCPolicies == {
  [enabled |-> TRUE, threshold |-> Absent, retain |-> Absent, models |-> [m \in {"m1", "m2"} |-> Follow]],
  [enabled |-> TRUE, threshold |-> 80, retain |-> 30,
   models |-> [m \in {"m1", "m2"} |-> [Follow EXCEPT !.threshold = 50]]],
  Absent}
MCChildren == {
  [route |-> Absent, own |-> Absent, legacy |-> "off"],
  [route |-> "m1", own |-> "max", legacy |-> "off"],
  [route |-> "m2", own |-> "max", legacy |-> Absent]}
=============================================================================
