--------------------------- MODULE MCLegacyPrompt ---------------------------
(* Two paths are enough for the protocol between the prompt and the Host:  *)
(* one decision, one change of the documents and one refused call.          *)
EXTENDS LegacyPrompt

CONSTANTS
  effort, mode
MCPaths == {effort, mode}
=============================================================================
