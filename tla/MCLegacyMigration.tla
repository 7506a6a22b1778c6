------------------------- MODULE MCLegacyMigration -------------------------
(* Two paths, a pass budget of two so that a burst of client writes outruns *)
(* it, and one of each thing that can go wrong.                             *)
EXTENDS LegacyMigration

CONSTANTS effort, mode
MCPaths == {effort, mode}
=============================================================================
