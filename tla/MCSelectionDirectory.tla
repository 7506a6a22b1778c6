------------------------ MODULE MCSelectionDirectory ------------------------
(* The session's model with two efforts and the global default; two calls,  *)
(* a change by another client and one gap, reset or replacement: the        *)
(* smallest sizes at which an older answer, a frame and a newer call        *)
(* overlap, and a selection comes back.                                     *)
EXTENDS SelectionDirectory

Of(model, effort) == [model |-> model, effort |-> effort]
MCInitial == Of("session", "high")
MCDefault == Of("standard", "low")
MCSelection == {MCInitial, Of("session", "low"), MCDefault}
=============================================================================
