---------------------------- MODULE MCSectionSave ----------------------------
(* Two models, so that a save has a sibling to spare, two saves, so that a   *)
(* panel left stale by the first meets the second, and three foreign writes. *)
EXTENDS SectionSave

CONSTANTS
  m1, m2
MCModels == {m1, m2}
=============================================================================
