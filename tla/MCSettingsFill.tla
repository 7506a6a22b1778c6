--------------------------- MODULE MCSettingsFill ---------------------------
(* Two array entries and two overrides, one of which a lower layer declares *)
(* without a level.                                                         *)
EXTENDS SettingsFill

CONSTANTS m1, m2, o1, o2

MCModels == {m1, m2}
MCOverrides == {o1, o2}
MCBaseOver == [o \in MCOverrides |-> IF o = o1 THEN "none" ELSE "absent"]
=============================================================================
