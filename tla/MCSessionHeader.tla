--------------------------- MODULE MCSessionHeader ---------------------------
(* One cached value for two sessions, so that every switch between them      *)
(* evicts; two fetches at once, so that loads overlap and join; one edit of  *)
(* the script and one failure; a clock of two steps an interval, so that a   *)
(* call can be late when another is not.                                     *)
EXTENDS SessionHeader

MCStarts == {DefaultConfig,
  [DefaultConfig EXCEPT !.mode = "script", !.text = "good", !.accepts = {"script"}, !.onInvalid = "drop"]}
MCConfigs == MCStarts \union {[DefaultConfig EXCEPT !.time = "hash"]}
=============================================================================
