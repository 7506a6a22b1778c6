------------------------- MODULE MCTakeoverObserver -------------------------
(* Two writes of the Client over two descriptions and a write of another    *)
(* client: the smallest sizes at which two refreshes and a plain            *)
(* description are in flight together.                                      *)
EXTENDS TakeoverObserver
=============================================================================
