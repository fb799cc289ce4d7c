----------------------------- MODULE MCLogger -----------------------------
(* Logger with two callers. *)
EXTENDS Logger

CONSTANTS c1, c2, w

MCCallers == {c1, c2}
=============================================================================
