------------------------- MODULE MCGoroutineLimiter -------------------------
(* Four calls of Do around a limit of two: two run, one waits, one comes late. *)
EXTENDS GoroutineLimiter

CONSTANTS c1, c2, c3, c4
MCCalls == {c1, c2, c3, c4}
NoMax == -1
=============================================================================
