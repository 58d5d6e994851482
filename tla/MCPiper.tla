------------------------------ MODULE MCPiper ------------------------------
(* Two writers, Close, and three reads one after the other. *)
EXTENDS Piper

CONSTANTS k1, k2
MCChunks == {k1, k2}
=============================================================================
