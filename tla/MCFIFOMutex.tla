---------------------------- MODULE MCFIFOMutex ----------------------------
(* Three goroutines: an owner, the head of the queue and one behind it. *)
EXTENDS FIFOMutex

CONSTANTS g1, g2, g3
MCThreads == {g1, g2, g3}
=============================================================================
