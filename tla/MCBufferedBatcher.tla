------------------------- MODULE MCBufferedBatcher -------------------------
(* Two items and two calls of Start, one after or during the other. *)
EXTENDS BufferedBatcher

CONSTANTS x1, x2
MCItems == {x1, x2}
OneItem == {x1}
=============================================================================
