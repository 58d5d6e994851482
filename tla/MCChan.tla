------------------------------- MODULE MCChan -------------------------------
(* Two funcs and two calls of Start, one after or during the other, for one  *)
(* chan of each kind: FIFO with blocking Adds, FIFO that processes all, FILO *)
(* with blocking Adds that is reset. One kind is made of the options a violation needs.         *)
EXTENDS Chan

CONSTANTS f1, f2
MCFuncs == {f1, f2}

Kind(filo, processAll, block, resets) ==
  [filo |-> filo, processAll |-> processAll, block |-> block, resets |-> resets]

Kinds == {Kind(FALSE, FALSE, TRUE, FALSE), Kind(FALSE, TRUE, FALSE, FALSE), Kind(TRUE, FALSE, TRUE, TRUE)}
FILOKind == {Kind(TRUE, TRUE, FALSE, FALSE)}
=============================================================================
