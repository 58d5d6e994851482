----------------------------- MODULE SerialQueue -----------------------------
(***************************************************************************)
(* What an executor of funcs promises, whatever implements it: the funcs   *)
(* put in the queue are executed one at a time, in the order in which they *)
(* were put, each at most once. Chan.tla is shown to implement it.         *)
(***************************************************************************)
EXTENDS Sequences

CONSTANT Funcs

VARIABLES queue,     \* the funcs not yet taken, oldest first
          active,    \* the funcs being executed
          finished   \* the funcs executed, in that order

queueVars == <<queue, active, finished>>

QueueInit == queue = <<>> /\ active = {} /\ finished = <<>>

Put(f) == queue' = Append(queue, f) /\ UNCHANGED <<active, finished>>

Take == /\ active = {} /\ queue # <<>>
        /\ active' = {Head(queue)} /\ queue' = Tail(queue)
        /\ UNCHANGED finished

Finish(f) == /\ f \in active
             /\ active' = active \ {f} /\ finished' = Append(finished, f)
             /\ UNCHANGED queue

QueueNext == Take \/ \E f \in Funcs : Put(f) \/ Finish(f)

QueueSpec == QueueInit /\ [][QueueNext]_queueVars
=============================================================================
