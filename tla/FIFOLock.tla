------------------------------ MODULE FIFOLock ------------------------------
(***************************************************************************)
(* What a first-come-first-served lock promises, whatever implements it:   *)
(* it passes from a holder to the oldest goroutine that waits for it, and  *)
(* nobody overtakes the queue. FIFOMutex.tla is shown to implement it.     *)
(***************************************************************************)
EXTENDS Sequences

CONSTANT Threads      \* the goroutines that use the lock

VARIABLES holders,    \* the goroutines inside
          queue       \* the goroutines that wait, oldest first

lockVars == <<holders, queue>>

LockInit == holders = {} /\ queue = <<>>

\* A free lock that nobody waits for is taken at once.
Acquire(g) == /\ holders = {} /\ queue = <<>>
              /\ holders' = {g}
              /\ UNCHANGED queue

\* A goroutine that finds the lock taken goes to the end of the queue.
Join(g) == /\ holders # {} /\ g \notin holders
           /\ queue' = Append(queue, g)
           /\ UNCHANGED holders

\* The holder leaves: the head of the queue is the holder from now on.
Handoff(g) == /\ g \in holders /\ queue # <<>>
              /\ holders' = (holders \ {g}) \cup {Head(queue)}
              /\ queue' = Tail(queue)

\* The holder leaves and nobody waits.
Free(g) == /\ g \in holders /\ queue = <<>>
           /\ holders' = holders \ {g}
           /\ UNCHANGED queue

LockNext == \E g \in Threads : Acquire(g) \/ Join(g) \/ Handoff(g) \/ Free(g)

LockSpec == LockInit /\ [][LockNext]_lockVars
=============================================================================
