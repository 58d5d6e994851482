-------------------------- MODULE GoroutineLimiter --------------------------
(***************************************************************************)
(* GoroutineLimiter (src/sync.go): Do runs a func in a goroutine of its    *)
(* own, and waits on a sync.Cond while Max of them run. Close cancels the  *)
(* limiter's context, whose goroutine then wakes every Do that waits.      *)
(* The lock of the cond is held by nobody between two steps, except after  *)
(* the return of Do that forgets to unlock it.                             *)
(***************************************************************************)
EXTENDS Integers, FiniteSets

CONSTANTS Calls,      \* the calls of Do, each with a func of its own
          Max         \* GoroutineLimiterOptions.Max

ASSUME LimiterAssumption == Max \in Int /\ IsFiniteSet(Calls)

VARIABLES busy,       \* GoroutineLimiter.busy
          closed,     \* the context is done
          leaked,     \* the lock of the cond was left locked
          handler,    \* handleCtx: "waiting" or "done"
          pc          \* where each Do, then the goroutine it starts, is

vars == <<busy, closed, leaked, handler, pc>>

CallStates == {"idle", "check", "lock", "parked", "woken", "running", "done", "refused"}

\* NewGoroutineLimiter: at least one func can run.
Limit == IF Max <= 0 THEN 1 ELSE Max

Init == /\ busy = 0 /\ closed = FALSE /\ leaked = FALSE /\ handler = "waiting"
        /\ pc = [c \in Calls |-> "idle"]

At(state) == {c \in Calls : pc[c] = state}
Goto(c, from, to) == pc[c] \in from /\ pc' = [pc EXCEPT ![c] = to]

-----------------------------------------------------------------------------
CallDo(c) == Goto(c, {"idle"}, "check") /\ UNCHANGED <<busy, closed, leaked, handler>>

\* Check context in case the limiter has already been closed.
CheckOpen(c) == /\ Goto(c, {"check"}, IF closed THEN "refused" ELSE "lock")
                /\ UNCHANGED <<busy, closed, leaked, handler>>

\* Under the lock, which Wait takes back: wait for a goroutine to be available ...
Wait(c) == /\ Goto(c, {"lock", "woken"}, "parked") /\ ~leaked /\ busy >= Limit
           /\ UNCHANGED <<busy, closed, leaked, handler>>

\* ... return, lock in hand, if the limiter has been closed while waiting ...
Refuse(c) == /\ Goto(c, {"lock", "woken"}, "refused") /\ ~leaked /\ busy < Limit /\ closed
             /\ leaked' = TRUE
             /\ UNCHANGED <<busy, closed, handler>>

RunWoken(c) == /\ Goto(c, {"lock", "woken"}, "running") /\ ~leaked /\ ~closed
               /\ busy < Limit \/ pc[c] = "woken"    \* mutant: if in place of for
               /\ busy' = busy + 1
               /\ UNCHANGED <<closed, leaked, handler>>

\* ... or increment and execute in a goroutine.
Run(c) == /\ Goto(c, {"lock", "woken"}, "running") /\ ~leaked /\ busy < Limit /\ ~closed
          /\ busy' = busy + 1
          /\ UNCHANGED <<closed, leaked, handler>>

FinishSilent(c) == /\ Goto(c, {"running"}, "done") /\ ~leaked    \* mutant: no signal
                   /\ busy' = busy - 1
                   /\ UNCHANGED <<closed, leaked, handler>>

\* The func ends: decrement and signal one Do that waits.
Finish(c) == /\ pc[c] = "running" /\ ~leaked
             /\ busy' = busy - 1
             /\ \/ /\ At("parked") = {}
                   /\ pc' = [pc EXCEPT ![c] = "done"]
                \/ \E p \in At("parked") : pc' = [pc EXCEPT ![c] = "done", ![p] = "woken"]
             /\ UNCHANGED <<closed, leaked, handler>>

Close == /\ ~closed /\ closed' = TRUE
         /\ UNCHANGED <<busy, leaked, handler, pc>>

\* handleCtx: broadcast once the context is done.
HandleCtx == /\ handler = "waiting" /\ closed /\ ~leaked
             /\ handler' = "done"
             /\ pc' = [c \in Calls |-> IF pc[c] = "parked" THEN "woken" ELSE pc[c]]
             /\ UNCHANGED <<busy, closed, leaked>>

Step(c) == CheckOpen(c) \/ Wait(c) \/ Refuse(c) \/ Run(c) \/ Finish(c)

Next == HandleCtx \/ Close \/ \E c \in Calls : CallDo(c) \/ Step(c)

Spec == Init /\ [][Next]_vars

\* Goroutines that can run do, funcs end, and sync.Mutex starves nobody.
Fairness == /\ WF_vars(HandleCtx)
            /\ \A c \in Calls : WF_vars(CheckOpen(c)) /\ WF_vars(Finish(c))
                                /\ SF_vars(Wait(c) \/ Refuse(c) \/ Run(c))

FairSpec == Spec /\ Fairness

-----------------------------------------------------------------------------
\* Every variable has its type.
TypeOK == /\ busy \in Nat /\ closed \in BOOLEAN /\ leaked \in BOOLEAN
          /\ handler \in {"waiting", "done"} /\ pc \in [Calls -> CallStates]

\* At most Limit funcs run at once, however Do, the ends of funcs, wake-ups and
\* Close interleave.
AtMostLimit == Cardinality(At("running")) <= Limit

\* The count the limiter decides on is the number of funcs that run.
CountsRunning == busy = Cardinality(At("running"))

\* No room is left unused while a Do waits: as many have been woken as there is
\* room for, although a newcomer may take the room of one that was woken.
NoRoomLost == At("parked") # {} /\ ~leaked => busy + Cardinality(At("woken")) >= Limit

\* No func starts once the limiter is closed, even for a Do that waited.
NoStartAfterClose == [][\A c \in Calls : closed => ~(pc[c] # "running" /\ pc'[c] = "running")]_vars

\* While the limiter is open every Do gets to run its func.
DoRuns == \A c \in Calls : pc[c] = "lock" ~> (pc[c] = "running" \/ closed)
-----------------------------------------------------------------------------
\* What the code intends and does not do: a Do that waits when the limiter is
\* closed is told so.
DoReturnsAfterClose == \A c \in Calls : (closed /\ pc[c] = "parked") ~> pc[c] \in {"running", "done", "refused"}
=============================================================================
