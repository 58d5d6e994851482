--------------------------- MODULE BufferedBatcher ---------------------------
(***************************************************************************)
(* BufferedBatcher (src/sync.go): items added while a batch is processed   *)
(* gather in the next one. The batch is guarded by the lock of a sync.Cond,*)
(* ctx by mc; no critical section contains a blocking call, Cond.Wait      *)
(* excepted, so each is one step. The context is tested before the lock of *)
(* the cond is taken, and Stop forgets the context it cancels: both show.  *)
(***************************************************************************)
EXTENDS Naturals, FiniteSets

CONSTANTS Items,
          MaxStarts,  \* bound: the number of calls of Start
          MaxAdds     \* bound: the number of times an item is added

ASSUME BatcherAssumption == MaxStarts \in Nat /\ MaxAdds \in Nat

Starts == 1..MaxStarts     \* the calls of Start, each with a context of its own
None == 0                  \* no context

VARIABLES batch,      \* BufferedBatcher.batch, a set: an item is there once
          ctx,        \* BufferedBatcher.ctx: the call that created it, or None
          cancelled,  \* the calls whose context is done
          watcher,    \* the goroutine of each Start: "none", "waiting" or "done"
          pc,         \* where each Start is
          taken,      \* the batch each Start copied
          adds,       \* history: how often each item was added
          owed        \* history: the items added since a batch last took them

vars == <<batch, ctx, cancelled, watcher, pc, taken, adds, owed>>

StartStates == {"new", "top", "lock", "parked", "woken", "callback", "done"}

Init == /\ batch = {} /\ ctx = None /\ cancelled = {} /\ owed = {}
        /\ watcher = [i \in Starts |-> "none"]
        /\ pc = [i \in Starts |-> "new"]
        /\ taken = [i \in Starts |-> {}]
        /\ adds = [x \in Items |-> 0]

Goto(i, from, to) == pc[i] = from /\ pc' = [pc EXCEPT ![i] = to]

\* c.Signal(): one of the Starts that wait goes on, whichever.
Signal == \/ /\ \A i \in Starts : pc[i] # "parked"
             /\ UNCHANGED pc
          \/ \E i \in Starts : Goto(i, "parked", "woken")

-----------------------------------------------------------------------------
\* Start: already running.
StartLoses(i) == /\ Goto(i, "new", "done") /\ ctx \notin cancelled \cup {None}
                 /\ UNCHANGED <<batch, ctx, cancelled, watcher, taken, adds, owed>>

\* Start: create, store and handle context.
StartWins(i) == /\ Goto(i, "new", "top") /\ ctx \in cancelled \cup {None}
                /\ ctx' = i /\ watcher' = [watcher EXCEPT ![i] = "waiting"]
                /\ UNCHANGED <<batch, cancelled, taken, adds, owed>>

ReturnShared(i) == /\ Goto(i, "top", "done") /\ ctx \in cancelled  \* mutant: bb.ctx is tested
                   /\ UNCHANGED <<batch, ctx, cancelled, watcher, taken, adds, owed>>

\* Context has been canceled: return, which cancels it for its watcher as well.
Return(i) == /\ Goto(i, "top", "done") /\ i \in cancelled
             /\ UNCHANGED <<batch, ctx, cancelled, watcher, taken, adds, owed>>

Enter(i) == /\ Goto(i, "top", "lock") /\ i \notin cancelled
            /\ UNCHANGED <<batch, ctx, cancelled, watcher, taken, adds, owed>>

\* Wait for batch.
Wait(i) == /\ Goto(i, "lock", "parked") /\ batch = {}
           /\ UNCHANGED <<batch, ctx, cancelled, watcher, taken, adds, owed>>

WaitReturns(i) == /\ Goto(i, "woken", "top")
                  /\ UNCHANGED <<batch, ctx, cancelled, watcher, taken, adds, owed>>

CopyKeeping(i) == /\ Goto(i, "lock", "callback") /\ batch # {}   \* mutant: the batch is not reset
                  /\ taken' = [taken EXCEPT ![i] = batch] /\ owed' = owed \ batch
                  /\ UNCHANGED <<batch, ctx, cancelled, watcher, adds>>

\* Copy batch into a slice and reset it.
Copy(i) == /\ Goto(i, "lock", "callback") /\ batch # {}
           /\ taken' = [taken EXCEPT ![i] = batch] /\ owed' = owed \ batch
           /\ batch' = {}
           /\ UNCHANGED <<ctx, cancelled, watcher, adds>>

\* onBatch returns. What it calls meanwhile, Add, Start and Stop included, is
\* left to the interleaving.
Callback(i) == /\ Goto(i, "callback", "top")
               /\ taken' = [taken EXCEPT ![i] = {}]
               /\ UNCHANGED <<batch, ctx, cancelled, watcher, adds, owed>>

\* The goroutine of Start that signals the end of the context.
Watch(i) == /\ watcher[i] = "waiting" /\ i \in cancelled
            /\ watcher' = [watcher EXCEPT ![i] = "done"]
            /\ Signal
            /\ UNCHANGED <<batch, ctx, cancelled, taken, adds, owed>>

AddAs(x, b, signal) == /\ adds[x] < MaxAdds
                       /\ batch' = b /\ signal
                       /\ adds' = [adds EXCEPT ![x] = @ + 1] /\ owed' = owed \cup {x}
                       /\ UNCHANGED <<ctx, cancelled, watcher, taken>>

AddSilently(x) == AddAs(x, batch \cup {x}, UNCHANGED pc)   \* mutant: no signal

\* Add: store and signal.
Add(x) == AddAs(x, batch \cup {x}, Signal)

\* Stop: cancel and reset context.
Stop == /\ ctx # None
        /\ cancelled' = cancelled \cup {ctx} /\ ctx' = None
        /\ UNCHANGED <<batch, watcher, pc, taken, adds, owed>>

ParentCancel(i) == /\ cancelled' = cancelled \cup {i}
                   /\ UNCHANGED <<batch, ctx, watcher, pc, taken, adds, owed>>

Run(i) == Return(i) \/ Enter(i) \/ Wait(i) \/ WaitReturns(i) \/ Copy(i) \/ Callback(i)

Next == \/ \E i \in Starts : StartLoses(i) \/ StartWins(i) \/ Run(i) \/ Watch(i) \/ ParentCancel(i)
        \/ \E x \in Items : Add(x)
        \/ Stop

Spec == Init /\ [][Next]_vars

\* Goroutines that can run do, and callbacks end.
Fairness == \A i \in Starts : WF_vars(Run(i)) /\ WF_vars(Watch(i))

FairSpec == Spec /\ Fairness

-----------------------------------------------------------------------------
\* Every variable has its type.
TypeOK == /\ batch \subseteq Items /\ owed \subseteq Items
          /\ ctx \in {None} \cup Starts /\ cancelled \subseteq Starts
          /\ watcher \in [Starts -> {"none", "waiting", "done"}]
          /\ pc \in [Starts -> StartStates]
          /\ taken \in [Starts -> SUBSET Items] /\ adds \in [Items -> 0..MaxAdds]

\* Only one Start serves a context, so two callbacks at once mean that one of
\* them belongs to a Start that was stopped.
OneLiveCallback == Cardinality({i \in Starts : pc[i] = "callback" /\ i \notin cancelled}) <= 1

\* An item is in the next batch exactly from its Add to the copy of that batch:
\* no Add during a callback or between two Starts is lost or served twice, and one
\* Start at most serves it that was not stopped (src/sync.go:661-703).
NothingLost == TypeOK /\ OneLiveCallback /\ batch = owed

\* No Start waits beside a batch, unless another Start was there to take its signal.
Alone(i) == \A j \in Starts \ {i} : watcher[j] = "none"
NoStrandedBatch == \A i \in Starts : Alone(i) /\ pc[i] = "parked" => batch = {}

\* A Start that is stopped during its callback returns after it, even if another
\* Start or Stop replaces the context meanwhile.
StoppedInCallbackReturns == \A i \in Starts : (i \in cancelled /\ pc[i] = "callback") ~> pc[i] = "done"

=============================================================================
