------------------------------- MODULE Eventer -------------------------------
(***************************************************************************)
(* The Eventer of src/sync.go: Dispatch adds one func per handler to a     *)
(* Chan, under the mutex of the handlers. The chan is the SerialQueue that *)
(* Chan.tla implements in FIFO order, with what Start, Stop and the two    *)
(* strategies of Add do on top of it. A handler may itself call On.        *)
(***************************************************************************)
EXTENDS Naturals, SerialQueue

CONSTANTS Dispatchers, Events,
          MaxOns,         \* bound: the handlers added to each event
          MaxDispatches,  \* bound: the calls of Dispatch
          Nobody

ASSUME EventerAssumption == Nobody \notin Dispatchers /\ MaxOns \in Nat

VARIABLES opts,       \* the options of the chan; whether handlers call On
          mh,         \* who holds mh
          handlers,   \* how many handlers each event has: its handlers are 1..n
          disp,       \* per dispatcher: where Dispatch is
          nDispatch,  \* how often Dispatch was called
          chan,       \* "new", "running" or "over": where Start is
          stopped,    \* the context of the chan was cancelled
          callback    \* the handler being executed: "none", "on" (before its On), "done"

eventerVars == <<queueVars, opts, mh, handlers, disp, nDispatch, chan, stopped, callback>>

EventerInit == /\ QueueInit /\ mh = Nobody /\ nDispatch = 0
               /\ opts \in [block : BOOLEAN, processAll : BOOLEAN, reenter : BOOLEAN]
               /\ handlers = [n \in Events |-> 0]
               /\ disp = [d \in Dispatchers |-> [pc |-> "idle", id |-> 0, event |-> Nobody, k |-> 0]]
               /\ chan = "new" /\ stopped = FALSE /\ callback = "none"

Job(d) == [id |-> disp[d].id, k |-> disp[d].k]

\* On, by a caller.
EventerOn(n) == /\ mh = Nobody /\ handlers[n] < MaxOns
                /\ handlers' = [handlers EXCEPT ![n] = @ + 1]
                /\ UNCHANGED <<queueVars, opts, mh, disp, nDispatch, chan, stopped, callback>>

LockNothing(d) ==    \* mutant: Dispatch does not lock mh
  mh' = mh
LockMh(d) == mh = Nobody /\ mh' = d

\* Dispatch locks mh ...
Dispatch(d, n) == /\ disp[d].pc = "idle" /\ nDispatch < MaxDispatches
                  /\ nDispatch' = nDispatch + 1
                  /\ disp' = [disp EXCEPT ![d] = [pc |-> "lock", id |-> nDispatch + 1, event |-> n, k |-> 1]]
                  /\ UNCHANGED <<queueVars, opts, mh, handlers, chan, stopped, callback>>

DispatchLock(d) == /\ disp[d].pc = "lock" /\ LockMh(d)
                   /\ disp' = [disp EXCEPT ![d].pc = "loop"]
                   /\ UNCHANGED <<queueVars, opts, handlers, nDispatch, chan, stopped, callback>>

HandlersOf(d) == handlers[disp[d].event]

\* ... adds one func per handler, or none once the chan's context is done ...
DispatchAdd(d) == /\ disp[d].pc = "loop" /\ disp[d].k <= HandlersOf(d)
                  /\ IF stopped
                     THEN disp' = [disp EXCEPT ![d].k = @ + 1] /\ UNCHANGED queueVars
                     ELSE /\ Put(Job(d))
                          /\ disp' = [disp EXCEPT ![d].pc = IF opts.block THEN "wait" ELSE "loop",
                                                  ![d].k = IF opts.block THEN @ ELSE @ + 1]
                  /\ UNCHANGED <<opts, mh, handlers, nDispatch, chan, stopped, callback>>

\* ... waits for it if Add blocks ...
DispatchWait(d) == /\ disp[d].pc = "wait" /\ \E i \in DOMAIN finished : finished[i] = Job(d)
                   /\ disp' = [disp EXCEPT ![d].pc = "loop", ![d].k = @ + 1]
                   /\ UNCHANGED <<queueVars, opts, mh, handlers, nDispatch, chan, stopped, callback>>

UnlockIfAny(d) ==    \* mutant: without handlers Dispatch returns before it unlocks
  mh' = IF HandlersOf(d) = 0 THEN mh ELSE Nobody
UnlockMh(d) == mh' = Nobody

\* ... and unlocks.
DispatchEnd(d) == /\ disp[d].pc = "loop" /\ disp[d].k > HandlersOf(d)
                  /\ UnlockMh(d)
                  /\ disp' = [disp EXCEPT ![d] = [pc |-> "idle", id |-> 0, event |-> Nobody, k |-> 0]]
                  /\ UNCHANGED <<queueVars, opts, handlers, nDispatch, chan, stopped, callback>>

-----------------------------------------------------------------------------
\* Start and Stop of the chan. The funcs left when Start returns are dropped.
EventerStart == /\ chan = "new" /\ chan' = "running"
                /\ UNCHANGED <<queueVars, opts, mh, handlers, disp, nDispatch, stopped, callback>>

EventerStop == /\ chan = "running" /\ ~stopped /\ stopped' = TRUE
               /\ UNCHANGED <<queueVars, opts, mh, handlers, disp, nDispatch, chan, callback>>

StartReturns == /\ chan = "running" /\ stopped /\ active = {} /\ (opts.processAll => queue = <<>>)
                /\ chan' = "over"
                /\ UNCHANGED <<queueVars, opts, mh, handlers, disp, nDispatch, stopped, callback>>

\* The chan executes a handler, which may call On before it ends.
HandlerStarts == /\ chan = "running" /\ (stopped => opts.processAll) /\ Take
                 /\ callback' = IF opts.reenter THEN "on" ELSE "done"
                 /\ UNCHANGED <<opts, mh, handlers, disp, nDispatch, chan, stopped>>

HandlerOn(n) == /\ callback = "on" /\ mh = Nobody
                /\ handlers' = [handlers EXCEPT ![n] = IF @ < MaxOns THEN @ + 1 ELSE @]
                /\ callback' = "done"
                /\ UNCHANGED <<queueVars, opts, mh, disp, nDispatch, chan, stopped>>

HandlerEnds == /\ callback = "done" /\ callback' = "none"
               /\ \E j \in active : Finish(j)
               /\ UNCHANGED <<opts, mh, handlers, disp, nDispatch, chan, stopped>>

Dispatching(d) == DispatchLock(d) \/ DispatchAdd(d) \/ DispatchWait(d) \/ DispatchEnd(d)
Executing == HandlerStarts \/ (\E n \in Events : HandlerOn(n)) \/ HandlerEnds

EventerNext == \/ \E n \in Events : EventerOn(n) \/ \E d \in Dispatchers : Dispatch(d, n)
               \/ \E d \in Dispatchers : Dispatching(d)
               \/ EventerStart \/ EventerStop \/ StartReturns \/ Executing

\* Dispatchers and the goroutine of Start are scheduled, and a mutex that is free
\* again and again is had; nobody has to call anything.
EventerFairness == /\ \A d \in Dispatchers : WF_eventerVars(Dispatching(d)) /\ SF_eventerVars(DispatchLock(d))
                   /\ WF_eventerVars(Executing) /\ SF_eventerVars(\E n \in Events : HandlerOn(n))

EventerSpec == EventerInit /\ [][EventerNext]_eventerVars

EventerTypeOK == /\ mh \in Dispatchers \cup {Nobody}
                 /\ handlers \in [Events -> 0..MaxOns]
                 /\ chan \in {"new", "running", "over"} /\ callback \in {"none", "on", "done"}
                 /\ (active = {}) = (callback = "none")

(* The handlers of an event are executed in the order of their registration, each once, and nothing *)
(* of another Dispatch comes between them: Dispatch holds the mutex until it has added them all      *)
(* (src/sync.go:384-404). A chan that was stopped cuts an event short, and never its beginning.      *)
DispatchesInBlocks ==
  LET order == finished \o (IF active = {} THEN <<>> ELSE <<CHOOSE j \in active : TRUE>>) \o queue
  IN  /\ EventerTypeOK
      /\ \A i \in DOMAIN order : \/ order[i].k = 1
                                 \/ i > 1 /\ order[i] = [order[i - 1] EXCEPT !.k = @ + 1]
      /\ \A i, j \in DOMAIN order : order[i] = order[j] => i = j

(* Dispatch returns while the chan runs and is not stopped, unless funcs are added with              *)
(* ChanAddStrategyBlockWhenStarted and a handler calls On: that handler then waits for the mutex of  *)
(* the Dispatch that waits for it (src/sync.go:374-404).                                       *)
DispatchReturns == \A d \in Dispatchers :
  (disp[d].pc # "idle" /\ chan = "running") ~> \/ disp[d].pc = "idle" \/ stopped
                                               \/ opts.block /\ opts.reenter
=============================================================================
