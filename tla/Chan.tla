------------------------------- MODULE Chan -------------------------------
(***************************************************************************)
(* Chan (src/sync.go): a buffer of funcs, executed by the goroutine that   *)
(* called Start until its context is cancelled. The buffer is guarded by   *)
(* mf, the context by mc, and a sync.Cond tells the loop of Start that     *)
(* there is something new. mf and mc are never held across a blocking      *)
(* call, so their critical sections are single steps; the cond's lock is   *)
(* held by Start from the reading of the length to the decision to wait.   *)
(* A func is a value added once; what it does is left to the interleaving: *)
(* any Add, Stop or Reset step while it is executed may be its own.        *)
(***************************************************************************)
EXTENDS Naturals, Sequences

CONSTANTS Funcs,             \* the funcs, each passed to one call of Add
          NoFunc,            \* no func
          MaxStarts,         \* bound: the number of calls of Start
          OptionSet          \* the options a Chan is created with

\* ChanOptions, and whether the client calls Reset.
Options == [filo : BOOLEAN, processAll : BOOLEAN, block : BOOLEAN, resets : BOOLEAN]

ASSUME ChanAssumption == MaxStarts \in Nat /\ NoFunc \notin Funcs /\ OptionSet \subseteq Options

Starts == 1..MaxStarts       \* the calls of Start, each with a context of its own
None == 0                    \* no context

VARIABLES o,          \* Chan.o, which never changes
          running,    \* Chan.running
          ctx,        \* Chan.ctx: the call that created it, or None
          cancelled,  \* the calls whose context is done
          watcher,    \* the goroutine of each Start: "none", "waiting" or "done"
          fs,         \* Chan.fs
          seen, fn,   \* the locals l and fn of each Start
          pc,         \* where each Start is
          apc,        \* where the Add of each func is
          executed    \* history: the funcs executed, in that order

startVars == <<o, running, watcher, seen, fn, pc>>
ctxVars == <<ctx, cancelled>>
vars == <<startVars, ctxVars, fs, apc, executed>>

StartStates == {"new", "starting", "lock", "check", "parked", "woken",
                "fetch", "exec", "remove", "exit", "done", "panic"}
AddStates == {"idle", "check", "append", "signal", "wait", "added", "refused"}

Init == /\ o \in OptionSet
        /\ running = FALSE /\ ctx = None /\ cancelled = {}
        /\ watcher = [i \in Starts |-> "none"]
        /\ fs = <<>> /\ executed = <<>>
        /\ seen = [i \in Starts |-> 0] /\ fn = [i \in Starts |-> NoFunc]
        /\ pc = [i \in Starts |-> "new"]
        /\ apc = [f \in Funcs |-> "idle"]

Goto(i, from, to) == pc[i] = from /\ pc' = [pc EXCEPT ![i] = to]
AddGoto(f, from, to) == apc[f] = from /\ apc' = [apc EXCEPT ![f] = to]

Executed(f) == \E n \in 1..Len(executed) : executed[n] = f

CondIgnored == TRUE                  \* mutant: len, test and Wait are not under the lock

\* The lock of the cond is free.
CondFree == \A i \in Starts : pc[i] # "check"

SignalMissing == pc                  \* mutant: nobody is signalled

\* pc after c.c.Signal(): the Start that waits goes on.
Signalled == [i \in Starts |-> IF pc[i] = "parked" THEN "woken" ELSE pc[i]]

-----------------------------------------------------------------------------
StartAlways(i) == /\ Goto(i, "new", "starting")   \* mutant: running is not tested
                  /\ running' = TRUE
                  /\ UNCHANGED <<o, ctxVars, watcher, seen, fn, fs, apc, executed>>

\* Start: the CompareAndSwap on running lets one call through ...
StartWins(i) == /\ Goto(i, "new", "starting") /\ ~running
                /\ running' = TRUE
                /\ UNCHANGED <<o, ctxVars, watcher, seen, fn, fs, apc, executed>>

\* ... and the others return at once.
StartLoses(i) == /\ Goto(i, "new", "done") /\ running
                 /\ UNCHANGED <<o, running, watcher, seen, fn, ctxVars, fs, apc, executed>>

\* Create context and handle context.
CreateCtx(i) == /\ Goto(i, "starting", "lock")
                /\ ctx' = i
                /\ watcher' = [watcher EXCEPT ![i] = "waiting"]
                /\ UNCHANGED <<o, running, seen, fn, cancelled, fs, apc, executed>>

\* Lock cond and get the number of funcs in the buffer.
ReadLen(i) == /\ Goto(i, "lock", "check") /\ CondFree
              /\ seen' = [seen EXCEPT ![i] = Len(fs)]
              /\ UNCHANGED <<o, running, watcher, fn, ctxVars, fs, apc, executed>>

ReturnNow(i) == ctx \in cancelled                       \* mutant: ProcessAll is not tested

MustReturn(i) == ctx \in cancelled /\ (~o.processAll \/ seen[i] = 0)

Keeps == UNCHANGED <<o, running, watcher, seen, fn, ctxVars, fs, apc, executed>>

Return(i) == Goto(i, "check", "exit") /\ MustReturn(i) /\ Keeps
Wait(i) == Goto(i, "check", "parked") /\ ~MustReturn(i) /\ seen[i] = 0 /\ Keeps
Proceed(i) == Goto(i, "check", "fetch") /\ ~MustReturn(i) /\ seen[i] > 0 /\ Keeps

\* Wait returns when it gets the lock of the cond back, which is unlocked at once.
WaitReturns(i) == Goto(i, "woken", "lock") /\ CondFree /\ Keeps

\* Get first func: the buffer is indexed without a second look at its length.
Fetch(i) == /\ Goto(i, "fetch", "exec") /\ fs # <<>>
            /\ fn' = [fn EXCEPT ![i] = Head(fs)]
            /\ UNCHANGED <<o, running, watcher, seen, ctxVars, fs, apc, executed>>

\* The func of a blocking Add calls wg.Done() whenever it is executed, once too often
\* the second time.
DoneTwice(i) == o.block /\ Executed(fn[i])

\* Execute func, to its end. The Add that waits for it goes on.
Exec(i) == /\ Goto(i, "exec", "remove") /\ ~DoneTwice(i)
           /\ executed' = Append(executed, fn[i])
           /\ apc' = [apc EXCEPT ![fn[i]] = IF @ = "wait" THEN "added" ELSE @]
           /\ UNCHANGED <<o, running, watcher, seen, fn, ctxVars, fs>>

\* Remove first func, whichever is first now.
Remove(i) == /\ Goto(i, "remove", "lock") /\ fs # <<>>
             /\ fs' = Tail(fs)
             /\ UNCHANGED <<o, running, watcher, seen, fn, ctxVars, apc, executed>>

\* An empty buffer is out of range both for c.fs[0] and for c.fs[1:], and a wait group
\* has no negative counter: the program ends.
Panic(i) == /\ \/ pc[i] \in {"fetch", "remove"} /\ fs = <<>>
               \/ pc[i] = "exec" /\ DoneTwice(i)
            /\ pc' = [pc EXCEPT ![i] = "panic"] /\ Keeps

\* The deferred store to running.
Exit(i) == /\ Goto(i, "exit", "done")
           /\ running' = FALSE
           /\ UNCHANGED <<o, watcher, seen, fn, ctxVars, fs, apc, executed>>

WatchSilent(i) == /\ watcher[i] = "waiting" /\ i \in cancelled    \* mutant: no signal
                  /\ watcher' = [watcher EXCEPT ![i] = "done"]
                  /\ UNCHANGED <<o, running, seen, fn, pc, ctxVars, fs, apc, executed>>

\* The goroutine of Start that signals the end of the context.
Watch(i) == /\ watcher[i] = "waiting" /\ i \in cancelled /\ CondFree
            /\ watcher' = [watcher EXCEPT ![i] = "done"]
            /\ pc' = Signalled
            /\ UNCHANGED <<o, running, seen, fn, ctxVars, fs, apc, executed>>

Loop(i) == \/ ReadLen(i) \/ Return(i) \/ Wait(i) \/ Proceed(i) \/ WaitReturns(i) \/ Fetch(i)
           \/ Exec(i) \/ Remove(i) \/ Exit(i)

-----------------------------------------------------------------------------
\* A call of Start is in progress.
Active(i) == pc[i] \notin {"new", "done", "panic"}

\* Stop cancels the context of the last Start that created one, if any.
Stop == /\ cancelled' = cancelled \cup ({ctx} \ {None})
        /\ UNCHANGED <<startVars, ctx, fs, apc, executed>>

\* The context given to a Start is cancelled by its owner.
ParentCancel(i) == /\ cancelled' = cancelled \cup {i}
                   /\ UNCHANGED <<startVars, ctx, fs, apc, executed>>

AddCall(f) == AddGoto(f, "idle", "check") /\ UNCHANGED <<startVars, ctxVars, fs, executed>>

\* Add: check context ...
AddCheck(f) == /\ AddGoto(f, "check", IF ctx \in cancelled THEN "refused" ELSE "append")
               /\ UNCHANGED <<startVars, ctxVars, fs, executed>>

\* ... add func to buffer, at its head or at its end ...
AddAppend(f) == /\ AddGoto(f, "append", "signal")
                /\ fs' = IF o.filo THEN <<f>> \o fs ELSE Append(fs, f)
                /\ UNCHANGED <<startVars, ctxVars, executed>>

\* ... signal, and wait until the func is executed if the options say so.
AddSignal(f) ==
  /\ CondFree
  /\ AddGoto(f, "signal", IF o.block /\ ~Executed(f)
                          THEN "wait" ELSE "added")
  /\ pc' = Signalled
  /\ UNCHANGED <<o, running, watcher, seen, fn, ctxVars, fs, executed>>

Reset == /\ o.resets
         /\ fs' = <<>>
         /\ UNCHANGED <<startVars, ctxVars, apc, executed>>

Add(f) == AddCheck(f) \/ AddAppend(f) \/ AddSignal(f)

\* What Chan does once it is called, and what its clients may do.
Internal == \/ \E i \in Starts : CreateCtx(i) \/ Loop(i) \/ Watch(i) \/ Panic(i)
            \/ \E f \in Funcs : Add(f)
Client == \/ \E i \in Starts : StartWins(i) \/ StartLoses(i) \/ ParentCancel(i)
          \/ Stop \/ Reset

Alive == \A i \in Starts : pc[i] # "panic"

Next == Alive /\ (Internal \/ Client \/ \E f \in Funcs : AddCall(f))

Spec == Init /\ [][Next]_vars

\* Goroutines that can run do, and funcs end. Clients need not call anything.
Fairness == /\ \A i \in Starts : WF_vars(Alive /\ (CreateCtx(i) \/ Loop(i) \/ Panic(i)))
                                  /\ WF_vars(Alive /\ Watch(i))
            /\ \A f \in Funcs : WF_vars(Alive /\ Add(f))

FairSpec == Spec /\ Fairness

-----------------------------------------------------------------------------
\* Every variable has its type.
TypeOK ==
  /\ o \in Options
  /\ running \in BOOLEAN /\ ctx \in {None} \cup Starts
  /\ cancelled \subseteq Starts
  /\ watcher \in [Starts -> {"none", "waiting", "done"}]
  /\ fs \in Seq(Funcs) /\ executed \in Seq(Funcs)
  /\ seen \in [Starts -> Nat] /\ fn \in [Starts -> Funcs \cup {NoFunc}]
  /\ pc \in [Starts -> StartStates] /\ apc \in [Funcs -> AddStates]

\* Start never sleeps on something it has to see: if it waits although the
\* buffer has a func or its context is done, a signal is still to come. The
\* code gets this from holding the cond's lock from len to Wait.
NoLostWakeup == \A i \in Starts : pc[i] = "parked" =>
  /\ fs # <<>> => \E f \in Funcs : apc[f] = "signal"
  /\ i \in cancelled => watcher[i] = "waiting"

\* FIFO order, and a client that does not call Reset.
Ordered == ~o.filo /\ ~o.resets

\* With ProcessAll, when Start returns, every func whose Add put it in the buffer
\* and signalled has been executed, whatever was added or cancelled meanwhile.
Drains == \A i \in Starts, f \in Funcs :
  o.processAll /\ Ordered /\ Return(i) /\ apc[f] \in {"wait", "added"} => Executed(f)
DrainsBeforeReturning == [][Drains]_vars

\* In an ordered chan funcs are executed one at a time, in the order
\* of the buffer, once. Nothing of the sort is claimed of other chans: there the
\* abstract state stays initial.
Executing == {fn[i] : i \in {j \in Starts : Ordered /\ pc[j] = "exec"}}
Pending == IF ~Ordered THEN <<>>
           ELSE IF \E i \in Starts : pc[i] \in {"exec", "remove"} THEN Tail(fs) ELSE fs
Finished == IF Ordered THEN executed ELSE <<>>
Serial == INSTANCE SerialQueue WITH queue <- Pending, active <- Executing, finished <- Finished
ImplementsSerialQueue == Serial!QueueSpec

\* The buffer is never indexed out of range unless the client calls Reset, and no func
\* of a blocking Add is executed twice unless the order is FILO.
CannotPanic == ~o.resets /\ ~(o.filo /\ o.block)
NeverPanics == CannotPanic => Alive

\* A Start whose context is done returns.
CancelledStartReturns == \A i \in Starts : (i \in cancelled /\ Active(i)) ~> ~Active(i)

\* A func added to an ordered chan that runs is executed unless the chan is stopped.
AddedFuncRuns == \A f \in Funcs :
  (Ordered /\ apc[f] \in {"wait", "added"} /\ running) ~> (Executed(f) \/ ~running \/ ctx \in cancelled)
-----------------------------------------------------------------------------
\* What the documentation says and the code does not do in FILO order: if
\* ProcessAll is true all funcs are processed.
AllProcessed == [][\A i \in Starts, f \in Funcs :
  o.processAll /\ Return(i) /\ apc[f] \in {"wait", "added"} => Executed(f)]_vars
=============================================================================
