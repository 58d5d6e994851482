----------------------------- MODULE WorkerTasks -----------------------------
(***************************************************************************)
(* What runs in the tasks of a worker: HandleSignals (src/worker.go), the  *)
(* server of ServeHTTP (src/http.go) and commands (ExecHandler), beside    *)
(* tasks of the caller. os/signal is external: it drops a signal that does *)
(* not fit in the channel of one; so is the HTTP server, whose Shutdown    *)
(* makes ListenAndServe return.                                            *)
(***************************************************************************)
EXTENDS ExecHandler

CONSTANTS SigTasks,   \* the task of HandleSignals
          Servers     \* the tasks of ServeHTTP

ASSUME TasksAssumption == /\ SigTasks \cup Servers \subseteq Tasks
                          /\ SigTasks \cap Servers = {} /\ Cmds \cap (SigTasks \cup Servers) = {}

VARIABLES sigs,       \* the signal in the channel: "none", "term" or another
          handling,   \* the signal the handlers were given
          srv,        \* the goroutine of ListenAndServe: "none", "called", "serving",
                      \* "sending" its error on done, or "gone"
          serve       \* the func of ServeHTTP: "none", "select", "shutdown", "down"

vars == <<workerVars, execVars, sigs, handling, srv, serve>>
sigVars == <<sigs, handling>>
srvVars == <<srv, serve>>

Init == /\ WorkerInit /\ ExecInit
        /\ sigs = "none" /\ handling = "none"
        /\ srv = [s \in Servers |-> "none"] /\ serve = [s \in Servers |-> "none"]

Own == Tasks \ (SigTasks \cup Servers \cup Cmds)

-----------------------------------------------------------------------------
\* HandleSignals: Notify, then a task.
HandleSignals(t) == NewTask(t, Root, "func") /\ UNCHANGED <<execVars, sigVars, srvVars>>

\* A signal arrives: it is dropped when the channel is full.
Deliver(s) == /\ \E t \in SigTasks : pc[t] \in {"func", "wait", "ended", "done"}
              /\ sigs = "none" /\ sigs' = s
              /\ UNCHANGED <<workerVars, execVars, handling, srvVars>>

\* The loop takes it, and calls the handlers, the first of which stops the worker ...
TakeSignal(t) == /\ pc[t] = "func" /\ handling = "none" /\ sigs # "none"
                 /\ handling' = sigs /\ sigs' = "none"
                 /\ UNCHANGED <<workerVars, execVars, srvVars>>

StopOnSignal == /\ handling = "term" /\ (StopCancel \/ StopDone)
                /\ UNCHANGED <<execVars, sigVars, srvVars>>

HandledAny(t) == /\ pc[t] = "func" /\ handling # "none"   \* mutant: the loop ends after any signal
                 /\ handling' = "none" /\ FuncEnds(t)
                 /\ UNCHANGED <<execVars, sigs, srvVars>>

\* ... and ends after a term signal.
Handled(t) == /\ pc[t] = "func" /\ handling # "none"
              /\ handling' = "none"
              /\ IF handling = "term" THEN stop = "done" /\ FuncEnds(t)
                 ELSE UNCHANGED workerVars
              /\ UNCHANGED <<execVars, sigs, srvVars>>

\* It also ends when the worker is stopped.
SignalsEnd(t) == /\ handling = "none" /\ Cancelled /\ FuncEnds(t)
                 /\ UNCHANGED <<execVars, sigVars, srvVars>>

-----------------------------------------------------------------------------
ServeGoto(s, from, to) == serve[s] = from /\ serve' = [serve EXCEPT ![s] = to]
SrvGoto(s, from, to) == srv[s] = from /\ srv' = [srv EXCEPT ![s] = to]

\* ServeHTTP: a task whose func starts the goroutine.
ServeHTTP(s) == /\ NewTask(s, Root, "func")
                /\ SrvGoto(s, "none", "called") /\ ServeGoto(s, "none", "select")
                /\ UNCHANGED <<execVars, sigVars>>

\* ListenAndServe, which does nothing once the server is shut down ...
Listen(s) == /\ SrvGoto(s, "called", IF serve[s] = "down" THEN "sending" ELSE "serving")
             /\ UNCHANGED <<workerVars, execVars, sigVars, serve>>

\* ... and which may fail at any time: the error is for the func, if it still listens.
ServeFails(s) == /\ SrvGoto(s, "serving", "sending")
                 /\ UNCHANGED <<workerVars, execVars, sigVars, serve>>

\* The func gets the error, or the context is done ...
ServeError(s) == /\ ServeGoto(s, "select", "shutdown") /\ SrvGoto(s, "sending", "gone")
                 /\ UNCHANGED <<workerVars, execVars, sigVars>>

ServeStopped(s) == /\ ServeGoto(s, "select", "shutdown") /\ Cancelled
                   /\ UNCHANGED <<workerVars, execVars, sigVars, srv>>

\* ... and shuts the server down: nobody is left to receive the goroutine's error.
Shutdown(s) == /\ ServeGoto(s, "shutdown", "down") /\ FuncEnds(s)
               /\ srv' = [srv EXCEPT ![s] = IF @ = "serving" THEN "sending" ELSE @]
               /\ UNCHANGED <<execVars, sigVars>>

-----------------------------------------------------------------------------
SignalSteps(t) == HandleSignals(t) \/ TakeSignal(t) \/ Handled(t) \/ SignalsEnd(t)
ServerSteps(s) == \/ ServeHTTP(s) \/ Listen(s) \/ ServeFails(s)
                  \/ ServeError(s) \/ ServeStopped(s) \/ Shutdown(s)

Next == /\ ~panicked
        /\ \/ /\ \/ WorkerSteps
                 \/ \E t \in Tasks : TaskEnds(t)
                 \/ \E t \in Own : TaskSteps(t)
              /\ UNCHANGED <<execVars, sigVars, srvVars>>
           \/ \E c \in Cmds : CmdSteps(c) /\ UNCHANGED <<sigVars, srvVars>>
           \/ \E s \in {"term", "other"} : Deliver(s)
           \/ StopOnSignal
           \/ \E t \in SigTasks : SignalSteps(t)
           \/ \E s \in Servers : ServerSteps(s)

Spec == Init /\ [][Next]_vars

Alive(A) == ~panicked /\ A /\ UNCHANGED <<execVars, sigVars, srvVars>>

\* Goroutines that can run do, funcs of the caller return and a task that was
\* created is given to Do or marked; a process that was told to stop ends. A select
\* picks at random, so signals do not keep the loop from the end of the context.
Fairness ==
  /\ WF_vars(Alive(StopDone)) /\ WF_vars(~panicked /\ StopOnSignal)
  /\ \A g \in Groups : WF_vars(Alive(WaitReturns(g)))
  /\ \A t \in Tasks : WF_vars(Alive(TaskEnds(t)))
  /\ \A t \in Own : WF_vars(Alive(Do(t) \/ DoneByHand(t))) /\ WF_vars(Alive(FuncEnds(t)))
  /\ \A t \in SigTasks : /\ WF_vars(~panicked /\ (TakeSignal(t) \/ Handled(t)))
                         /\ SF_vars(~panicked /\ SignalsEnd(t))
  /\ \A s \in Servers : WF_vars(~panicked /\ (ServeError(s) \/ ServeStopped(s) \/ Shutdown(s)))
  /\ \A c \in Cmds : /\ WF_vars(~panicked /\ UNCHANGED <<sigVars, srvVars>>
                                /\ (Launch(c) \/ StopProcess(c) \/ CmdWait(c) \/ CmdEnds(c)))
                     /\ WF_vars(~panicked /\ UNCHANGED <<sigVars, srvVars>>
                                /\ proc[c] = "asked" /\ ProcessEnds(c))

FairSpec == Spec /\ Fairness

-----------------------------------------------------------------------------
\* The tasks of the library leave nothing behind: once its task is done a server
\* does not serve any more, and a command has ended.
NothingServes == /\ \A s \in Servers : pc[s] = "done" => srv[s] # "serving"
                 /\ \A c \in Cmds : pc[c] = "done" => Ended(c)

\* Nothing outlives the Wait of a worker (src/worker.go:67-81, 107-148): the counts are
\* those of the tasks that are not done, the wait covers every task created in time
\* at any depth, and what the tasks of the library started has ended with them.
NothingOutlives == Counted /\ WaitCovers /\ NothingServes

\* Wait returns once the worker is stopped, by Stop or by a signal: whatever
\* commands and servers were doing, unless a process could not be told to stop.
WaitEnds == (waits[Root] = "parked" /\ stop = "done")
              ~> (waits[Root] = "over" \/ panicked \/ \E c \in Cmds : proc[c] = "deaf")

\* A term signal that got into the channel stops the worker, even when others
\* came first.
TermStops == sigs = "term" ~> (stop = "done" \/ panicked)
=============================================================================
