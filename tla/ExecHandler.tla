----------------------------- MODULE ExecHandler -----------------------------
(***************************************************************************)
(* ExecHandler (src/exec.go): ExecCmd starts a process, a goroutine that   *)
(* stops it when the context of the handler is done, and a task that waits *)
(* for it. Stop and Status may be called by anybody who has the handler,   *)
(* from CmdAdapter on, and share its fields without a lock. Processes are  *)
(* external: they end by themselves or when they are told to.              *)
(***************************************************************************)
EXTENDS Worker

CONSTANT Cmds         \* the tasks that wait for a command

ASSUME ExecAssumption == Cmds \subseteq Tasks

VARIABLES cmd,        \* where ExecCmd, then the func of its task, is
          proc,       \* the process: "none", "running", "asked" to stop, "deaf" if that
                      \* failed, "good" or "bad" once ended
          hcancel,    \* h.cancel was called
          hstop,      \* ExecHandler.o: "no", "cancelled", or "done", which is h.stopped
          err,        \* h.err is set
          status,     \* where a call of Status is, or what it returned
          asof        \* history: what was already over when that call began

execVars == <<cmd, proc, hcancel, hstop, err, status, asof>>

CmdStates == {"none", "adapt", "failed", "started", "waiting", "waited"}
Answers == {"crashed", "running", "stopped"}

ExecInit == /\ cmd = [c \in Cmds |-> "none"] /\ proc = [c \in Cmds |-> "none"]
            /\ hcancel = [c \in Cmds |-> FALSE] /\ hstop = [c \in Cmds |-> "no"]
            /\ err = [c \in Cmds |-> FALSE]
            /\ status = [c \in Cmds |-> "none"] /\ asof = [c \in Cmds |-> {}]

\* h.ctx is a child of the worker's context.
CtxDone(c) == Cancelled \/ hcancel[c]
CmdGoto(c, from, to) == cmd[c] = from /\ cmd' = [cmd EXCEPT ![c] = to]
Ended(c) == proc[c] \in {"good", "bad"}

-----------------------------------------------------------------------------
\* Create the handler, which CmdAdapter may pass on.
ExecCmd(c) == /\ pc[c] = "none" /\ CmdGoto(c, "none", "adapt")
              /\ UNCHANGED <<workerVars, proc, hcancel, hstop, err, status, asof>>

\* The adapter or the start fails: the handler keeps its context.
StartFails(c) == /\ CmdGoto(c, "adapt", "failed")
                 /\ UNCHANGED <<workerVars, proc, hcancel, hstop, err, status, asof>>

Start(c) == /\ CmdGoto(c, "adapt", "started")
            /\ proc' = [proc EXCEPT ![c] = "running"]
            /\ UNCHANGED <<workerVars, hcancel, hstop, err, status, asof>>

Launch(c) == /\ CmdGoto(c, "started", "waiting")
             /\ NewTask(c, Root, "func")
             /\ UNCHANGED <<proc, hcancel, hstop, err, status, asof>>

\* The goroutine that waits for the context: kill, or call StopFunc, which may fail.
StopProcess(c) == /\ proc[c] = "running" /\ CtxDone(c)
                  /\ \E answer \in {"asked", "deaf"} : proc' = [proc EXCEPT ![c] = answer]
                  /\ UNCHANGED <<workerVars, cmd, hcancel, hstop, err, status, asof>>

\* The process ends, by itself or because it was told to.
ProcessEnds(c) == /\ proc[c] \in {"running", "asked", "deaf"}
                  /\ \E how \in {"good", "bad"} : proc' = [proc EXCEPT ![c] = how]
                  /\ UNCHANGED <<workerVars, cmd, hcancel, hstop, err, status, asof>>

\* The func of the task: h.err = cmd.Wait(), then h.cancel().
CmdWait(c) == /\ CmdGoto(c, "waiting", "waited") /\ Ended(c)
              /\ err' = [err EXCEPT ![c] = proc[c] = "bad"]
              /\ UNCHANGED <<workerVars, proc, hcancel, hstop, status, asof>>

CmdEnds(c) == /\ cmd[c] = "waited" /\ FuncEnds(c)
              /\ hcancel' = [hcancel EXCEPT ![c] = TRUE]
              /\ UNCHANGED <<cmd, proc, hstop, err, status, asof>>

\* Stop, once: cancel, then stopped.
HandlerStop(c) == /\ cmd[c] # "none"
                  /\ \/ /\ hstop[c] = "no" /\ hstop' = [hstop EXCEPT ![c] = "cancelled"]
                        /\ hcancel' = [hcancel EXCEPT ![c] = TRUE]
                     \/ /\ hstop[c] = "cancelled" /\ hstop' = [hstop EXCEPT ![c] = "done"]
                        /\ UNCHANGED hcancel
                  /\ UNCHANGED <<workerVars, cmd, proc, err, status, asof>>

\* Status reads the context, then stopped, then err.
CallStatus(c) == /\ cmd[c] # "none" /\ status[c] = "none"
                 /\ status' = [status EXCEPT ![c] = "ctx"]
                 /\ asof' = [asof EXCEPT ![c] = {x \in {"stop", "task"} :
                               IF x = "stop" THEN hstop[c] = "done"
                               ELSE cmd[c] = "waited" /\ pc[c] # "func"}]
                 /\ UNCHANGED <<workerVars, cmd, proc, hcancel, hstop, err>>

StatusGoto(c, from, to) == /\ status[c] = from /\ status' = [status EXCEPT ![c] = to]
                           /\ UNCHANGED <<workerVars, cmd, proc, hcancel, hstop, err, asof>>

ReadCtx(c) == StatusGoto(c, "ctx", IF CtxDone(c) THEN "stopped?" ELSE "running")
ReadErrOnly(c) == StatusGoto(c, "stopped?", "err?")     \* mutant: h.stopped is not looked at
ReadStopped(c) == StatusGoto(c, "stopped?", IF hstop[c] = "done" THEN "stopped" ELSE "err?")
ReadErr(c) == StatusGoto(c, "err?", IF err[c] THEN "crashed" ELSE "stopped")

Status(c) == CallStatus(c) \/ ReadCtx(c) \/ ReadStopped(c) \/ ReadErr(c)

CmdSteps(c) == \/ ExecCmd(c) \/ StartFails(c) \/ Start(c) \/ Launch(c)
               \/ StopProcess(c) \/ ProcessEnds(c) \/ CmdWait(c) \/ CmdEnds(c)
               \/ HandlerStop(c) \/ Status(c)

-----------------------------------------------------------------------------
\* Every variable of the handlers has its type.
ExecTypeOK == /\ cmd \in [Cmds -> CmdStates] /\ hcancel \in [Cmds -> BOOLEAN] /\ err \in [Cmds -> BOOLEAN]
              /\ proc \in [Cmds -> {"none", "running", "asked", "deaf", "good", "bad"}]
              /\ hstop \in [Cmds -> {"no", "cancelled", "done"}]
              /\ status \in [Cmds -> {"none", "ctx", "stopped?", "err?"} \cup Answers]
              /\ asof \in [Cmds -> SUBSET {"stop", "task"}]

\* A status that was returned is one the command had during the call: crashed
\* only after the process failed and if nobody had stopped it before, stopped
\* only if the handler or the worker was told to or the process ended well, and
\* running only if it had neither been stopped nor ended before.
StatusIsTrue == ExecTypeOK /\ \A c \in Cmds :
  /\ status[c] = "crashed" => proc[c] = "bad" /\ "stop" \notin asof[c]
  /\ status[c] = "stopped" => hstop[c] # "no" \/ Cancelled \/ proc[c] = "good"
  /\ status[c] = "running" => asof[c] = {}
=============================================================================
