------------------------------- MODULE Worker -------------------------------
(***************************************************************************)
(* Worker and Task (src/worker.go). A worker and each of its tasks have a  *)
(* WaitGroup of the tasks created under them; Stop cancels the context and *)
(* gives back the worker's own count, Wait waits for the group, once. A    *)
(* task created by hand is done when Done is called; one that is given to  *)
(* Do is done once its func ended and its group was waited for. Tasks may  *)
(* be created, and Done called, by any goroutine at any time.              *)
(***************************************************************************)
EXTENDS Naturals, FiniteSets

CONSTANTS Tasks,      \* the tasks that may be created
          Root,       \* the group of the worker
          NoGroup,    \* the parent of a task that was not created
          TaskSets    \* bound: the sets of tasks one behaviour may use

ASSUME WorkerAssumption == /\ Root \notin Tasks /\ NoGroup \notin Tasks \cup {Root}
                           /\ TaskSets \subseteq SUBSET Tasks /\ IsFiniteSet(Tasks)

Groups == Tasks \cup {Root}

VARIABLES stop,       \* Worker.os: "no", "cancelled", or "done"
          parent,     \* the group of Task.pwg
          wg,         \* the counter of the group
          waits,      \* the ow of the group and its Wait: "no", "parked", "released", "over"
          pc,         \* where each task is
          marked,     \* the tasks whose od was done
          panicked,   \* a WaitGroup panicked, and the program with it
          late,       \* history: the tasks created after their group was released
          unbound     \* history: the tasks a caller marked before their func and group ended

workerVars == <<stop, parent, wg, waits, pc, marked, panicked, late, unbound>>

TaskStates == {"unused", "none", "new", "func", "wait", "ended", "done"}

WorkerInit == /\ stop = "no" /\ panicked = FALSE
              /\ parent = [t \in Tasks |-> NoGroup]
              /\ wg = [g \in Groups |-> IF g = Root THEN 1 ELSE 0]
              /\ waits = [g \in Groups |-> "no"]
              /\ \E used \in TaskSets : pc = [t \in Tasks |-> IF t \in used THEN "none" ELSE "unused"]
              /\ marked = {} /\ late = {} /\ unbound = {}

Created == {t \in Tasks : parent[t] # NoGroup}
Cancelled == stop # "no"
Waiting(g) == waits[g] \in {"parked", "released"}
Goto(t, from, to) == pc[t] = from /\ pc' = [pc EXCEPT ![t] = to]

-----------------------------------------------------------------------------
\* newTask(parentWg), for a task that goes on at `to`.
NewTask(t, g, to) ==
  /\ Goto(t, "none", to) /\ g \in {Root} \cup Created
  /\ parent' = [parent EXCEPT ![t] = g]
  /\ wg' = [wg EXCEPT ![g] = @ + 1]
  /\ late' = IF waits[g] \in {"released", "over"} THEN late \cup {t} ELSE late
  /\ UNCHANGED <<stop, waits, marked, panicked, unbound>>

Do(t) == /\ Goto(t, "new", "func")
         /\ UNCHANGED <<stop, parent, wg, waits, marked, panicked, late, unbound>>

\* wg.Done() on a group: at zero the goroutine that waits is released.
GroupDone(g) == /\ wg' = [wg EXCEPT ![g] = @ - 1]
                /\ waits' = [waits EXCEPT ![g] = IF wg[g] = 1 /\ @ = "parked" THEN "released" ELSE @]

\* od.Do: once per task.
Mark(t) == /\ IF t \in marked THEN UNCHANGED <<wg, waits, marked>>
              ELSE GroupDone(parent[t]) /\ marked' = marked \cup {t}
           /\ UNCHANGED <<stop, parent, panicked, late>>

\* Done called by hand, on a task that was not given to Do ...
DoneByHand(t) == /\ Goto(t, "new", "done") /\ ~Waiting(t) /\ Mark(t)
                 /\ unbound' = IF waits[t] = "over" THEN unbound ELSE unbound \cup {t}

\* ... or while its func runs.
DoneEarly(t) == /\ pc[t] = "func" /\ t \notin marked /\ Mark(t)
                /\ unbound' = unbound \cup {t}
                /\ UNCHANGED pc

\* ow.Do(wg.Wait), of a worker or of a task: at once if nothing is counted.
WaitOnce(g) == /\ waits[g] = "no"
               /\ waits' = [waits EXCEPT ![g] = IF wg[g] = 0 THEN "over" ELSE "parked"]
               /\ UNCHANGED <<stop, parent, wg, pc, marked, panicked, late, unbound>>

\* The waiting goroutine goes on: a count that was used again panics.
WaitReturns(g) == /\ waits[g] = "released"
                  /\ IF wg[g] = 0 THEN /\ waits' = [waits EXCEPT ![g] = "over"]
                                       /\ UNCHANGED panicked
                     ELSE panicked' = TRUE /\ UNCHANGED waits
                  /\ UNCHANGED <<stop, parent, wg, pc, marked, late, unbound>>

\* Wait called in the func of a task, or by the goroutine that created it.
TaskWait(t) == pc[t] \in {"new", "func"} /\ WaitOnce(t)

\* The func returns ...
FuncEnds(t) == /\ Goto(t, "func", "wait") /\ ~Waiting(t)
               /\ UNCHANGED <<stop, parent, wg, waits, marked, panicked, late, unbound>>

\* ... its subtasks are waited for ...
LastWait(t) == pc[t] = "wait" /\ WaitOnce(t)

LeaveUnwaited(t) == /\ Goto(t, "wait", "ended")      \* mutant: the tasks are not waited for
                    /\ UNCHANGED <<stop, parent, wg, waits, marked, panicked, late, unbound>>

LeaveWait(t) == /\ Goto(t, "wait", "ended") /\ waits[t] = "over"
                /\ UNCHANGED <<stop, parent, wg, waits, marked, panicked, late, unbound>>

\* ... and the deferred Done marks it.
DeferredDone(t) == Goto(t, "ended", "done") /\ Mark(t) /\ UNCHANGED unbound

-----------------------------------------------------------------------------
\* Stop: os.Do(cancel, then wg.Done). A second call waits for the first.
StopCancel == /\ stop = "no" /\ stop' = "cancelled"
              /\ UNCHANGED <<parent, wg, waits, pc, marked, panicked, late, unbound>>

StopUncounted == /\ stop = "cancelled" /\ stop' = "done"     \* mutant: no wg.Done
                 /\ UNCHANGED <<parent, wg, waits, pc, marked, panicked, late, unbound>>

StopDone == /\ stop = "cancelled" /\ stop' = "done"
            /\ GroupDone(Root)
            /\ UNCHANGED <<parent, pc, marked, panicked, late, unbound>>

\* The end of a task, after its func.
TaskEnds(t) == LastWait(t) \/ LeaveWait(t) \/ DeferredDone(t)

\* What a caller may do with a task of its own.
TaskSteps(t) == \/ \E g \in Groups : g # t /\ NewTask(t, g, "new")
                \/ Do(t) \/ DoneByHand(t) \/ DoneEarly(t) \/ TaskWait(t) \/ FuncEnds(t)

WorkerSteps == StopCancel \/ StopDone \/ WaitOnce(Root) \/ \E g \in Groups : WaitReturns(g)

-----------------------------------------------------------------------------
\* Every variable of the worker has its type.
WorkerTypeOK == /\ stop \in {"no", "cancelled", "done"} /\ panicked \in BOOLEAN
                /\ parent \in [Tasks -> Groups \cup {NoGroup}] /\ wg \in [Groups -> Nat]
                /\ waits \in [Groups -> {"no", "parked", "released", "over"}]
                /\ pc \in [Tasks -> TaskStates]
                /\ marked \subseteq Tasks /\ late \subseteq Tasks /\ unbound \subseteq Tasks

\* The count of a group is the number of its tasks that are not done, plus the
\* worker until it is stopped; it is never given back twice, whoever calls Done
\* and Stop, and a WaitGroup is reused only by a task created too late.
Counted == /\ WorkerTypeOK
           /\ \A g \in Groups : wg[g] = Cardinality({t \in Tasks \ marked : parent[t] = g})
                                        + IF g = Root /\ stop # "done" THEN 1 ELSE 0
           /\ panicked => late # {}

\* Whether a wait for the worker has to wait for the task: it was created in
\* time, nobody called Done before its group was waited for, and so on upwards.
Covered[t \in Tasks] == /\ t \in Created \ (late \cup unbound)
                        /\ parent[t] = Root \/ Covered[parent[t]]

\* When Wait of the worker returns, no task created in time, at any depth, is
\* still running: the worker was stopped, their funcs returned, and so did the
\* funcs of their subtasks.
WaitCovers == waits[Root] = "over" => /\ stop = "done"
                                      /\ \A t \in Tasks : Covered[t] => pc[t] = "done"
=============================================================================
