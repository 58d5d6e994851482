---------------------------- MODULE Worker_proofs ----------------------------
(***************************************************************************)
(* For every finite set of tasks and every tree they are created in: the   *)
(* counts of a worker and its tasks, what its Wait covers, what the tasks  *)
(* of the library leave behind, and what the status of a command says.     *)
(***************************************************************************)
EXTENDS WorkerTasks, FiniteSetTheorems, TLAPS

\* The tasks a group is counting, and what the worker itself adds to its count.
Owing(g) == {t \in Tasks \ marked : parent[t] = g}
OwnCount(g) == IF g = Root /\ stop # "done" THEN 1 ELSE 0
Counts == \A g \in Groups : wg[g] = Cardinality(Owing(g)) + OwnCount(g)

\* A task that was created has a group, which exists, and nobody marks it before.
Born == \A t \in Tasks : /\ pc[t] \in {"unused", "none"} <=> parent[t] = NoGroup
                         /\ pc[t] \in {"unused", "none", "new"} => t \notin marked
                         /\ t \in Created => parent[t] \in {Root} \cup Created

\* Tasks are not created in a circle.
Founded == \A S \in SUBSET Created : S # {} => \E t \in S : parent[t] \notin S

\* The count of a group that was waited for was zero: who still has to be marked
\* was created after that.
Over(g) == waits[g] \in {"released", "over"}
Released == \A g \in Groups : Over(g) => /\ g = Root => stop = "done"
                                         /\ Owing(g) \subseteq late

\* A task is marked after its group was waited for, unless a caller was faster.
Bound == \A t \in Tasks : /\ pc[t] = "ended" => waits[t] = "over"
                          /\ t \in marked \ unbound => pc[t] = "done" /\ waits[t] = "over"

WorkerInv == /\ WorkerTypeOK /\ Counts /\ Born /\ Founded /\ Released /\ Bound
             /\ panicked => late # {}

\* Every step of a worker, whoever takes it.
WorkerStep == \/ WorkerSteps
              \/ \E t \in Tasks : \/ TaskEnds(t)
                                  \/ \E g \in Groups, to \in {"new", "func"} : g # t /\ NewTask(t, g, to)
                                  \/ Do(t) \/ DoneByHand(t) \/ DoneEarly(t) \/ TaskWait(t) \/ FuncEnds(t)
              \/ UNCHANGED workerVars

LEMMA Names == /\ Root \in Groups /\ Root \notin Tasks /\ NoGroup \notin Groups
               /\ \A t \in Tasks : t \in Groups
               /\ IsFiniteSet(Tasks)
BY WorkerAssumption DEF Groups

\* What the library does to a worker is steps of the worker.
LEMMA NextWorkerStep == [Next]_vars => WorkerStep
<1> SUFFICES ASSUME [Next]_vars PROVE WorkerStep OBVIOUS
<1> USE ExecAssumption, TasksAssumption, Names DEF WorkerStep
<1>1. CASE WorkerSteps BY <1>1
<1>2. CASE \E t \in Tasks : TaskEnds(t) BY <1>2
<1>3. CASE \E t \in Own : TaskSteps(t) BY <1>3 DEF TaskSteps, Own
<1>4. CASE \E c \in Cmds : CmdSteps(c)
  BY <1>4 DEF CmdSteps, ExecCmd, StartFails, Start, Launch, StopProcess, ProcessEnds, CmdWait, CmdEnds,
              HandlerStop, Status, CallStatus, ReadCtx, ReadStopped, ReadErr, StatusGoto
<1>5. CASE \E s \in {"term", "other"} : Deliver(s) BY <1>5 DEF Deliver
<1>6. CASE StopOnSignal BY <1>6 DEF StopOnSignal, WorkerSteps
<1>7. CASE \E t \in SigTasks : SignalSteps(t)
  BY <1>7 DEF SignalSteps, HandleSignals, TakeSignal, Handled, SignalsEnd
<1>8. CASE \E s \in Servers : ServerSteps(s)
  BY <1>8 DEF ServerSteps, ServeHTTP, Listen, ServeFails, ServeError, ServeStopped, Shutdown
<1>9. CASE UNCHANGED vars BY <1>9 DEF vars
<1>10. QED BY <1>1, <1>2, <1>3, <1>4, <1>5, <1>6, <1>7, <1>8, <1>9 DEF Next

-----------------------------------------------------------------------------
\* The tasks of a group are finitely many; a step adds one to them or takes one.
LEMMA OwingFinite == ASSUME NEW g PROVE IsFiniteSet(Owing(g)) /\ Cardinality(Owing(g)) \in Nat
<1>1. Owing(g) \subseteq Tasks BY DEF Owing
<1>2. QED BY <1>1, Names, FS_Subset, FS_CardinalityType

\* At zero nobody is counted.
LEMMA ZeroCount == ASSUME WorkerTypeOK, Counts, NEW g \in Groups, wg[g] = 0
                   PROVE Owing(g) = {} /\ (g = Root => stop = "done")
<1>1. Cardinality(Owing(g)) + OwnCount(g) = 0 BY DEF Counts
<1>2. Cardinality(Owing(g)) = 0 /\ OwnCount(g) = 0 BY <1>1, OwingFinite DEF OwnCount
<1>3. Owing(g) = {} BY <1>2, OwingFinite, FS_EmptySet
<1>4. QED BY <1>2, <1>3 DEF OwnCount

LEMMA WorkerInitInv == Init => WorkerInv
<1> SUFFICES ASSUME Init PROVE WorkerInv OBVIOUS
<1> USE Names DEF Init, WorkerInit
<1>1. WorkerTypeOK BY DEF WorkerTypeOK, TaskStates
<1>2. Created = {} BY DEF Created
<1>3. \A g \in Groups : Owing(g) = {} BY DEF Owing
<1>4. Counts BY <1>3, FS_EmptySet DEF Counts, OwnCount
<1>5. Born BY <1>2 DEF Born
<1>6. Founded BY <1>2 DEF Founded
<1>7. Released /\ Bound BY DEF Released, Over, Bound
<1>8. QED BY <1>1, <1>4, <1>5, <1>6, <1>7 DEF WorkerInv

\* Steps that leave the groups and the counts alone.
LEMMA SameCounts ==
  ASSUME WorkerTypeOK, Counts, UNCHANGED <<wg, parent, marked>>, stop' = "done" <=> stop = "done"
  PROVE  Counts' /\ (\A g \in Groups : Owing(g)' = Owing(g))
BY DEF Counts, Owing, OwnCount

LEMMA NewTaskInv ==
  ASSUME WorkerInv, NEW t \in Tasks, NEW g \in Groups, NEW to \in {"new", "func"}, g # t, NewTask(t, g, to)
  PROVE  WorkerInv'
<1> USE Names DEF WorkerInv
<1>1. /\ pc[t] = "none" /\ parent[t] = NoGroup /\ t \notin marked /\ t \notin Created
      /\ g \in {Root} \cup Created
  BY DEF NewTask, Goto, Born, Created
<1>2. WorkerTypeOK' BY DEF NewTask, Goto, WorkerTypeOK, TaskStates
<1>3. /\ parent' = [parent EXCEPT ![t] = g] /\ marked' = marked /\ stop' = stop /\ waits' = waits
      /\ late' = (IF Over(g) THEN late \cup {t} ELSE late)
  BY DEF NewTask, Over
<1>4. Owing(g)' = Owing(g) \cup {t} /\ t \notin Owing(g)
  BY <1>1, <1>3 DEF Owing, WorkerTypeOK
<1>5. \A h \in Groups \ {g} : Owing(h)' = Owing(h)
  BY <1>1, <1>3 DEF Owing, WorkerTypeOK
<1>6. Counts'
  <2>1. Cardinality(Owing(g)') = Cardinality(Owing(g)) + 1 BY <1>4, OwingFinite, FS_AddElement
  <2>2. \A h \in Groups : wg'[h] = IF h = g THEN wg[h] + 1 ELSE wg[h] BY DEF NewTask, WorkerTypeOK
  <2>3. wg'[g] = Cardinality(Owing(g)') + OwnCount(g)'
    BY <2>1, <2>2, <1>3, OwingFinite DEF Counts, OwnCount
  <2>4. ASSUME NEW h \in Groups, h # g PROVE wg'[h] = Cardinality(Owing(h)') + OwnCount(h)'
    BY <2>2, <2>4, <1>3, <1>5 DEF Counts, OwnCount
  <2>5. QED BY <2>3, <2>4 DEF Counts
<1>7. Created' = Created \cup {t}
  BY <1>1, <1>3 DEF Created, WorkerTypeOK
<1>8. Born'
  <2>1. \A u \in Tasks \ {t} : pc'[u] = pc[u] /\ parent'[u] = parent[u]
    BY <1>3 DEF NewTask, Goto, WorkerTypeOK
  <2>2. pc'[t] = to /\ parent'[t] = g BY <1>3 DEF NewTask, Goto, WorkerTypeOK
  <2>3. QED BY <2>1, <2>2, <1>1, <1>3, <1>7 DEF Born
<1>9. Founded'
  <2> SUFFICES ASSUME NEW S \in SUBSET (Created'), S # {} PROVE \E u \in S : parent'[u] \notin S
    BY DEF Founded
  <2>1. CASE S = {t} BY <2>1, <1>1, <1>3 DEF WorkerTypeOK
  <2>2. CASE S # {t}
    <3>1. S \ {t} \in SUBSET Created /\ S \ {t} # {} BY <2>2, <1>7
    <3>2. PICK u \in S \ {t} : parent[u] \notin S \ {t} BY <3>1 DEF Founded
    <3>3. u \in Created /\ parent[u] # t BY <3>1, <3>2, <1>1 DEF Born, Created
    <3>4. parent'[u] = parent[u] BY <3>2, <3>3, <1>3 DEF WorkerTypeOK, Created
    <3>5. QED BY <3>2, <3>3, <3>4
  <2>3. QED BY <2>1, <2>2
<1>10. Released' BY <1>3, <1>4, <1>5 DEF Released, Over
<1>11. Bound' BY <1>3 DEF Bound, NewTask, Goto, WorkerTypeOK
<1>12. (panicked => late # {})' BY <1>3 DEF NewTask
<1>13. QED BY <1>2, <1>6, <1>8, <1>9, <1>10, <1>11, <1>12

\* A mark takes the task out of the count of its group, once; who takes the last
\* one out releases whoever waits.
LEMMA MarkInv ==
  ASSUME WorkerInv, NEW t \in Tasks, pc[t] \in {"new", "func", "ended"}, Mark(t),
         (pc[t] = "func" /\ pc' = pc) \/ pc' = [pc EXCEPT ![t] = "done"],
         unbound' \in {unbound, unbound \cup {t}}, t \in unbound' \/ (pc'[t] = "done" /\ waits[t] = "over")
  PROVE  WorkerInv'
<1> USE Names DEF WorkerInv
<1>1. /\ parent[t] \in Groups /\ parent' = parent /\ stop' = stop /\ late' = late /\ panicked' = panicked
      /\ marked' = marked \cup {t}
  BY DEF Mark, Born, Created, WorkerTypeOK, Groups
<1>2. /\ pc' \in [Tasks -> TaskStates]
      /\ \A u \in Tasks : pc'[u] = pc[u] \/ (u = t /\ pc'[u] = "done")
      /\ pc'[t] \in {"func", "done"}
  BY DEF WorkerTypeOK, TaskStates
<1>3. Born' BY <1>1, <1>2 DEF Born, Created
<1>4. Founded' BY <1>1 DEF Founded, Created
<1>5. CASE t \in marked
  <2>1. UNCHANGED <<wg, waits, marked>> BY <1>5 DEF Mark
  <2>2. Counts' /\ (\A g \in Groups : Owing(g)' = Owing(g)) BY <1>1, <2>1, SameCounts
  <2>3. Released' BY <2>1, <2>2, <1>1 DEF Released, Over
  <2>4. Bound' BY <2>1, <1>1, <1>2, <1>5 DEF Bound
  <2>5. WorkerTypeOK' BY <1>1, <1>2, <2>1 DEF WorkerTypeOK
  <2>6. QED BY <1>1, <1>3, <1>4, <2>2, <2>3, <2>4, <2>5
<1>6. CASE t \notin marked
  <2>0. PICK g \in Groups : g = parent[t] BY <1>1
  <2>1. /\ wg' = [wg EXCEPT ![g] = @ - 1]
        /\ waits' = [waits EXCEPT ![g] = IF wg[g] = 1 /\ @ = "parked" THEN "released" ELSE @]
    BY <1>6, <2>0 DEF Mark, GroupDone
  <2>2. t \in Owing(g) /\ Owing(g)' = Owing(g) \ {t} BY <1>1, <1>6, <2>0 DEF Owing
  <2>3. \A h \in Groups \ {g} : Owing(h)' = Owing(h) BY <1>1, <2>0 DEF Owing
  <2>4. Cardinality(Owing(g)') = Cardinality(Owing(g)) - 1 /\ Cardinality(Owing(g)') \in Nat
    <3>1. IsFiniteSet(Owing(g)') BY <2>2, OwingFinite, FS_RemoveElement
    <3>2. QED BY <2>2, <3>1, OwingFinite, FS_RemoveElement, FS_CardinalityType
  <2>5. wg[g] = Cardinality(Owing(g)) + OwnCount(g) /\ OwnCount(g) \in Nat BY <1>1 DEF Counts, OwnCount
  <2>6. wg[g] - 1 \in Nat BY <2>4, <2>5, OwingFinite
  <2>7. WorkerTypeOK' BY <1>1, <1>2, <2>1, <2>6 DEF WorkerTypeOK
  <2>8. Counts'
    <3>1. OwnCount(g)' = OwnCount(g) /\ wg'[g] = wg[g] - 1 BY <1>1, <2>1 DEF OwnCount, WorkerTypeOK
    <3>2. wg'[g] = Cardinality(Owing(g)') + OwnCount(g)' BY <3>1, <2>4, <2>5, OwingFinite
    <3>3. ASSUME NEW h \in Groups, h # g PROVE wg'[h] = Cardinality(Owing(h)') + OwnCount(h)'
      BY <3>3, <2>1, <2>3, <1>1 DEF Counts, OwnCount, WorkerTypeOK
    <3>4. QED BY <3>2, <3>3 DEF Counts
  <2>9. Released'
    <3> SUFFICES ASSUME NEW h \in Groups, Over(h)'
                 PROVE  (h = Root => stop' = "done") /\ Owing(h)' \subseteq late'
      BY DEF Released
    <3>1. CASE Over(h)
      BY <3>1, <1>1, <2>2, <2>3 DEF Released
    <3>2. CASE ~Over(h)
      <4>1. h = g /\ wg[g] = 1 BY <3>2, <2>1 DEF Over, WorkerTypeOK
      <4>2. wg'[g] = 0 BY <4>1, <2>1 DEF WorkerTypeOK
      <4>3. Owing(g)' = {} /\ (g = Root => stop' = "done")
        <5>1. Cardinality(Owing(g)') = 0 /\ OwnCount(g) = 0 BY <2>4, <2>5, <4>1, OwingFinite
        <5>2. IsFiniteSet(Owing(g)') BY <2>2, OwingFinite, FS_RemoveElement
        <5>3. QED BY <5>1, <5>2, <1>1, FS_EmptySet DEF OwnCount
      <4>4. QED BY <4>1, <4>3
    <3>3. QED BY <3>1, <3>2
  <2>10. Bound'
    <3>1. \A h \in Groups : waits[h] = "over" => waits'[h] = "over" BY <2>1 DEF WorkerTypeOK
    <3>2. QED BY <3>1, <1>1, <1>2, <1>6 DEF Bound
  <2>11. QED BY <1>1, <1>3, <1>4, <2>7, <2>8, <2>9, <2>10
<1>7. QED BY <1>5, <1>6

LEMMA StopInv == ASSUME WorkerInv, StopCancel \/ StopDone PROVE WorkerInv'
<1> USE Names DEF WorkerInv
<1>1. CASE StopCancel
  <2>1. UNCHANGED <<parent, wg, waits, pc, marked, panicked, late, unbound>> /\ stop = "no" /\ stop' = "cancelled"
    BY <1>1 DEF StopCancel
  <2>2. Counts' /\ (\A g \in Groups : Owing(g)' = Owing(g)) BY <2>1, SameCounts
  <2>3. WorkerTypeOK' BY <2>1 DEF WorkerTypeOK
  <2>4. Born' /\ Founded' /\ Bound' BY <2>1 DEF Born, Founded, Bound, Created
  <2>5. Released' BY <2>1, <2>2 DEF Released, Over
  <2>6. QED BY <2>1, <2>2, <2>3, <2>4, <2>5
<1>2. CASE StopDone
  <2>1. /\ UNCHANGED <<parent, pc, marked, panicked, late, unbound>> /\ stop = "cancelled" /\ stop' = "done"
        /\ wg' = [wg EXCEPT ![Root] = @ - 1]
        /\ waits' = [waits EXCEPT ![Root] = IF wg[Root] = 1 /\ @ = "parked" THEN "released" ELSE @]
    BY <1>2 DEF StopDone, GroupDone
  <2>2. \A g \in Groups : Owing(g)' = Owing(g) BY <2>1 DEF Owing
  <2>3. wg[Root] = Cardinality(Owing(Root)) + 1 /\ ~Over(Root)
    BY <2>1 DEF Counts, OwnCount, Released
  <2>4. WorkerTypeOK'
    <3>1. wg[Root] - 1 \in Nat BY <2>3, OwingFinite
    <3>2. QED BY <2>1, <3>1 DEF WorkerTypeOK
  <2>5. Counts' BY <2>1, <2>2, <2>3, OwingFinite DEF Counts, OwnCount, WorkerTypeOK
  <2>6. Released'
    <3> SUFFICES ASSUME NEW h \in Groups, Over(h)' PROVE Owing(h)' \subseteq late'
      BY <2>1 DEF Released
    <3>1. CASE h # Root BY <3>1, <2>1, <2>2 DEF Released, Over, WorkerTypeOK
    <3>2. CASE h = Root
      <4>1. wg[Root] = 1 BY <3>2, <2>1, <2>3 DEF Over, WorkerTypeOK
      <4>2. Owing(Root) = {} BY <4>1, <2>3, OwingFinite, FS_EmptySet
      <4>3. QED BY <4>2, <3>2, <2>2
    <3>3. QED BY <3>1, <3>2
  <2>7. Born' /\ Founded' BY <2>1 DEF Born, Founded, Created
  <2>8. Bound' BY <2>1 DEF Bound, WorkerTypeOK
  <2>9. QED BY <2>1, <2>4, <2>5, <2>6, <2>7, <2>8
<1>3. QED BY <1>1, <1>2

\* A wait ends at zero, and panics only if a task was created too late.
LEMMA WaitInv == ASSUME WorkerInv, NEW g \in Groups, WaitOnce(g) \/ WaitReturns(g) PROVE WorkerInv'
<1> USE Names DEF WorkerInv
<1>1. UNCHANGED <<stop, parent, wg, pc, marked, late, unbound>> BY DEF WaitOnce, WaitReturns
<1>2. Counts' /\ (\A h \in Groups : Owing(h)' = Owing(h)) BY <1>1, SameCounts
<1>3. WorkerTypeOK' BY <1>1 DEF WaitOnce, WaitReturns, WorkerTypeOK
<1>4. Born' /\ Founded' BY <1>1 DEF Born, Founded, Created
<1>5. Bound' BY <1>1 DEF Bound, WaitOnce, WaitReturns, WorkerTypeOK
<1>6. Released'
  <2>1. \A h \in Groups \ {g} : Over(h)' = Over(h) BY DEF WaitOnce, WaitReturns, WorkerTypeOK, Over
  <2>2. Over(g)' => Over(g) \/ wg[g] = 0 BY DEF WaitOnce, WaitReturns, WorkerTypeOK, Over
  <2>3. wg[g] = 0 => Owing(g) = {} /\ (g = Root => stop = "done") BY ZeroCount
  <2>4. QED BY <1>1, <1>2, <2>1, <2>2, <2>3 DEF Released
<1>7. (panicked => late # {})'
  <2>1. CASE panicked' = panicked BY <2>1, <1>1
  <2>2. CASE panicked' # panicked
    <3>1. Over(g) /\ wg[g] # 0 BY <2>2 DEF WaitOnce, WaitReturns, Over
    <3>2. wg[g] = Cardinality(Owing(g)) + OwnCount(g) /\ OwnCount(g) = 0
      BY <3>1 DEF Counts, OwnCount, Released
    <3>3. Owing(g) # {} BY <3>1, <3>2, FS_EmptySet
    <3>4. QED BY <3>1, <3>3, <1>1 DEF Released
  <2>3. QED BY <2>1, <2>2
<1>8. QED BY <1>2, <1>3, <1>4, <1>5, <1>6, <1>7

\* A task moves on without a mark.
LEMMA MoveInv ==
  ASSUME WorkerInv, NEW t \in Tasks, Do(t) \/ FuncEnds(t) \/ LeaveWait(t)
  PROVE  WorkerInv'
<1> USE Names DEF WorkerInv
<1>1. UNCHANGED <<stop, parent, wg, waits, marked, panicked, late, unbound>> BY DEF Do, FuncEnds, LeaveWait
<1>2. Counts' /\ (\A h \in Groups : Owing(h)' = Owing(h)) BY <1>1, SameCounts
<1>3. /\ pc' \in [Tasks -> TaskStates] /\ \A u \in Tasks \ {t} : pc'[u] = pc[u]
      /\ pc[t] \in {"new", "func", "wait"} /\ pc'[t] \in {"func", "wait", "ended"}
      /\ pc'[t] = "ended" => waits[t] = "over"
  BY DEF Do, FuncEnds, LeaveWait, Goto, WorkerTypeOK, TaskStates
<1>4. WorkerTypeOK' BY <1>1, <1>3 DEF WorkerTypeOK
<1>5. Born' /\ Founded' BY <1>1, <1>3 DEF Born, Founded, Created
<1>6. Released' BY <1>1, <1>2 DEF Released, Over
<1>7. Bound' BY <1>1, <1>3 DEF Bound
<1>8. QED BY <1>1, <1>2, <1>4, <1>5, <1>6, <1>7

LEMMA WorkerNextInv == WorkerInv /\ [Next]_vars => WorkerInv'
<1> SUFFICES ASSUME WorkerInv, WorkerStep PROVE WorkerInv' BY NextWorkerStep
<1>t. WorkerTypeOK /\ Bound BY DEF WorkerInv
<1>1. CASE WorkerSteps BY <1>1, StopInv, WaitInv, Names DEF WorkerSteps
<1>2. ASSUME NEW t \in Tasks, TaskEnds(t) PROVE WorkerInv'
  <2>1. CASE LastWait(t) BY <2>1, WaitInv, Names DEF LastWait
  <2>2. CASE LeaveWait(t) BY <2>2, MoveInv
  <2>3. CASE DeferredDone(t)
    <3>1. pc[t] = "ended" /\ Mark(t) /\ pc' = [pc EXCEPT ![t] = "done"] /\ unbound' = unbound
      BY <2>3 DEF DeferredDone, Goto
    <3>2. pc'[t] = "done" /\ waits[t] = "over" BY <3>1, <1>t DEF Bound, WorkerTypeOK
    <3>3. QED BY <3>1, <3>2, MarkInv
  <2>4. QED BY <1>2, <2>1, <2>2, <2>3 DEF TaskEnds
<1>3. ASSUME NEW t \in Tasks, NEW g \in Groups, NEW to \in {"new", "func"}, g # t, NewTask(t, g, to)
      PROVE WorkerInv'
  BY <1>3, NewTaskInv
<1>4. ASSUME NEW t \in Tasks, Do(t) \/ FuncEnds(t) PROVE WorkerInv' BY <1>4, MoveInv
<1>5. ASSUME NEW t \in Tasks, DoneByHand(t) PROVE WorkerInv'
  <2>1. /\ pc[t] = "new" /\ Mark(t) /\ pc' = [pc EXCEPT ![t] = "done"]
        /\ unbound' = (IF waits[t] = "over" THEN unbound ELSE unbound \cup {t})
    BY <1>5 DEF DoneByHand, Goto
  <2>2. t \in unbound' \/ (pc'[t] = "done" /\ waits[t] = "over") BY <2>1, <1>t DEF WorkerTypeOK
  <2>3. QED BY <2>1, <2>2, MarkInv
<1>6. ASSUME NEW t \in Tasks, DoneEarly(t) PROVE WorkerInv'
  <2>1. pc[t] = "func" /\ Mark(t) /\ pc' = pc /\ unbound' = unbound \cup {t} BY <1>6 DEF DoneEarly
  <2>2. QED BY <2>1, MarkInv
<1>7. ASSUME NEW t \in Tasks, TaskWait(t) PROVE WorkerInv' BY <1>7, WaitInv, Names DEF TaskWait
<1>8. CASE UNCHANGED workerVars
  <2>1. Counts' /\ (\A h \in Groups : Owing(h)' = Owing(h))
    BY <1>8, SameCounts DEF workerVars, WorkerInv
  <2>2. QED BY <1>8, <2>1 DEF workerVars, WorkerInv, WorkerTypeOK, Born, Founded, Released, Bound, Created, Over
<1>9. QED BY <1>1, <1>2, <1>3, <1>4, <1>5, <1>6, <1>7, <1>8 DEF WorkerStep

LEMMA WorkerInductive == Spec => []WorkerInv
BY WorkerInitInv, WorkerNextInv, PTL DEF Spec

-----------------------------------------------------------------------------
\* The tasks that are in time themselves, and a set of them that holds every
\* ancestor of its members up to the worker.
InTime == Created \ (late \cup unbound)
UpwardClosed(S) == \A t \in S : t \in InTime /\ (parent[t] = Root \/ parent[t] \in S)

\* The recursive definition of Covered has a solution: the tasks of some such set.
LEMMA CoveredExists ==
  ASSUME Born
  PROVE  \E f : f = [t \in Tasks |-> t \in InTime /\ (parent[t] = Root \/ f[parent[t]])]
<1> DEFINE f == [t \in Tasks |-> \E S \in SUBSET Tasks : t \in S /\ UpwardClosed(S)]
           G == [t \in Tasks |-> t \in InTime /\ (parent[t] = Root \/ f[parent[t]])]
<1>1. ASSUME NEW t \in Tasks PROVE f[t] <=> (t \in InTime /\ (parent[t] = Root \/ f[parent[t]]))
  <2>1. ASSUME f[t] PROVE t \in InTime /\ (parent[t] = Root \/ f[parent[t]])
    <3>1. PICK S \in SUBSET Tasks : t \in S /\ UpwardClosed(S) BY <2>1
    <3>2. t \in InTime /\ (parent[t] = Root \/ parent[t] \in S) BY <3>1 DEF UpwardClosed
    <3>3. parent[t] \in S => f[parent[t]] BY <3>1
    <3>4. QED BY <3>2, <3>3
  <2>2. ASSUME t \in InTime, parent[t] = Root PROVE f[t]
    <3>1. UpwardClosed({t}) BY <2>2 DEF UpwardClosed
    <3>2. QED BY <3>1
  <2>3. ASSUME t \in InTime, parent[t] \in Tasks, f[parent[t]] PROVE f[t]
    <3>1. PICK S \in SUBSET Tasks : parent[t] \in S /\ UpwardClosed(S) BY <2>3
    <3>2. UpwardClosed(S \cup {t}) BY <2>3, <3>1 DEF UpwardClosed
    <3>3. QED BY <3>2
  <2>4. t \in InTime => parent[t] = Root \/ parent[t] \in Tasks BY DEF InTime, Born, Created
  <2>5. QED BY <2>1, <2>2, <2>3, <2>4
<1>2. QED BY <1>1

LEMMA CoveredDef ==
  ASSUME Born, NEW t \in Tasks, Covered[t]
  PROVE  t \in InTime /\ (parent[t] = Root \/ Covered[parent[t]])
<1>1. Covered = [u \in Tasks |-> u \in InTime /\ (parent[u] = Root \/ Covered[parent[u]])]
  BY CoveredExists DEF Covered, InTime
<1>2. QED BY <1>1

\* A task below a group that was waited for is done, and so are those below it: a
\* task that is not would have an ancestor that is the first that is not.
LEMMA WaitIsDeep == ASSUME WorkerInv PROVE WaitCovers
<1> USE DEF WorkerInv
<1> SUFFICES ASSUME waits[Root] = "over" PROVE stop = "done" /\ \A t \in Tasks : Covered[t] => pc[t] = "done"
  BY DEF WaitCovers
<1>1. stop = "done" BY Names DEF Released, Over
<1> DEFINE Left == {t \in Tasks : Covered[t] /\ ~(pc[t] = "done" /\ waits[t] = "over")}
<1>2. Left = {}
  <2> SUFFICES ASSUME Left # {} PROVE FALSE OBVIOUS
  <2>1. Left \in SUBSET Created BY CoveredDef DEF InTime
  <2>2. PICK t \in Left : parent[t] \notin Left BY <2>1 DEF Founded
  <2>3. t \in Tasks /\ t \in InTime /\ (parent[t] = Root \/ Covered[parent[t]]) BY <2>2, CoveredDef
  <2>4. parent[t] \in {Root} \cup Created BY <2>3 DEF Born, InTime
  <2>5. parent[t] \in Groups /\ waits[parent[t]] = "over"
    BY <2>2, <2>3, <2>4, Names DEF Groups, Created
  <2>6. t \in marked BY <2>3, <2>5 DEF Released, Over, Owing, InTime
  <2>7. pc[t] = "done" /\ waits[t] = "over" BY <2>3, <2>6 DEF Bound, InTime
  <2>8. QED BY <2>2, <2>7
<1>3. QED BY <1>1, <1>2

-----------------------------------------------------------------------------
\* The task of a command and its handler: the func runs while the command waits, its
\* end cancels the handler, which leaves the error of the process.
CmdInv == \A c \in Cmds :
  /\ cmd[c] \in {"none", "adapt"} => proc[c] = "none"
  /\ cmd[c] \in {"none", "adapt", "failed", "started"} => pc[c] \in {"unused", "none"}
  /\ cmd[c] = "waiting" => pc[c] = "func"
  /\ cmd[c] = "waited" => /\ pc[c] \in {"func", "wait", "ended", "done"}
                          /\ Ended(c) /\ (err[c] <=> proc[c] = "bad")
                          /\ pc[c] # "func" => hcancel[c]
  /\ err[c] => cmd[c] = "waited"
  /\ hstop[c] # "no" => hcancel[c]
  /\ hcancel[c] => hstop[c] # "no" \/ cmd[c] = "waited"

\* What a call of Status in progress knows: what was over when it began still is, and
\* it goes past the context only if that was done, and past stopped if that was not set.
StatusInv == \A c \in Cmds :
  /\ "stop" \in asof[c] => hstop[c] = "done"
  /\ "task" \in asof[c] => hcancel[c]
  /\ status[c] \in {"stopped?", "err?"} => CtxDone(c)
  /\ status[c] = "err?" => "stop" \notin asof[c]

ExecInv == StatusIsTrue /\ CmdInv /\ StatusInv

LEMMA ExecInitInv == Init => ExecInv
BY WorkerAssumption, ExecAssumption
   DEF Init, WorkerInit, ExecInit, ExecInv, ExecTypeOK, StatusIsTrue, CmdInv, StatusInv, CmdStates, Answers,
       Ended, CtxDone, Cancelled

\* The others only take a command's task from its func's end to its own.
LEMMA OthersLeaveCmds ==
  ASSUME WorkerTypeOK, [Next]_vars, ~ \E c \in Cmds : CmdSteps(c)
  PROVE  /\ UNCHANGED execVars
         /\ Cancelled => Cancelled'
         /\ \A c \in Cmds : pc'[c] = pc[c] \/ (pc[c] \in {"wait", "ended"} /\ pc'[c] \in {"ended", "done"})
<1> DEFINE Kept == /\ Cancelled => Cancelled'
                   /\ \A c \in Cmds : pc'[c] = pc[c] \/ (pc[c] \in {"wait", "ended"} /\ pc'[c] \in {"ended", "done"})
<1> USE ExecAssumption, TasksAssumption
<1>1. CASE WorkerSteps /\ UNCHANGED <<execVars, sigVars, srvVars>>
  BY <1>1 DEF WorkerSteps, StopCancel, StopDone, WaitOnce, WaitReturns, Cancelled
<1>2. ASSUME NEW t \in Tasks, TaskEnds(t), UNCHANGED <<execVars, sigVars, srvVars>> PROVE Kept /\ UNCHANGED execVars
  BY <1>2 DEF TaskEnds, LastWait, WaitOnce, LeaveWait, DeferredDone, Mark, Goto, Cancelled, WorkerTypeOK
<1>3. ASSUME NEW t \in Own, TaskSteps(t), UNCHANGED <<execVars, sigVars, srvVars>> PROVE Kept /\ UNCHANGED execVars
  BY <1>3 DEF Own, TaskSteps, NewTask, Do, DoneByHand, DoneEarly, TaskWait, WaitOnce, FuncEnds, Mark, Goto,
              Cancelled, WorkerTypeOK
<1>4. CASE \E s \in {"term", "other"} : Deliver(s) BY <1>4 DEF Deliver, workerVars, Cancelled
<1>5. CASE StopOnSignal BY <1>5 DEF StopOnSignal, StopCancel, StopDone, Cancelled
<1>6. ASSUME NEW t \in SigTasks, SignalSteps(t) PROVE Kept /\ UNCHANGED execVars
  BY <1>6 DEF SignalSteps, HandleSignals, TakeSignal, Handled, SignalsEnd, NewTask, FuncEnds, Goto, workerVars,
              Cancelled, WorkerTypeOK
<1>7. ASSUME NEW s \in Servers, ServerSteps(s) PROVE Kept /\ UNCHANGED execVars
  BY <1>7 DEF ServerSteps, ServeHTTP, Listen, ServeFails, ServeError, ServeStopped, Shutdown, NewTask, FuncEnds,
              Goto, workerVars, Cancelled, WorkerTypeOK
<1>8. CASE UNCHANGED vars BY <1>8 DEF vars, workerVars, Cancelled
<1>9. QED BY <1>1, <1>2, <1>3, <1>4, <1>5, <1>6, <1>7, <1>8 DEF Next

LEMMA ExecNextInv == WorkerTypeOK /\ ExecInv /\ [Next]_vars => ExecInv'
<1> SUFFICES ASSUME WorkerTypeOK, ExecInv, [Next]_vars PROVE ExecInv' OBVIOUS
<1>t. ExecTypeOK BY DEF ExecInv, StatusIsTrue
<1> USE ExecAssumption DEF ExecInv, StatusIsTrue
<1>1. CASE ~ \E c \in Cmds : CmdSteps(c)
  <2>1. /\ UNCHANGED execVars
        /\ Cancelled => Cancelled'
        /\ \A c \in Cmds : pc'[c] = pc[c] \/ (pc[c] \in {"wait", "ended"} /\ pc'[c] \in {"ended", "done"})
    BY <1>1, OthersLeaveCmds
  <2>2. ExecTypeOK' BY <2>1, <1>t DEF execVars, ExecTypeOK
  <2>3. StatusIsTrue' BY <2>1, <2>2 DEF execVars
  <2>4. CmdInv' BY <2>1 DEF execVars, CmdInv, Ended
  <2>5. StatusInv' BY <2>1 DEF execVars, StatusInv, CtxDone
  <2>6. QED BY <2>3, <2>4, <2>5
<1>2. ASSUME NEW c \in Cmds, ExecCmd(c) \/ StartFails(c) \/ Start(c) PROVE ExecInv'
  <2> USE <1>2, <1>t DEF ExecCmd, StartFails, Start, CmdGoto, workerVars
  <2>1. ExecTypeOK' BY DEF ExecTypeOK, CmdStates
  <2>2. StatusIsTrue' BY <2>1 DEF CmdInv, ExecTypeOK, Cancelled, Ended
  <2>3. CmdInv' BY DEF CmdInv, ExecTypeOK, Ended
  <2>4. StatusInv' BY DEF StatusInv, ExecTypeOK, Cancelled, CtxDone
  <2>5. QED BY <2>2, <2>3, <2>4
<1>3. ASSUME NEW c \in Cmds, Launch(c) PROVE ExecInv'
  <2> USE <1>3, <1>t DEF Launch, NewTask, Goto, CmdGoto
  <2>1. ExecTypeOK' BY DEF ExecTypeOK, CmdStates
  <2>2. StatusIsTrue' BY <2>1 DEF ExecTypeOK, Cancelled
  <2>3. CmdInv' BY DEF CmdInv, ExecTypeOK, Ended, WorkerTypeOK
  <2>4. StatusInv' BY DEF StatusInv, ExecTypeOK, Cancelled, CtxDone
  <2>5. QED BY <2>2, <2>3, <2>4
<1>4. ASSUME NEW c \in Cmds, StopProcess(c) \/ ProcessEnds(c) PROVE ExecInv'
  <2> USE <1>4, <1>t DEF StopProcess, ProcessEnds, workerVars
  <2>1. ExecTypeOK' BY DEF ExecTypeOK
  <2>2. StatusIsTrue' BY <2>1 DEF ExecTypeOK, Cancelled
  <2>3. CmdInv' BY DEF CmdInv, ExecTypeOK, Ended
  <2>4. StatusInv' BY DEF StatusInv, ExecTypeOK, Cancelled, CtxDone
  <2>5. QED BY <2>2, <2>3, <2>4
<1>5. ASSUME NEW c \in Cmds, CmdWait(c) PROVE ExecInv'
  <2> USE <1>5, <1>t DEF CmdWait, CmdGoto, workerVars
  <2>1. ExecTypeOK' BY DEF ExecTypeOK, CmdStates
  <2>2. StatusIsTrue' BY <2>1 DEF ExecTypeOK, Cancelled
  <2>3. CmdInv'
    <3>1. CmdInv /\ cmd \in [Cmds -> CmdStates] /\ err \in [Cmds -> BOOLEAN] BY <1>t DEF ExecTypeOK
    <3>2. cmd[c] = "waiting" /\ Ended(c) /\ cmd' = [cmd EXCEPT ![c] = "waited"]
          /\ err' = [err EXCEPT ![c] = proc[c] = "bad"]
      BY <1>5
    <3>3. pc' = pc /\ proc' = proc /\ hcancel' = hcancel /\ hstop' = hstop BY <1>5
    <3>4. cmd'[c] = "waited" /\ (err'[c] <=> proc[c] = "bad") BY ONLY <3>1, <3>2
    <3>5. \A d \in Cmds : d # c => cmd'[d] = cmd[d] /\ err'[d] = err[d] BY ONLY <3>1, <3>2
    <3>6. pc[c] = "func" BY ONLY <3>1, <3>2 DEF CmdInv
    <3>7. QED BY ONLY <3>1, <3>2, <3>3, <3>4, <3>5, <3>6 DEF CmdInv, Ended
  <2>4. StatusInv' BY DEF StatusInv, ExecTypeOK, Cancelled, CtxDone
  <2>5. QED BY <2>2, <2>3, <2>4
<1>6. ASSUME NEW c \in Cmds, CmdEnds(c) PROVE ExecInv'
  <2> USE <1>6, <1>t DEF CmdEnds, FuncEnds, Goto
  <2>1. ExecTypeOK' BY DEF ExecTypeOK
  <2>2. StatusIsTrue' BY <2>1 DEF ExecTypeOK, Cancelled
  <2>3. CmdInv' BY DEF CmdInv, ExecTypeOK, Ended, WorkerTypeOK
  <2>4. StatusInv' BY DEF StatusInv, ExecTypeOK, Cancelled, CtxDone
  <2>5. QED BY <2>2, <2>3, <2>4
<1>7. ASSUME NEW c \in Cmds, HandlerStop(c) PROVE ExecInv'
  <2> USE <1>7, <1>t DEF HandlerStop, workerVars
  <2>1. ExecTypeOK' BY DEF ExecTypeOK
  <2>2. StatusIsTrue' BY <2>1 DEF ExecTypeOK, Cancelled
  <2>3. CmdInv' BY DEF CmdInv, ExecTypeOK, Ended
  <2>4. StatusInv' BY DEF StatusInv, ExecTypeOK, Cancelled, CtxDone
  <2>5. QED BY <2>2, <2>3, <2>4
<1>8. ASSUME NEW c \in Cmds, Status(c) PROVE ExecInv'
  <2> USE <1>8, <1>t DEF Status, CallStatus, ReadCtx, ReadStopped, ReadErr, StatusGoto, workerVars
  <2>1. ExecTypeOK' BY DEF ExecTypeOK, Answers
  <2>2. StatusIsTrue'
    <3>1. \A d \in Cmds \ {c} : status'[d] = status[d] /\ asof'[d] = asof[d] BY DEF ExecTypeOK
    <3>2. CASE CallStatus(c) BY <3>1, <3>2, <2>1 DEF ExecTypeOK, Cancelled
    <3>3. CASE ReadCtx(c)
      <4>1. status'[c] = "running" => asof[c] = {}
        BY <3>3 DEF CtxDone, StatusInv, CmdInv, ExecTypeOK
      <4>2. QED BY <4>1, <3>1, <3>3, <2>1 DEF ExecTypeOK, Cancelled
    <3>4. CASE ReadStopped(c) BY <3>1, <3>4, <2>1 DEF ExecTypeOK, Cancelled
    <3>5. CASE ReadErr(c)
      <4>1. status'[c] = "crashed" => proc[c] = "bad" /\ "stop" \notin asof[c]
        BY <3>5 DEF StatusInv, CmdInv, ExecTypeOK
      <4>2. status'[c] = "stopped" => hstop[c] # "no" \/ Cancelled \/ proc[c] = "good"
        BY <3>5 DEF StatusInv, CmdInv, ExecTypeOK, CtxDone, Ended
      <4>3. QED BY <4>1, <4>2, <3>1, <3>5, <2>1 DEF ExecTypeOK, Cancelled
    <3>6. QED BY <3>2, <3>3, <3>4, <3>5
  <2>3. CmdInv' BY DEF CmdInv, Ended
  <2>4. StatusInv' BY DEF StatusInv, CmdInv, ExecTypeOK, Cancelled, CtxDone
  <2>5. QED BY <2>2, <2>3, <2>4
<1>9. QED BY <1>1, <1>2, <1>3, <1>4, <1>5, <1>6, <1>7, <1>8 DEF CmdSteps

-----------------------------------------------------------------------------
\* A server does not serve once it was shut down, which the end of its func is.
ServerInv == \A s \in Servers : /\ serve[s] = "down" => srv[s] # "serving"
                                /\ pc[s] \in {"wait", "ended", "done"} => serve[s] = "down"

ServerTypeOK == srv \in [Servers -> {"none", "called", "serving", "sending", "gone"}]
                /\ serve \in [Servers -> {"none", "select", "shutdown", "down"}]

LEMMA ServerInitInv == Init => ServerTypeOK /\ ServerInv
BY TasksAssumption DEF Init, WorkerInit, ServerTypeOK, ServerInv

LEMMA ServerNextInv == WorkerInv /\ ServerTypeOK /\ ServerInv /\ [Next]_vars => ServerTypeOK' /\ ServerInv'
<1> SUFFICES ASSUME WorkerInv, ServerTypeOK, ServerInv, [Next]_vars PROVE ServerTypeOK' /\ ServerInv' OBVIOUS
<1>t. WorkerTypeOK BY DEF WorkerInv
<1> USE ExecAssumption, TasksAssumption, <1>t
<1>1. CASE WorkerSteps /\ UNCHANGED <<execVars, sigVars, srvVars>>
  BY <1>1 DEF WorkerSteps, StopCancel, StopDone, WaitOnce, WaitReturns, srvVars, ServerTypeOK, ServerInv
<1>2. ASSUME NEW t \in Tasks, TaskEnds(t), UNCHANGED <<execVars, sigVars, srvVars>>
      PROVE ServerTypeOK' /\ ServerInv'
  BY <1>2 DEF TaskEnds, LastWait, WaitOnce, LeaveWait, DeferredDone, Mark, Goto, srvVars, ServerTypeOK, ServerInv,
              WorkerTypeOK
<1>3. ASSUME NEW t \in Own, TaskSteps(t), UNCHANGED <<execVars, sigVars, srvVars>>
      PROVE ServerTypeOK' /\ ServerInv'
  BY <1>3 DEF Own, TaskSteps, NewTask, Do, DoneByHand, DoneEarly, TaskWait, WaitOnce, FuncEnds, Mark, Goto,
              srvVars, ServerTypeOK, ServerInv, WorkerTypeOK
<1>4. ASSUME NEW c \in Cmds, CmdSteps(c), UNCHANGED <<sigVars, srvVars>> PROVE ServerTypeOK' /\ ServerInv'
  BY <1>4 DEF CmdSteps, ExecCmd, StartFails, Start, Launch, StopProcess, ProcessEnds, CmdWait, CmdEnds,
              HandlerStop, Status, CallStatus, ReadCtx, ReadStopped, ReadErr, StatusGoto, NewTask, FuncEnds, Goto,
              workerVars, srvVars, ServerTypeOK, ServerInv, WorkerTypeOK
<1>5. CASE (\E s \in {"term", "other"} : Deliver(s)) \/ StopOnSignal
  BY <1>5 DEF Deliver, StopOnSignal, StopCancel, StopDone, workerVars, srvVars, ServerTypeOK, ServerInv
<1>6. ASSUME NEW t \in SigTasks, SignalSteps(t) PROVE ServerTypeOK' /\ ServerInv'
  BY <1>6 DEF SignalSteps, HandleSignals, TakeSignal, Handled, SignalsEnd, NewTask, FuncEnds, Goto, workerVars,
              srvVars, ServerTypeOK, ServerInv, WorkerTypeOK
<1>7. ASSUME NEW s \in Servers, ServerSteps(s) PROVE ServerTypeOK' /\ ServerInv'
  <2> USE DEF ServerTypeOK, ServerInv, SrvGoto, ServeGoto
  <2>1. CASE ServeHTTP(s) BY <2>1 DEF ServeHTTP, NewTask, Goto, WorkerTypeOK
  <2>2. CASE Listen(s) BY <2>2 DEF Listen, workerVars
  <2>3. CASE ServeFails(s) BY <2>3 DEF ServeFails, workerVars
  <2>4. CASE ServeError(s) BY <2>4 DEF ServeError, workerVars
  <2>5. CASE ServeStopped(s) BY <2>5 DEF ServeStopped, workerVars
  <2>6. CASE Shutdown(s) BY <2>6 DEF Shutdown, FuncEnds, Goto, WorkerTypeOK
  <2>7. QED BY <1>7, <2>1, <2>2, <2>3, <2>4, <2>5, <2>6 DEF ServerSteps
<1>8. CASE UNCHANGED vars BY <1>8 DEF vars, workerVars, srvVars, ServerTypeOK, ServerInv
<1>9. QED BY <1>1, <1>2, <1>3, <1>4, <1>5, <1>6, <1>7, <1>8 DEF Next

IInv == WorkerInv /\ ExecInv /\ ServerTypeOK /\ ServerInv

LEMMA Inductive == Spec => []IInv
<1>1. Init => IInv BY WorkerInitInv, ExecInitInv, ServerInitInv DEF IInv
<1>2. IInv /\ [Next]_vars => IInv'
  BY WorkerNextInv, ExecNextInv, ServerNextInv DEF IInv, WorkerInv
<1>3. QED BY <1>1, <1>2, PTL DEF Spec

\* The count of a group is that of its tasks that are not done, whoever marks them;
\* the Wait of a worker covers every task created in time, at any depth; and once
\* the task of a server or a command is done that has ended (src/worker.go:67-81, 107-148).
THEOREM NothingIsLeft == Spec => []NothingOutlives
<1>1. ASSUME IInv PROVE NothingOutlives
  <2>1. Counted BY <1>1 DEF IInv, WorkerInv, Counted, Counts, Owing, OwnCount
  <2>2. WaitCovers BY <1>1, WaitIsDeep DEF IInv
  <2>3. NothingServes BY <1>1 DEF IInv, ServerInv, NothingServes, ExecInv, CmdInv, ExecTypeOK, StatusIsTrue, CmdStates
  <2>4. QED BY <2>1, <2>2, <2>3 DEF NothingOutlives
<1>2. QED BY <1>1, Inductive, PTL

\* A status that was returned is one the command had during the call.
THEOREM StatusIsRight == Spec => []StatusIsTrue
<1>1. IInv => StatusIsTrue BY DEF IInv, ExecInv
<1>2. QED BY <1>1, Inductive, PTL
=============================================================================
