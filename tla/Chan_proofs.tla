---------------------------- MODULE Chan_proofs ----------------------------
(***************************************************************************)
(* For every set of funcs, number of calls of Start and set of options: a  *)
(* Start that waits misses no signal; without Reset the buffer is never    *)
(* indexed out of range; an ordered chan is a SerialQueue; and with        *)
(* ProcessAll it returns only when what was added has been executed.       *)
(***************************************************************************)
EXTENDS Chan, TLAPS

InLoop(i) == pc[i] \in {"lock", "check", "parked", "woken", "fetch", "exec", "remove", "exit"}

\* One Start at a time gets past the CompareAndSwap, and the context is its own.
OneStart == \A i, j \in Starts : Active(i) => running /\ (Active(j) => i = j)
OwnCtx == \A i \in Starts : InLoop(i) => ctx = i /\ watcher[i] # "none"
Watchers == \A i \in Starts : watcher[i] = "done" => i \in cancelled

\* Whoever put a func into a buffer that Start saw empty has yet to signal.
Signalling == \E f \in Funcs : apc[f] = "signal"
Pended == \A i \in Starts : pc[i] = "check" /\ seen[i] = 0 /\ fs # <<>> => Signalling

\* What is executed is a func of the buffer.
FnThere == \A i \in Starts : pc[i] \in {"exec", "remove"} => fn[i] \in Funcs

IInv == TypeOK /\ FnThere /\ OneStart /\ OwnCtx /\ Watchers /\ Pended /\ NoLostWakeup

\* The invariant holds before anything is called.
LEMMA InitIInv == Init => IInv
<1> SUFFICES ASSUME Init PROVE IInv OBVIOUS
<1>1. TypeOK
  <2>1. fs \in Seq(Funcs) /\ executed \in Seq(Funcs) BY DEF Init
  <2>2. seen \in [Starts -> Nat] /\ fn \in [Starts -> Funcs \cup {NoFunc}] BY DEF Init
  <2>3. watcher \in [Starts -> {"none", "waiting", "done"}] BY DEF Init
  <2>4. pc \in [Starts -> StartStates] /\ apc \in [Funcs -> AddStates] BY DEF Init, StartStates, AddStates
  <2>5. running \in BOOLEAN /\ ctx \in {None} \cup Starts /\ cancelled \subseteq Starts BY DEF Init
  <2>6. o \in Options BY ChanAssumption DEF Init
  <2>7. QED BY <2>1, <2>2, <2>3, <2>4, <2>5, <2>6 DEF TypeOK
<1>2. OneStart /\ OwnCtx /\ Watchers /\ FnThere BY DEF Init, FnThere, OneStart, OwnCtx, Watchers, Active, InLoop
<1>3. Pended /\ NoLostWakeup BY DEF Init, Pended, NoLostWakeup
<1>4. QED BY <1>1, <1>2, <1>3 DEF IInv

\* Every step keeps it.
LEMMA NextIInv == IInv /\ [Next]_vars => IInv'
<1> SUFFICES ASSUME IInv, [Next]_vars PROVE IInv' OBVIOUS
<1> USE ChanAssumption DEF IInv, TypeOK, OneStart, OwnCtx, Watchers, Pended, NoLostWakeup, FnThere,
        StartStates, AddStates, Active, InLoop, Signalling, Goto, AddGoto, ctxVars, startVars, Starts, None
<1>1. ASSUME NEW i \in Starts, StartWins(i) PROVE IInv'
  <2> USE <1>1 DEF StartWins
  <2>1. TypeOK' OBVIOUS
  <2>2. OneStart' OBVIOUS
  <2>3. OwnCtx' OBVIOUS
  <2>4. Watchers' /\ FnThere' OBVIOUS
  <2>5. Pended' OBVIOUS
  <2>6. NoLostWakeup' OBVIOUS
  <2>7. QED BY ONLY <2>1, <2>2, <2>3, <2>4, <2>5, <2>6 DEF IInv
<1>2. ASSUME NEW i \in Starts, StartLoses(i) PROVE IInv' BY <1>2 DEF StartLoses
<1>3. ASSUME NEW i \in Starts, CreateCtx(i) PROVE IInv'
  <2> USE <1>3 DEF CreateCtx
  <2>1. TypeOK' OBVIOUS
  <2>2. OneStart' OBVIOUS
  <2>3. OwnCtx' /\ Watchers' /\ FnThere'
    <3>1. OwnCtx'
      <4>1. Active(i) /\ OneStart OBVIOUS
      <4>2. \A j \in Starts : InLoop(j)' => j = i
        <5>1. \A j \in Starts : j # i => ~Active(j) BY ONLY <4>1 DEF OneStart
        <5>2. \A j \in Starts : j # i => pc'[j] = pc[j] OBVIOUS
        <5>3. QED BY ONLY <5>1, <5>2 DEF InLoop, Active
      <4>3. ctx' = i /\ watcher'[i] # "none" OBVIOUS
      <4>4. QED BY ONLY <4>2, <4>3 DEF OwnCtx
    <3>2. Watchers' OBVIOUS
    <3>3. FnThere' OBVIOUS
    <3>4. QED BY ONLY <3>1, <3>2, <3>3
  <2>4. Pended' OBVIOUS
  <2>5. NoLostWakeup' OBVIOUS
  <2>6. QED BY <2>1, <2>2, <2>3, <2>4, <2>5
<1>4. ASSUME NEW i \in Starts, ReadLen(i) PROVE IInv'
  <2> USE <1>4 DEF ReadLen
  <2>1. TypeOK' OBVIOUS
  <2>2. OneStart'
    <3>1. \A j \in Starts : Active(j)' => Active(j) OBVIOUS
    <3>2. QED BY <3>1
  <2>3. OwnCtx' /\ Watchers' /\ FnThere' OBVIOUS
  <2>4. Pended' OBVIOUS
  <2>5. NoLostWakeup' OBVIOUS
  <2>6. QED BY <2>1, <2>2, <2>3, <2>4, <2>5
<1>5. ASSUME NEW i \in Starts, Return(i) PROVE IInv' BY <1>5 DEF Return, Keeps
<1>6. ASSUME NEW i \in Starts, Wait(i) PROVE IInv'
  <2> USE <1>6 DEF Wait, Keeps, MustReturn
  <2>1. TypeOK' OBVIOUS
  <2>2. OneStart'
    <3>1. running' = running /\ \A j \in Starts : Active(j)' => Active(j) OBVIOUS
    <3>2. QED BY <3>1
  <2>3. OwnCtx' /\ Watchers' /\ FnThere' OBVIOUS
  <2>4. Pended' OBVIOUS
  <2>5. NoLostWakeup' OBVIOUS
  <2>6. QED BY <2>1, <2>2, <2>3, <2>4, <2>5
<1>7. ASSUME NEW i \in Starts, Proceed(i) \/ WaitReturns(i) PROVE IInv'
  <2> USE <1>7 DEF Proceed, WaitReturns, Keeps
  <2>1. TypeOK'
    <3>1. pc' \in [Starts -> StartStates] OBVIOUS
    <3>2. UNCHANGED <<o, running, watcher, seen, fn, ctx, cancelled, fs, apc, executed>> OBVIOUS
    <3>3. TypeOK OBVIOUS
    <3>4. QED BY ONLY <3>1, <3>2, <3>3 DEF TypeOK
  <2>2. OneStart'
    <3>1. \A j \in Starts : Active(j)' => Active(j) OBVIOUS
    <3>2. QED BY <3>1
  <2>3. OwnCtx' /\ Watchers' /\ FnThere' OBVIOUS
  <2>4. Pended' OBVIOUS
  <2>5. NoLostWakeup' OBVIOUS
  <2>6. QED BY <2>1, <2>2, <2>3, <2>4, <2>5
<1>8. ASSUME NEW i \in Starts, Fetch(i) PROVE IInv'
  <2> USE <1>8 DEF Fetch
  <2>1. TypeOK' OBVIOUS
  <2>2. OneStart'
    <3>1. \A j \in Starts : Active(j)' => Active(j) OBVIOUS
    <3>2. QED BY <3>1
  <2>3. OwnCtx' /\ Watchers' /\ FnThere' OBVIOUS
  <2>4. Pended' OBVIOUS
  <2>5. NoLostWakeup' OBVIOUS
  <2>6. QED BY <2>1, <2>2, <2>3, <2>4, <2>5
<1>9. ASSUME NEW i \in Starts, Exec(i) PROVE IInv'
  <2> USE <1>9 DEF Exec
  <2>1. TypeOK' OBVIOUS
  <2>2. OneStart'
    <3>1. running' = running /\ \A j \in Starts : Active(j)' => Active(j) OBVIOUS
    <3>2. QED BY <3>1
  <2>3. OwnCtx' /\ Watchers' /\ FnThere' OBVIOUS
  <2>4. Pended' OBVIOUS
  <2>5. NoLostWakeup' OBVIOUS
  <2>6. QED BY <2>1, <2>2, <2>3, <2>4, <2>5
<1>10. ASSUME NEW i \in Starts, Remove(i) PROVE IInv'
  <2> USE <1>10 DEF Remove
  <2>1. TypeOK' OBVIOUS
  <2>2. OneStart'
    <3>1. \A j \in Starts : Active(j)' => Active(j) OBVIOUS
    <3>2. QED BY <3>1
  <2>3. OwnCtx' /\ Watchers' /\ FnThere' OBVIOUS
  <2>4. Pended' OBVIOUS
  <2>5. NoLostWakeup' OBVIOUS
  <2>6. QED BY <2>1, <2>2, <2>3, <2>4, <2>5
<1>11. ASSUME NEW i \in Starts, Panic(i) PROVE IInv' BY <1>11 DEF Panic, Keeps
<1>12. ASSUME NEW i \in Starts, Exit(i) PROVE IInv'
  <2> USE <1>12 DEF Exit
  <2>1. TypeOK' OBVIOUS
  <2>2. OneStart'
    <3>1. \A j \in Starts : Active(j)' => Active(j) /\ j # i OBVIOUS
    <3>2. QED BY <3>1
  <2>3. OwnCtx' /\ Watchers' /\ FnThere' OBVIOUS
  <2>4. Pended' OBVIOUS
  <2>5. NoLostWakeup' OBVIOUS
  <2>6. QED BY <2>1, <2>2, <2>3, <2>4, <2>5
<1>13. ASSUME NEW i \in Starts, Watch(i) PROVE IInv'
  <2> USE <1>13 DEF Watch, Signalled
  <2>1. TypeOK' OBVIOUS
  <2>2. OneStart' OBVIOUS
  <2>3. OwnCtx' OBVIOUS
  <2>4. Watchers' /\ FnThere' OBVIOUS
  <2>5. Pended' OBVIOUS
  <2>6. NoLostWakeup' OBVIOUS
  <2>7. QED BY ONLY <2>1, <2>2, <2>3, <2>4, <2>5, <2>6 DEF IInv
<1>14. ASSUME Stop PROVE IInv' BY <1>14 DEF Stop
<1>15. ASSUME NEW i \in Starts, ParentCancel(i) PROVE IInv' BY <1>15 DEF ParentCancel
<1>16. ASSUME NEW f \in Funcs, AddCall(f) PROVE IInv' BY <1>16 DEF AddCall
<1>17. ASSUME NEW f \in Funcs, AddCheck(f) PROVE IInv' BY <1>17 DEF AddCheck
<1>18. ASSUME NEW f \in Funcs, AddAppend(f) PROVE IInv' BY <1>18 DEF AddAppend
<1>19. ASSUME NEW f \in Funcs, AddSignal(f) PROVE IInv'
  <2> USE <1>19 DEF AddSignal, Signalled, CondFree
  <2>1. TypeOK' OBVIOUS
  <2>2. OneStart'
    <3>1. running' = running /\ \A j \in Starts : Active(j)' => Active(j) OBVIOUS
    <3>2. QED BY <3>1
  <2>3. OwnCtx' /\ Watchers' /\ FnThere' OBVIOUS
  <2>4. Pended' OBVIOUS
  <2>5. NoLostWakeup' OBVIOUS
  <2>6. QED BY <2>1, <2>2, <2>3, <2>4, <2>5
<1>20. ASSUME Reset PROVE IInv' BY <1>20 DEF Reset
<1>21. CASE UNCHANGED vars BY <1>21 DEF vars
<1>22. QED
  BY <1>1, <1>2, <1>3, <1>4, <1>5, <1>6, <1>7, <1>8, <1>9, <1>10, <1>11, <1>12, <1>13, <1>14, <1>15,
     <1>16, <1>17, <1>18, <1>19, <1>20, <1>21 DEF Next, Internal, Client, Loop, Add

LEMMA Inductive == Spec => []IInv
BY InitIInv, NextIInv, PTL DEF Spec

\* The variables keep their types.
THEOREM Typing == Spec => []TypeOK
<1>1. IInv => TypeOK BY DEF IInv
<1>2. QED BY <1>1, Inductive, PTL

\* A Start that waits while there is a func to execute, or after its context is
\* done, is about to be signalled: by an Add that put a func in and has yet to
\* signal, or by the goroutine that watches the context.
THEOREM NoWakeupIsLost == Spec => []NoLostWakeup
<1>1. IInv => NoLostWakeup BY DEF IInv
<1>2. QED BY <1>1, Inductive, PTL
-----------------------------------------------------------------------------
\* Without Reset only Start shortens the buffer, so what it saw is still there.
HasFunc(i) == pc[i] \in {"fetch", "exec", "remove"} \/ (pc[i] = "check" /\ seen[i] > 0)
Filled == \A i \in Starts : HasFunc(i) => fs # <<>>

QInv == IInv /\ (~o.resets => Filled)

\* The options of a chan never change.
LEMMA SameOptions == [Next]_vars => o' = o
BY DEF Next, Internal, Client, Loop, Add, CreateCtx, ReadLen, Return, Wait, Proceed, WaitReturns, Fetch,
       Exec, Remove, Exit, Panic, Watch, StartWins, StartLoses, ParentCancel, Stop, Reset, AddCall,
       AddCheck, AddAppend, AddSignal, Keeps, startVars, vars

LEMMA NextFilled == ASSUME ~o.resets, IInv, Filled, [Next]_vars PROVE Filled'
<1> USE ChanAssumption DEF IInv, TypeOK, OneStart, Filled, HasFunc, Alive,
        StartStates, AddStates, Active, Goto, AddGoto, ctxVars, startVars, Starts, None
<1>1. ASSUME NEW i \in Starts, Panic(i) PROVE Filled'
  <2>1. fs' = fs /\ \A j \in Starts : HasFunc(j)' => HasFunc(j) BY <1>1 DEF Panic, Keeps
  <2>2. QED BY ONLY <2>1, Filled DEF Filled
<1>2. ASSUME NEW i \in Starts, ReadLen(i) PROVE Filled'
  <2>1. Len(fs) > 0 => fs # <<>> OBVIOUS
  <2>2. \A j \in Starts \ {i} : HasFunc(j)' => HasFunc(j) BY <1>2 DEF ReadLen
  <2>3. HasFunc(i)' => Len(fs) > 0 BY <1>2 DEF ReadLen
  <2>4. fs' = fs BY <1>2 DEF ReadLen
  <2> QED BY ONLY <2>1, <2>2, <2>3, <2>4, Filled, i \in Starts DEF Filled
<1>3. ASSUME NEW i \in Starts, Return(i) \/ Wait(i) \/ Proceed(i) \/ WaitReturns(i) \/ Exit(i) PROVE Filled'
  <2>1. fs' = fs /\ \A j \in Starts : HasFunc(j)' => HasFunc(j)
    BY <1>3 DEF Return, Wait, Proceed, WaitReturns, Exit, Keeps
  <2>2. QED BY ONLY <2>1, Filled DEF Filled
<1>4. ASSUME NEW i \in Starts, Fetch(i) \/ Exec(i) PROVE Filled' BY <1>4 DEF Fetch, Exec
<1>5. ASSUME NEW i \in Starts, Remove(i) PROVE Filled'
  <2>1. Active(i) /\ OneStart BY <1>5 DEF Remove
  <2>2. \A j \in Starts : j # i => ~Active(j) BY ONLY <2>1, i \in Starts DEF OneStart
  <2>3. \A j \in Starts : j # i => pc'[j] = pc[j] BY <1>5 DEF Remove
  <2>4. pc'[i] = "lock" BY <1>5 DEF Remove
  <2>5. \A j \in Starts : ~HasFunc(j)' BY ONLY <2>2, <2>3, <2>4 DEF HasFunc, Active
  <2>6. QED BY ONLY <2>5 DEF Filled
<1>6. ASSUME NEW i \in Starts, CreateCtx(i) \/ Watch(i) PROVE Filled'
  <2>1. fs' = fs /\ \A j \in Starts : HasFunc(j)' => HasFunc(j)
    BY <1>6 DEF CreateCtx, Watch, Signalled
  <2>2. QED BY ONLY <2>1, Filled DEF Filled
<1>7. ASSUME NEW f \in Funcs, AddAppend(f) PROVE Filled'
  <2>1. fs \in Seq(Funcs) OBVIOUS
  <2>2. <<f>> \o fs # <<>> /\ Append(fs, f) # <<>>
    <3>1. Len(<<f>> \o fs) = 1 + Len(fs) /\ Len(fs) \in Nat BY ONLY <2>1, f \in Funcs
    <3>2. Len(Append(fs, f)) = Len(fs) + 1 BY ONLY <2>1, f \in Funcs
    <3>3. QED BY ONLY <3>1, <3>2
  <2>3. fs' # <<>> BY ONLY <1>7, <2>2 DEF AddAppend
  <2>4. QED BY ONLY <2>3 DEF Filled
<1>8. ASSUME NEW f \in Funcs, AddCall(f) \/ AddCheck(f) \/ AddSignal(f) PROVE Filled'
  <2>1. fs' = fs /\ \A j \in Starts : HasFunc(j)' => HasFunc(j)
    <3>1. ASSUME AddCall(f) \/ AddCheck(f) PROVE pc' = pc /\ seen' = seen /\ fs' = fs
      BY <3>1 DEF AddCall, AddCheck
    <3>2. ASSUME AddSignal(f) PROVE seen' = seen /\ fs' = fs /\ pc' = Signalled BY <3>2 DEF AddSignal
    <3>3. QED BY <1>8, <3>1, <3>2 DEF Signalled
  <2>2. QED BY ONLY <2>1, Filled DEF Filled
<1>9. ASSUME Client PROVE Filled'
  <2>1. fs' = fs /\ \A j \in Starts : HasFunc(j)' => HasFunc(j)
    BY <1>9 DEF Client, StartWins, StartLoses, ParentCancel, Stop, Reset
  <2>2. QED BY ONLY <2>1, Filled DEF Filled
<1>10. CASE UNCHANGED vars BY <1>10 DEF vars
<1>11. QED
  BY <1>1, <1>2, <1>3, <1>4, <1>5, <1>6, <1>7, <1>8, <1>9, <1>10 DEF Next, Internal, Loop, Add

LEMMA QInductive == Spec => []QInv
<1>1. Init => QInv
  BY InitIInv DEF Init, QInv, Filled, HasFunc
<1>2. QInv /\ [Next]_vars => QInv' BY NextIInv, NextFilled, SameOptions DEF QInv
<1>3. QED BY <1>1, <1>2, PTL DEF Spec
-----------------------------------------------------------------------------
\* In an ordered chan Start removes the func it executed.
HeadIsFn == \A i \in Starts : pc[i] \in {"exec", "remove"} => fn[i] = Head(fs)

\* No func is in its buffer twice, nor was executed but for the first that Start is
\* about to remove; and a func is new to it before Add puts it there.
Buffered(f) == \E n \in 1..Len(fs) : fs[n] = f
Fresh == /\ \A f \in Funcs : apc[f] \in {"idle", "check", "append", "refused"} => ~Buffered(f) /\ ~Executed(f)
         /\ \A m, n \in 1..Len(fs) : fs[m] = fs[n] => m = n
         /\ \A n \in 1..Len(fs) : Executed(fs[n]) => n = 1 /\ \E i \in Starts : pc[i] = "remove"

OInv == QInv /\ (Ordered => HeadIsFn /\ Fresh) /\ (CannotPanic => Alive)

\* What an ordered chan has.
HasOrder == Ordered /\ IInv /\ Filled /\ Alive /\ HeadIsFn

LEMMA NextHeadIsFn == ASSUME HasOrder, [Next]_vars PROVE HeadIsFn'
<1> USE ChanAssumption DEF HasOrder, Ordered, IInv, TypeOK, OneStart, Filled, HasFunc, HeadIsFn,
        StartStates, AddStates, Active, Goto, AddGoto, ctxVars, startVars, Starts, None
<1>1. ASSUME NEW i \in Starts, ReadLen(i) \/ Return(i) \/ Wait(i) \/ Proceed(i) \/ WaitReturns(i) \/ Exit(i)
      PROVE HeadIsFn'
  <2>1. fs' = fs /\ fn' = fn BY <1>1 DEF ReadLen, Return, Wait, Proceed, WaitReturns, Exit, Keeps
  <2>2. \A j \in Starts : pc'[j] \in {"exec", "remove"} => pc[j] \in {"exec", "remove"}
    BY <1>1 DEF ReadLen, Return, Wait, Proceed, WaitReturns, Exit, Keeps
  <2>3. QED BY ONLY <2>1, <2>2, HeadIsFn DEF HeadIsFn
<1>2. ASSUME NEW i \in Starts, Fetch(i) PROVE HeadIsFn' BY <1>2 DEF Fetch
<1>3. ASSUME NEW i \in Starts, Exec(i) PROVE HeadIsFn' BY <1>3 DEF Exec
<1>4. ASSUME NEW i \in Starts, Remove(i) PROVE HeadIsFn' BY <1>4 DEF Remove
<1>5. ASSUME NEW i \in Starts, CreateCtx(i) \/ Watch(i) \/ Panic(i) PROVE HeadIsFn'
  <2>1. ASSUME CreateCtx(i) PROVE HeadIsFn' BY <2>1 DEF CreateCtx
  <2>2. ASSUME Watch(i) PROVE HeadIsFn' BY <2>2 DEF Watch, Signalled
  <2>3. ASSUME Panic(i) PROVE HeadIsFn' BY <2>3 DEF Panic, Keeps
  <2>4. QED BY <1>5, <2>1, <2>2, <2>3
<1>6. ASSUME NEW f \in Funcs, AddAppend(f) PROVE HeadIsFn'
  <2>1. fs # <<>> => Head(fs') = Head(fs) BY <1>6 DEF AddAppend
  <2>2. QED BY <1>6, <2>1 DEF AddAppend
<1>7. ASSUME NEW f \in Funcs, AddCall(f) \/ AddCheck(f) \/ AddSignal(f) PROVE HeadIsFn'
  BY <1>7 DEF AddCheck, AddSignal, AddCall, Signalled
<1>8. ASSUME Client PROVE HeadIsFn'
  BY <1>8 DEF Client, StartWins, StartLoses, ParentCancel, Stop, Reset
<1>9. CASE UNCHANGED vars BY <1>9 DEF vars
<1>10. QED BY <1>1, <1>2, <1>3, <1>4, <1>5, <1>6, <1>7, <1>8, <1>9 DEF Next, Internal, Loop, Add

LEMMA NextFresh == ASSUME HasOrder, Fresh, [Next]_vars PROVE Fresh'
<1> USE ChanAssumption DEF HasOrder, Ordered, IInv, TypeOK, OneStart, Filled, HasFunc, HeadIsFn, FnThere,
        StartStates, AddStates, Active, Goto, AddGoto, ctxVars, startVars, Starts, None
<1> DEFINE New(f) == apc[f] \in {"idle", "check", "append", "refused"}
<1>0. fs \in Seq(Funcs) /\ Len(fs) \in Nat OBVIOUS
<1>1. ASSUME fs' = fs, executed' = executed, \A f \in Funcs : New(f)' => New(f),
             \A i \in Starts : pc[i] = "remove" => pc'[i] = "remove"
      PROVE Fresh'
  <2>1. \A f : (Executed(f)' <=> Executed(f)) /\ (Buffered(f)' <=> Buffered(f)) BY <1>1 DEF Executed, Buffered
  <2>2. QED BY ONLY <1>1, <2>1, Fresh DEF Fresh
<1>2. ASSUME NEW i \in Starts,
             \/ ReadLen(i) \/ Return(i) \/ Wait(i) \/ Proceed(i) \/ WaitReturns(i) \/ Fetch(i) \/ Exit(i)
             \/ CreateCtx(i) \/ StartWins(i) \/ StartLoses(i) \/ ParentCancel(i)
      PROVE Fresh'
  <2>1. fs' = fs /\ executed' = executed /\ apc' = apc
    BY <1>2 DEF ReadLen, Return, Wait, Proceed, WaitReturns, Fetch, Exit, CreateCtx, StartWins, StartLoses, ParentCancel, Keeps
  <2>2. \A j \in Starts : pc[j] = "remove" => pc'[j] = "remove"
    BY <1>2 DEF ReadLen, Return, Wait, Proceed, WaitReturns, Fetch, Exit, CreateCtx, StartWins, StartLoses, ParentCancel, Keeps
  <2>3. QED BY ONLY <1>1, <2>1, <2>2
<1>3. ASSUME NEW i \in Starts, Exec(i) PROVE Fresh'
  <2>1. /\ fs' = fs /\ executed' = Append(executed, fn[i]) /\ executed \in Seq(Funcs) /\ fn[i] \in Funcs
        /\ pc'[i] = "remove" /\ fs # <<>> /\ fn[i] = Head(fs)
        /\ apc' = [apc EXCEPT ![fn[i]] = IF @ = "wait" THEN "added" ELSE @]
    BY <1>3 DEF Exec
  <2>2. 1 \in 1..Len(fs) /\ fn[i] = fs[1] BY ONLY <1>0, <2>1
  <2>3. \A f : Executed(f)' => Executed(f) \/ f = fs[1]
    <3>1. Len(executed') = Len(executed) + 1 /\ Len(executed) \in Nat /\ executed'[Len(executed) + 1] = fn[i]
          /\ \A n \in 1..Len(executed) : executed'[n] = executed[n]
      BY ONLY <2>1
    <3>2. QED BY ONLY <2>2, <3>1 DEF Executed
  <2>4. \A f : Buffered(f)' <=> Buffered(f) BY <2>1 DEF Buffered
  <2>5. \A f \in Funcs : New(f)' => New(f) BY <2>1
  <2>6. \A f \in Funcs : New(f)' => ~Buffered(f)' /\ ~Executed(f)'
    BY ONLY <2>2, <2>3, <2>4, <2>5, Fresh DEF Fresh, Buffered
  <2>7. \A n \in 1..Len(fs) : Executed(fs[n])' => n = 1
    <3>1. SUFFICES ASSUME NEW n \in 1..Len(fs), Executed(fs[n])' PROVE n = 1 OBVIOUS
    <3>2. fs' = fs BY <2>1
    <3>3. Executed(fs[n]) \/ fs[n] = fs[1] BY <2>3, <3>1, <3>2 DEF Executed
    <3>4. QED BY ONLY <2>2, <3>3, Fresh DEF Fresh
  <2>8. QED BY ONLY <2>1, <2>6, <2>7, Fresh, i \in Starts DEF Fresh, Executed
<1>4. ASSUME NEW i \in Starts, Remove(i) PROVE Fresh'
  <2>1. fs # <<>> /\ fs' = Tail(fs) /\ executed' = executed /\ apc' = apc BY <1>4 DEF Remove
  <2>2. /\ Len(fs') \in Nat /\ \A n \in 1..Len(fs') : n + 1 \in 1..Len(fs) /\ n + 1 # 1 /\ fs'[n] = fs[n + 1]
        /\ \A m, n \in 1..Len(fs') : m + 1 = n + 1 => m = n
    BY ONLY <1>0, <2>1
  <2>3. \A f : Executed(f)' <=> Executed(f) BY <2>1 DEF Executed
  <2>4. \A f : Buffered(f)' => Buffered(f) BY <2>2 DEF Buffered
  <2>5. \A n \in 1..Len(fs') : ~Executed(fs'[n]) BY ONLY <2>2, Fresh DEF Fresh
  <2>6. \A m, n \in 1..Len(fs') : fs'[m] = fs'[n] => m = n BY ONLY <2>2, Fresh DEF Fresh
  <2>7. \A f \in Funcs : New(f)' => ~Buffered(f)' /\ ~Executed(f)' BY ONLY <2>1, <2>3, <2>4, Fresh DEF Fresh
  <2>8. QED BY ONLY <2>1, <2>5, <2>6, <2>7 DEF Fresh, Executed
<1>5. ASSUME NEW i \in Starts, Panic(i) PROVE Fresh'
  <2>1. fs' = fs /\ executed' = executed /\ apc' = apc BY <1>5 DEF Panic, Keeps
  <2>2. pc[i] # "remove" BY <1>5 DEF Panic
  <2>3. \A j \in Starts : pc[j] = "remove" => pc'[j] = "remove" BY <1>5, <2>2 DEF Panic
  <2>4. QED BY ONLY <1>1, <2>1, <2>3
<1>6. ASSUME NEW f \in Funcs, AddAppend(f) PROVE Fresh'
  <2>1. /\ fs' = Append(fs, f) /\ executed' = executed /\ pc' = pc
        /\ apc[f] = "append" /\ apc' = [apc EXCEPT ![f] = "signal"]
    BY <1>6 DEF AddAppend
  <2>2. Len(fs') = Len(fs) + 1 /\ fs'[Len(fs) + 1] = f /\ \A n \in 1..Len(fs) : fs'[n] = fs[n] BY ONLY <1>0, <2>1
  <2>3. \A n \in 1..Len(fs') : n \in 1..Len(fs) \/ n = Len(fs) + 1 BY ONLY <1>0, <2>2
  <2>4. ~Buffered(f) /\ ~Executed(f) BY <2>1 DEF Fresh
  <2>5. \A g : Executed(g)' <=> Executed(g) BY <2>1 DEF Executed
  <2>6. \A g : Buffered(g)' => Buffered(g) \/ g = f BY ONLY <2>2, <2>3 DEF Buffered
  <2>7. \A g \in Funcs : New(g)' => New(g) /\ g # f BY <2>1
  <2>8. \A g \in Funcs : New(g)' => ~Buffered(g)' /\ ~Executed(g)' BY ONLY <2>5, <2>6, <2>7, Fresh DEF Fresh
  <2>9. \A m, n \in 1..Len(fs') : fs'[m] = fs'[n] => m = n BY ONLY <2>2, <2>3, <2>4, Fresh DEF Fresh, Buffered
  <2>10. \A n \in 1..Len(fs') : Executed(fs'[n]) => n \in 1..Len(fs) /\ fs'[n] = fs[n] BY ONLY <2>2, <2>3, <2>4
  <2>11. \A n \in 1..Len(fs') : Executed(fs'[n]) => n = 1 /\ \E i \in Starts : pc'[i] = "remove"
    BY ONLY <2>1, <2>10, Fresh DEF Fresh
  <2>12. QED BY ONLY <2>1, <2>8, <2>9, <2>11 DEF Fresh, Executed
<1>7. ASSUME NEW f \in Funcs, AddCall(f) \/ AddCheck(f) \/ AddSignal(f) PROVE Fresh'
  <2>1. fs' = fs /\ executed' = executed BY <1>7 DEF AddCall, AddCheck, AddSignal
  <2>2. \A g \in Funcs : New(g)' => New(g) BY <1>7 DEF AddCall, AddCheck, AddSignal
  <2>3. \A j \in Starts : pc[j] = "remove" => pc'[j] = "remove" BY <1>7 DEF AddCall, AddCheck, AddSignal, Signalled
  <2>4. QED BY ONLY <1>1, <2>1, <2>2, <2>3
<1>8. ASSUME NEW i \in Starts, Watch(i) PROVE Fresh'
  <2>1. fs' = fs /\ executed' = executed /\ apc' = apc BY <1>8 DEF Watch
  <2>2. \A j \in Starts : pc[j] = "remove" => pc'[j] = "remove" BY <1>8 DEF Watch, Signalled
  <2>3. QED BY ONLY <1>1, <2>1, <2>2
<1>9. CASE Stop \/ UNCHANGED vars
  <2>1. fs' = fs /\ executed' = executed /\ apc' = apc /\ pc' = pc BY <1>9 DEF Stop, vars
  <2>2. QED BY ONLY <1>1, <2>1
<1>10. ~Reset BY DEF Reset
<1>11. QED BY <1>2, <1>3, <1>4, <1>5, <1>6, <1>7, <1>8, <1>9, <1>10 DEF Next, Internal, Client, Loop, Add

\* Start does not index an empty buffer, nor execute a func twice.
LEMMA NextAlive ==
  ASSUME CannotPanic, IInv, Filled, Alive, Ordered => HeadIsFn /\ Fresh, [Next]_vars
  PROVE  Alive'
<1> USE ChanAssumption DEF IInv, TypeOK, OneStart, Filled, HasFunc, Alive,
        StartStates, AddStates, Active, Goto, AddGoto, ctxVars, startVars, Starts, None
<1>1. ASSUME NEW i \in Starts, Panic(i) PROVE FALSE
  <2>1. pc[i] = "exec" /\ DoneTwice(i) BY <1>1 DEF Panic, CannotPanic
  <2>2. Ordered BY <2>1 DEF DoneTwice, CannotPanic, Ordered
  <2>3. fs # <<>> /\ fn[i] = Head(fs) /\ Executed(Head(fs)) BY <2>1, <2>2 DEF DoneTwice, HeadIsFn
  <2>4. 1 \in 1..Len(fs) /\ Head(fs) = fs[1] BY <2>3
  <2>5. \E j \in Starts : pc[j] = "remove" BY ONLY <2>2, <2>3, <2>4, Ordered => HeadIsFn /\ Fresh DEF Fresh
  <2>6. QED BY <2>1, <2>5
<1>2. ASSUME NEW i \in Starts, Loop(i) PROVE Alive'
  BY <1>2 DEF Loop, ReadLen, Return, Wait, Proceed, WaitReturns, Fetch, Exec, Remove, Exit, Keeps
<1>3. ASSUME NEW i \in Starts, CreateCtx(i) \/ Watch(i) PROVE Alive'
  BY <1>3 DEF CreateCtx, Watch, Signalled
<1>4. ASSUME NEW f \in Funcs, Add(f) \/ AddCall(f) PROVE Alive'
  BY <1>4 DEF Add, AddCheck, AddAppend, AddSignal, AddCall, Signalled
<1>5. ASSUME Client PROVE Alive'
  BY <1>5 DEF Client, StartWins, StartLoses, ParentCancel, Stop, Reset
<1>6. CASE UNCHANGED vars BY <1>6 DEF vars
<1>7. QED BY <1>1, <1>2, <1>3, <1>4, <1>5, <1>6 DEF Next, Internal

LEMMA OInductive == Spec => []OInv
<1>1. Init => (Ordered => HeadIsFn /\ Fresh) /\ (CannotPanic => Alive)
  BY DEF Init, HeadIsFn, Fresh, Buffered, Executed, Alive
<1>2. OInv /\ [Next]_vars => (Ordered => HeadIsFn /\ Fresh)' /\ (CannotPanic => Alive)'
  <2> SUFFICES ASSUME OInv, [Next]_vars PROVE (Ordered => HeadIsFn /\ Fresh)' /\ (CannotPanic => Alive)' OBVIOUS
  <2>1. Ordered => CannotPanic BY DEF Ordered, CannotPanic
  <2>2. (Ordered' => Ordered) /\ (CannotPanic' => CannotPanic) BY SameOptions DEF Ordered, CannotPanic
  <2>3. Ordered => HeadIsFn' /\ Fresh'
    BY <2>1, NextHeadIsFn, NextFresh DEF OInv, QInv, HasOrder, Ordered
  <2>4. CannotPanic => Alive' BY NextAlive DEF OInv, QInv, CannotPanic
  <2>5. QED BY <2>2, <2>3, <2>4
<1>3. QED BY <1>1, <1>2, QInductive, PTL DEF Spec, OInv

\* If nobody calls Reset, Start never indexes an empty buffer, and if moreover the order
\* is not FILO or Adds do not block, no wait group is done twice: the program goes on.
THEOREM NoPanic == Spec => []NeverPanics
<1>1. OInv => NeverPanics BY DEF OInv, NeverPanics
<1>2. QED BY <1>1, OInductive, PTL
-----------------------------------------------------------------------------
Stays == Pending' = Pending /\ Executing' = Executing /\ Finished' = Finished

\* Without an order the mapped state never changes.
LEMMA Unordered == ASSUME ~Ordered, o' = o PROVE Stays
BY DEF Stays, Pending, Executing, Finished, Ordered

\* The steps that leave the buffer alone and start or end no execution.
LEMMA Quiet ==
  ASSUME fs' = fs, executed' = executed, fn' = fn, HasOrder, HasOrder',
         \A i \in Starts : (pc[i] = "exec" <=> pc'[i] = "exec") /\ (pc[i] = "remove" <=> pc'[i] = "remove")
  PROVE  Stays
BY DEF Stays, Pending, Executing, Finished, HasOrder

LEMMA QuietGoto ==
  ASSUME NEW i \in Starts, NEW from \in StartStates \ {"exec", "remove"},
         NEW to \in StartStates \ {"exec", "remove"}, Goto(i, from, to),
         fs' = fs, executed' = executed, fn' = fn, HasOrder, HasOrder'
  PROVE  Stays
<1>1. pc \in [Starts -> StartStates] BY DEF HasOrder, IInv, TypeOK
<1>2. \A j \in Starts : (pc[j] = "exec" <=> pc'[j] = "exec") /\ (pc[j] = "remove" <=> pc'[j] = "remove")
  BY <1>1 DEF Goto
<1>3. QED BY <1>2, Quiet

LEMMA QuietLoop ==
  ASSUME NEW i \in Starts, HasOrder, HasOrder',
         \/ ReadLen(i) \/ Return(i) \/ Wait(i) \/ Proceed(i) \/ WaitReturns(i) \/ Exit(i)
         \/ StartWins(i) \/ StartLoses(i)
  PROVE  Stays
<1> USE DEF StartStates, startVars, ctxVars, Keeps
<1>1. CASE ReadLen(i) BY <1>1, QuietGoto DEF ReadLen
<1>2. CASE Return(i) BY <1>2, QuietGoto DEF Return
<1>3. CASE Wait(i) BY <1>3, QuietGoto DEF Wait
<1>4. CASE Proceed(i) BY <1>4, QuietGoto DEF Proceed
<1>5. CASE WaitReturns(i) BY <1>5, QuietGoto DEF WaitReturns
<1>6. CASE Exit(i) BY <1>6, QuietGoto DEF Exit
<1>7. CASE StartWins(i) BY <1>7, QuietGoto DEF StartWins
<1>8. CASE StartLoses(i) BY <1>8, QuietGoto DEF StartLoses
<1>9. QED BY <1>1, <1>2, <1>3, <1>4, <1>5, <1>6, <1>7, <1>8

\* Every step of an ordered chan is one of the queue.
LEMMA OrderedStep == ASSUME HasOrder, HasOrder', [Next]_vars PROVE Serial!QueueNext \/ Stays
<1> USE ChanAssumption DEF HasOrder, Ordered, IInv, TypeOK, OneStart, Filled, HasFunc, HeadIsFn, FnThere, Alive, Finished,
        StartStates, AddStates, Active, Goto, AddGoto, ctxVars, startVars, Starts, None
<1>1. ASSUME NEW i \in Starts, ReadLen(i) \/ Return(i) \/ Wait(i) \/ Proceed(i) \/ WaitReturns(i) \/ Exit(i)
      PROVE Stays BY <1>1, QuietLoop
<1>2. ASSUME NEW i \in Starts, Fetch(i) PROVE Serial!Take
  <2>1. \A j \in Starts : pc[j] \notin {"exec", "remove"} BY <1>2 DEF Fetch
  <2>2. Executing = {} /\ Pending = fs BY <2>1 DEF Executing, Pending
  <2>3. Executing' = {Head(fs)} BY <1>2, <2>1 DEF Fetch, Executing
  <2>4. Pending' = Tail(fs) BY <1>2 DEF Fetch, Pending
  <2>5. fs # <<>> /\ executed' = executed BY <1>2 DEF Fetch
  <2>6. QED BY <2>2, <2>3, <2>4, <2>5 DEF Serial!Take
<1>3. ASSUME NEW i \in Starts, Exec(i) PROVE Serial!Finish(fn[i])
  <2>0. \A j \in Starts : (pc[j] = "exec" <=> j = i) /\ pc'[j] # "exec"
    <3>1. pc[i] = "exec" /\ pc' = [pc EXCEPT ![i] = "remove"] BY <1>3 DEF Exec
    <3>2. \A j \in Starts : pc[j] = "exec" => j = i BY <3>1
    <3>3. QED BY <3>1, <3>2
  <2>1. Executing = {fn[i]} /\ Executing' = {} BY <2>0 DEF Executing
  <2>2. Pending' = Pending BY <1>3 DEF Exec, Pending
  <2>3. executed' = Append(executed, fn[i]) BY <1>3 DEF Exec
  <2>4. QED BY <2>1, <2>2, <2>3 DEF Serial!Finish
<1>4. ASSUME NEW i \in Starts, Remove(i) PROVE Stays
  <2>0. \A j \in Starts : pc[j] # "exec" /\ pc'[j] # "exec"
    <3>1. pc[i] = "remove" /\ pc' = [pc EXCEPT ![i] = "lock"] BY <1>4 DEF Remove
    <3>2. \A j \in Starts : pc[j] = "exec" => j = i BY <3>1
    <3>3. QED BY <3>1, <3>2
  <2>1. Executing = {} /\ Executing' = {} BY <2>0 DEF Executing
  <2>2. Pending = Tail(fs) /\ Pending' = fs'
    <3>1. pc[i] = "remove" BY <1>4 DEF Remove
    <3>2. \A j \in Starts : pc'[j] \notin {"exec", "remove"}
      <4>1. pc' = [pc EXCEPT ![i] = "lock"] BY <1>4 DEF Remove
      <4>2. \A j \in Starts : pc[j] = "remove" => j = i BY <3>1
      <4>3. QED BY <2>0, <4>1, <4>2
    <3>3. Ordered /\ Ordered' BY DEF HasOrder
    <3>4. QED BY ONLY <3>1, <3>2, <3>3 DEF Pending
  <2>3. QED BY <1>4, <2>1, <2>2 DEF Remove, Stays
<1>5. ASSUME NEW i \in Starts, CreateCtx(i) \/ Watch(i) PROVE Stays
  <2>1. ASSUME CreateCtx(i) PROVE Stays
    <3>1. fs' = fs /\ executed' = executed /\ fn' = fn BY <2>1 DEF CreateCtx
    <3>2. \A j \in Starts : (pc[j] = "exec" <=> pc'[j] = "exec") /\ (pc[j] = "remove" <=> pc'[j] = "remove")
      BY <2>1 DEF CreateCtx
    <3>3. QED BY <3>1, <3>2, Quiet
  <2>2. ASSUME Watch(i) PROVE Stays BY <2>2, Quiet DEF Watch, Signalled
  <2>3. QED BY <1>5, <2>1, <2>2
<1>6. ASSUME NEW i \in Starts, Panic(i) PROVE FALSE BY <1>6 DEF Panic
<1>7. ASSUME NEW f \in Funcs, AddAppend(f) PROVE Serial!Put(f)
  <2>1. Executing' = Executing /\ executed' = executed BY <1>7 DEF AddAppend, Executing
  <2>2. Pending' = Append(Pending, f)
    <3>1. pc' = pc /\ fs' = Append(fs, f) BY <1>7 DEF AddAppend
    <3>2. CASE \E i \in Starts : pc[i] \in {"exec", "remove"}
      <4>1. fs # <<>> BY <3>2
      <4>2. Tail(Append(fs, f)) = Append(Tail(fs), f) BY <4>1
      <4>3. QED BY <3>1, <3>2, <4>2 DEF Pending
    <3>3. CASE ~ \E i \in Starts : pc[i] \in {"exec", "remove"} BY <3>1, <3>3 DEF Pending
    <3>4. QED BY <3>2, <3>3
  <2>3. QED BY <2>1, <2>2 DEF Serial!Put
<1>8. ASSUME NEW f \in Funcs, AddCall(f) \/ AddCheck(f) PROVE Stays
  BY <1>8, Quiet DEF AddCall, AddCheck
<1>9. ASSUME NEW f \in Funcs, AddSignal(f) PROVE Stays BY <1>9, Quiet DEF AddSignal, Signalled
<1>10. ASSUME Client PROVE Stays
  <2>1. ASSUME NEW i \in Starts, StartWins(i) PROVE Stays BY <2>1, QuietLoop
  <2>2. ASSUME NEW i \in Starts, StartLoses(i) PROVE Stays BY <2>2, QuietLoop
  <2>3. ASSUME NEW i \in Starts, ParentCancel(i) PROVE Stays BY <2>3, Quiet DEF ParentCancel
  <2>4. ASSUME Stop PROVE Stays BY <2>4, Quiet DEF Stop
  <2>5. QED BY <1>10, <2>1, <2>2, <2>3, <2>4 DEF Client, Reset
<1>11. CASE UNCHANGED vars BY <1>11, Quiet DEF vars
<1>12. \A i \in Starts : Exec(i) => fn[i] \in Funcs BY DEF Exec
<1>13. QED
  BY <1>1, <1>2, <1>3, <1>4, <1>5, <1>6, <1>7, <1>8, <1>9, <1>10, <1>11, <1>12
     DEF Next, Internal, Loop, Add, Serial!QueueNext

\* An ordered chan executes the funcs one at a time, in the
\* order in which they were put in the buffer, across calls of Start as well.
THEOREM Refinement == Spec => ImplementsSerialQueue
<1>1. Init => Serial!QueueInit
  BY DEF Init, Serial!QueueInit, Pending, Executing, Finished
<1>2. OInv /\ OInv' /\ [Next]_vars => [Serial!QueueNext]_(Serial!queueVars)
  <2> SUFFICES ASSUME OInv, OInv', [Next]_vars PROVE Serial!QueueNext \/ Stays
    BY DEF Serial!queueVars, Stays
  <2>1. CASE Ordered BY <2>1, OrderedStep, SameOptions DEF OInv, QInv, HasOrder, Ordered, CannotPanic
  <2>2. CASE ~Ordered BY <2>2, Unordered, SameOptions
  <2>3. QED BY <2>1, <2>2
<1>3. QED BY <1>1, <1>2, OInductive, PTL DEF Spec, ImplementsSerialQueue, Serial!QueueSpec
-----------------------------------------------------------------------------
\* In an ordered chan a func whose Add put it in the buffer is there until it has been
\* executed: what Remove takes away has been. And once Start saw an empty buffer under
\* the lock of the cond, no Add signals before it decides.
Kept == \A f \in Funcs : apc[f] \in {"signal", "wait", "added"} => Buffered(f) \/ Executed(f)
RemovesExecuted == \A i \in Starts : pc[i] = "remove" => Executed(fn[i])
SawAllExecuted == \A i \in Starts : pc[i] = "check" /\ seen[i] = 0 =>
                    \A f \in Funcs : apc[f] \in {"wait", "added"} => Executed(f)

DInv == OInv /\ (Ordered => Kept /\ RemovesExecuted /\ SawAllExecuted)

\* What was executed stays executed.
LEMMA ExecutedStays ==
  ASSUME TypeOK, executed' = executed \/ \E i \in Starts : fn[i] \in Funcs /\ executed' = Append(executed, fn[i])
  PROVE  \A f : Executed(f) => Executed(f)'
<1>1. CASE executed' = executed BY <1>1 DEF Executed
<1>2. ASSUME NEW i \in Starts, fn[i] \in Funcs, executed' = Append(executed, fn[i])
      PROVE \A f : Executed(f) => Executed(f)'
  <2>1. executed \in Seq(Funcs) BY DEF TypeOK
  <2>2. \A n \in 1..Len(executed) : n \in 1..Len(executed') /\ executed'[n] = executed[n] BY <1>2, <2>1
  <2>3. QED BY <2>2 DEF Executed
<1>3. QED BY <1>1, <1>2

\* Every step of an ordered chan keeps what was added until it is executed.
LEMMA NextKept ==
  ASSUME HasOrder, HasOrder', Kept, RemovesExecuted, SawAllExecuted, [Next]_vars
  PROVE  Kept' /\ RemovesExecuted' /\ SawAllExecuted'
<1> USE ChanAssumption DEF HasOrder, Ordered, IInv, TypeOK, OneStart, FnThere, HeadIsFn, Alive,
        StartStates, AddStates, Active, Goto, AddGoto, ctxVars, startVars, Starts, None
<1> DEFINE Same == fs' = fs /\ executed' = executed /\ fn' = fn
           Goal == Kept' /\ RemovesExecuted' /\ SawAllExecuted'
<1>1. ASSUME Same PROVE \A f : (Executed(f)' <=> Executed(f)) /\ (Buffered(f)' <=> Buffered(f))
  BY <1>1 DEF Executed, Buffered
<1>2. ASSUME Same, apc' = apc, seen' = seen,
             \A i \in Starts : /\ pc'[i] = "remove" => pc[i] = "remove"
                               /\ pc'[i] = "check" => pc[i] = "check"
      PROVE Goal
  BY ONLY <1>1, <1>2, Kept, RemovesExecuted, SawAllExecuted DEF Kept, RemovesExecuted, SawAllExecuted
<1>3. ASSUME NEW i \in Starts, Return(i) \/ Wait(i) \/ Proceed(i) \/ WaitReturns(i) \/ Exit(i) \/ StartWins(i) \/ StartLoses(i)
      PROVE Goal
  <2>1. Same /\ apc' = apc /\ seen' = seen
    BY <1>3 DEF Return, Wait, Proceed, WaitReturns, Exit, StartWins, StartLoses, Keeps
  <2>2. \A j \in Starts : (pc'[j] = "remove" => pc[j] = "remove") /\ (pc'[j] = "check" => pc[j] = "check")
    BY <1>3 DEF Return, Wait, Proceed, WaitReturns, Exit, StartWins, StartLoses, Keeps
  <2>3. QED BY ONLY <1>2, <2>1, <2>2
<1>4. ASSUME NEW i \in Starts, CreateCtx(i) \/ Watch(i) PROVE Goal
  <2>1. Same /\ apc' = apc /\ seen' = seen BY <1>4 DEF CreateCtx, Watch
  <2>2. \A j \in Starts : (pc'[j] = "remove" => pc[j] = "remove") /\ (pc'[j] = "check" => pc[j] = "check")
    BY <1>4 DEF CreateCtx, Watch, Signalled
  <2>3. QED BY ONLY <1>2, <2>1, <2>2
<1>5. ASSUME NEW i \in Starts, ReadLen(i) PROVE Goal
  <2>1. Same /\ apc' = apc /\ pc' = [pc EXCEPT ![i] = "check"] /\ seen' = [seen EXCEPT ![i] = Len(fs)]
    BY <1>5 DEF ReadLen
  <2>2. Kept' BY ONLY <1>1, <2>1, Kept DEF Kept
  <2>3. RemovesExecuted'
    <3>1. \A j \in Starts : pc'[j] = "remove" => pc[j] = "remove" BY <2>1
    <3>2. QED BY ONLY <1>1, <2>1, <3>1, RemovesExecuted DEF RemovesExecuted
  <2>4. SawAllExecuted'
    <3>1. \A j \in Starts \ {i} : (pc'[j] = "check" => pc[j] = "check") /\ seen'[j] = seen[j] BY <2>1
    <3>2. seen'[i] = Len(fs) BY <2>1
    <3>3. ASSUME Len(fs) = 0, NEW f \in Funcs, apc[f] \in {"wait", "added"} PROVE Executed(f)
      <4>1. ~Buffered(f) BY <3>3 DEF Buffered
      <4>2. QED BY <3>3, <4>1 DEF Kept
    <3>4. QED BY ONLY <1>1, <2>1, <3>1, <3>2, <3>3, SawAllExecuted DEF SawAllExecuted
  <2>5. QED BY <2>2, <2>3, <2>4
<1>6. ASSUME NEW i \in Starts, Fetch(i) PROVE Goal
  <2>1. fs' = fs /\ executed' = executed /\ apc' = apc /\ seen' = seen /\ fn' = [fn EXCEPT ![i] = Head(fs)]
        /\ pc[i] = "fetch" /\ pc' = [pc EXCEPT ![i] = "exec"]
    BY <1>6 DEF Fetch
  <2>2. \A f : (Executed(f)' <=> Executed(f)) /\ (Buffered(f)' <=> Buffered(f)) BY <2>1 DEF Executed, Buffered
  <2>3. \A j \in Starts : (pc'[j] = "remove" => pc[j] = "remove" /\ fn'[j] = fn[j]) /\ (pc'[j] = "check" => pc[j] = "check")
    BY <2>1
  <2>4. QED BY ONLY <2>1, <2>2, <2>3, Kept, RemovesExecuted, SawAllExecuted DEF Kept, RemovesExecuted, SawAllExecuted
<1>7. ASSUME NEW i \in Starts, Exec(i) PROVE Goal
  <2>1. /\ fs' = fs /\ seen' = seen /\ fn' = fn /\ executed' = Append(executed, fn[i]) /\ fn[i] \in Funcs
        /\ pc[i] = "exec" /\ pc' = [pc EXCEPT ![i] = "remove"]
        /\ apc' = [apc EXCEPT ![fn[i]] = IF @ = "wait" THEN "added" ELSE @]
    BY <1>7 DEF Exec
  <2>2. \A f : Executed(f) => Executed(f)' BY <2>1, ExecutedStays
  <2>3. Executed(fn[i])'
    <3>1. executed \in Seq(Funcs) OBVIOUS
    <3>2. Len(executed) + 1 \in 1..Len(executed') /\ executed'[Len(executed) + 1] = fn[i] BY <2>1, <3>1
    <3>3. QED BY <2>1, <3>2 DEF Executed
  <2>4. \A f \in Funcs : /\ apc'[f] \in {"signal", "wait", "added"} => apc[f] \in {"signal", "wait", "added"}
                         /\ apc'[f] \in {"wait", "added"} => apc[f] \in {"wait", "added"}
    BY <2>1
  <2>5. \A j \in Starts : (pc'[j] = "remove" => pc[j] = "remove" \/ j = i) /\ (pc'[j] = "check" => pc[j] = "check")
    BY <2>1
  <2>6. \A f : Buffered(f)' <=> Buffered(f) BY <2>1 DEF Buffered
  <2>7. QED BY ONLY <2>1, <2>2, <2>3, <2>4, <2>5, <2>6, Kept, RemovesExecuted, SawAllExecuted
               DEF Kept, RemovesExecuted, SawAllExecuted
<1>8. ASSUME NEW i \in Starts, Remove(i) PROVE Goal
  <2>1. /\ fs # <<>> /\ fs' = Tail(fs) /\ executed' = executed /\ fn' = fn /\ apc' = apc /\ seen' = seen
        /\ pc[i] = "remove" /\ pc' = [pc EXCEPT ![i] = "lock"]
    BY <1>8 DEF Remove
  <2>2. \A f : Executed(f)' <=> Executed(f) BY <2>1 DEF Executed
  <2>3. Executed(Head(fs)) BY <2>1 DEF RemovesExecuted
  <2>4. ASSUME NEW f, Buffered(f) PROVE Buffered(f)' \/ Executed(f)
    <3>1. PICK n \in 1..Len(fs) : fs[n] = f BY <2>4 DEF Buffered
    <3>2. CASE n = 1 BY <2>3, <3>1, <3>2
    <3>3. CASE n # 1
      <4>1. fs \in Seq(Funcs) /\ Len(fs) \in Nat OBVIOUS
      <4>2. n - 1 \in 1..Len(Tail(fs)) /\ Tail(fs)[n - 1] = fs[n] BY <2>1, <3>1, <3>3, <4>1
      <4>3. QED BY <2>1, <3>1, <4>2 DEF Buffered
    <3>4. QED BY <3>2, <3>3
  <2>5. \A j \in Starts : (pc'[j] = "remove" => pc[j] = "remove") /\ (pc'[j] = "check" => pc[j] = "check") BY <2>1
  <2>6. QED BY ONLY <2>1, <2>2, <2>4, <2>5, Kept, RemovesExecuted, SawAllExecuted DEF Kept, RemovesExecuted, SawAllExecuted
<1>9. ASSUME NEW i \in Starts, Panic(i) PROVE FALSE BY <1>9 DEF Panic
<1>10. ASSUME NEW f \in Funcs, AddAppend(f) PROVE Goal
  <2>1. /\ fs' = Append(fs, f) /\ executed' = executed /\ fn' = fn /\ seen' = seen /\ pc' = pc
        /\ apc[f] = "append" /\ apc' = [apc EXCEPT ![f] = "signal"] /\ fs \in Seq(Funcs)
    BY <1>10 DEF AddAppend
  <2>2. \A g : Executed(g)' <=> Executed(g) BY <2>1 DEF Executed
  <2>3. Buffered(f)' /\ \A g : Buffered(g) => Buffered(g)'
    <3>1. Len(fs) \in Nat /\ Len(fs') = Len(fs) + 1 /\ fs'[Len(fs) + 1] = f /\ \A n \in 1..Len(fs) : fs'[n] = fs[n]
      BY <2>1
    <3>2. Len(fs) + 1 \in 1..Len(fs') /\ \A n \in 1..Len(fs) : n \in 1..Len(fs') BY <3>1
    <3>3. QED BY <3>1, <3>2 DEF Buffered
  <2>4. \A g \in Funcs : /\ apc'[g] \in {"signal", "wait", "added"} => apc[g] \in {"signal", "wait", "added"} \/ g = f
                         /\ apc'[g] \in {"wait", "added"} => apc[g] \in {"wait", "added"}
    BY <2>1
  <2>5. QED BY ONLY <2>1, <2>2, <2>3, <2>4, Kept, RemovesExecuted, SawAllExecuted DEF Kept, RemovesExecuted, SawAllExecuted
<1>11. ASSUME NEW f \in Funcs, AddCall(f) \/ AddCheck(f) PROVE Goal
  <2>1. Same /\ pc' = pc /\ seen' = seen BY <1>11 DEF AddCall, AddCheck
  <2>2. \A g \in Funcs : apc'[g] \in {"signal", "wait", "added"} => apc'[g] = apc[g]
    BY <1>11 DEF AddCall, AddCheck
  <2>3. QED BY ONLY <1>1, <2>1, <2>2, Kept, RemovesExecuted, SawAllExecuted DEF Kept, RemovesExecuted, SawAllExecuted
<1>12. ASSUME NEW f \in Funcs, AddSignal(f) PROVE Goal
  <2>1. Same /\ seen' = seen BY <1>12 DEF AddSignal
  <2>2. \A g \in Funcs : apc'[g] \in {"signal", "wait", "added"} => apc[g] \in {"signal", "wait", "added"}
    BY <1>12 DEF AddSignal
  <2>3. \A j \in Starts : (pc'[j] = "remove" => pc[j] = "remove") /\ pc'[j] # "check"
    BY <1>12 DEF AddSignal, CondFree, Signalled
  <2>4. QED BY ONLY <1>1, <2>1, <2>2, <2>3, Kept, RemovesExecuted, SawAllExecuted DEF Kept, RemovesExecuted, SawAllExecuted
<1>13. ASSUME Client PROVE Goal
  <2>1. ASSUME Stop \/ \E i \in Starts : ParentCancel(i) PROVE Goal
    <3>1. Same /\ apc' = apc /\ seen' = seen /\ pc' = pc BY <2>1 DEF Stop, ParentCancel
    <3>2. QED BY ONLY <1>2, <3>1
  <2>2. QED BY <1>3, <1>13, <2>1 DEF Client, Reset
<1>14. CASE UNCHANGED vars
  <2>1. Same /\ apc' = apc /\ seen' = seen /\ pc' = pc BY <1>14 DEF vars
  <2>2. QED BY ONLY <1>2, <2>1
<1>15. QED
  BY <1>3, <1>4, <1>5, <1>6, <1>7, <1>8, <1>9, <1>10, <1>11, <1>12, <1>13, <1>14 DEF Next, Internal, Loop, Add

\* An ordered chan loses no func that was added.
LEMMA DInductive == Spec => []DInv
<1>1. Init => Kept /\ RemovesExecuted /\ SawAllExecuted BY DEF Init, Kept, RemovesExecuted, SawAllExecuted
<1>2. OInv /\ OInv' /\ DInv /\ [Next]_vars => (Ordered => Kept /\ RemovesExecuted /\ SawAllExecuted)'
  BY NextKept, SameOptions DEF DInv, OInv, QInv, HasOrder, Ordered, CannotPanic
<1>3. QED BY <1>1, <1>2, OInductive, PTL DEF Spec, DInv

\* With ProcessAll Start returns (sync.go:100-113) only when every func whose Add put it in
\* the buffer and signalled has been executed, whatever was added or cancelled meanwhile.
THEOREM DrainsFirst == Spec => DrainsBeforeReturning
<1>1. DInv /\ [Next]_vars => [Drains]_vars
  <2> SUFFICES ASSUME DInv, NEW i \in Starts, NEW f \in Funcs,
                      o.processAll, Ordered, Return(i), apc[f] \in {"wait", "added"}
               PROVE  Executed(f)
    BY DEF Drains
  <2>1. pc[i] = "check" /\ seen[i] = 0 BY DEF Return, Goto, MustReturn
  <2>2. QED BY <2>1 DEF DInv, SawAllExecuted
<1>2. QED BY <1>1, DInductive, PTL DEF Spec, DrainsBeforeReturning
=============================================================================
