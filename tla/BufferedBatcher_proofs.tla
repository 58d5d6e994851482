------------------------ MODULE BufferedBatcher_proofs ------------------------
(***************************************************************************)
(* For every number of Starts, of items and of Adds: nothing added to the  *)
(* batcher is lost, one Start at most serves it that was not stopped, and  *)
(* a Start that was never joined by another does not sleep beside a batch. *)
(***************************************************************************)
EXTENDS BufferedBatcher, FiniteSetTheorems, TLAPS

\* A Start at work was stopped, or serves the context of the batcher.
Serving == \A i \in Starts : pc[i] \notin {"new", "done"} => i = ctx \/ i \in cancelled

\* A Start at work has the goroutine that wakes it when its context is done.
Watched == \A i \in Starts : pc[i] \notin {"new", "done"} => watcher[i] # "none"

IInv == /\ TypeOK /\ batch = owed
        /\ Serving /\ Watched /\ NoStrandedBatch

\* The contexts of the calls are told apart from the absence of one.
LEMMA StartsNotNone == \A i \in Starts : i # None /\ i \in Nat
BY BatcherAssumption DEF Starts, None

\* What a signal does: it wakes one Start that waits, and someone if anyone waits.
LEMMA SignalWakes ==
  ASSUME TypeOK, Signal
  PROVE  /\ pc' \in [Starts -> StartStates]
         /\ \A i \in Starts : pc'[i] = pc[i] \/ (pc[i] = "parked" /\ pc'[i] = "woken")
         /\ \A i \in Starts : pc'[i] = "parked" => \E j \in Starts \ {i} : pc[j] = "parked"
<1>1. CASE (\A i \in Starts : pc[i] # "parked") /\ UNCHANGED pc
  BY <1>1 DEF TypeOK
<1>2. ASSUME NEW j \in Starts, Goto(j, "parked", "woken")
      PROVE  /\ pc' \in [Starts -> StartStates]
             /\ \A i \in Starts : pc'[i] = pc[i] \/ (pc[i] = "parked" /\ pc'[i] = "woken")
             /\ \A i \in Starts : pc'[i] = "parked" => \E k \in Starts \ {i} : pc[k] = "parked"
  BY <1>2 DEF TypeOK, Goto, StartStates
<1>3. QED BY <1>1, <1>2 DEF Signal, TypeOK

LEMMA InitIInv == Init => IInv
BY StartsNotNone, BatcherAssumption DEF Init, IInv, TypeOK, Serving, Watched, NoStrandedBatch, StartStates

LEMMA NextIInv == IInv /\ [Next]_vars => IInv'
<1> SUFFICES ASSUME IInv, [Next]_vars PROVE IInv' OBVIOUS
<1>a. TypeOK BY DEF IInv
<1> USE StartsNotNone DEF IInv, StartStates
<1>1. ASSUME NEW i \in Starts, StartLoses(i) PROVE IInv'
  BY <1>1 DEF StartLoses, Goto, TypeOK, Serving, Watched, NoStrandedBatch, Alone
<1>2. ASSUME NEW i \in Starts, StartWins(i) PROVE IInv'
  <2>1. TypeOK' /\ (batch = owed)' BY <1>2 DEF StartWins, Goto, TypeOK
  <2>2. Serving' BY <1>2 DEF StartWins, Goto, TypeOK, Serving
  <2>3. Watched' BY <1>2 DEF StartWins, Goto, TypeOK, Watched
  <2>4. NoStrandedBatch'
    <3> SUFFICES ASSUME NEW j \in Starts, Alone(j)', pc'[j] = "parked" PROVE batch' = {}
      BY DEF NoStrandedBatch
    <3>1. watcher'[i] = "waiting" /\ pc'[i] = "top" BY <1>2, <1>a DEF StartWins, Goto, TypeOK
    <3>2. QED BY <3>1 DEF Alone
  <2>5. QED BY <2>1, <2>2, <2>3, <2>4
<1>3. ASSUME NEW i \in Starts, Return(i) \/ Enter(i) PROVE IInv'
  BY <1>3 DEF Return, Enter, Goto, TypeOK, Serving, Watched, NoStrandedBatch, Alone
<1>4. ASSUME NEW i \in Starts, Wait(i) \/ WaitReturns(i) PROVE IInv'
  BY <1>4 DEF Wait, WaitReturns, Goto, TypeOK, Serving, Watched, NoStrandedBatch, Alone
<1>5. ASSUME NEW i \in Starts, Copy(i) PROVE IInv'
  BY <1>5 DEF Copy, Goto, TypeOK, Serving, Watched, NoStrandedBatch, Alone
<1>6. ASSUME NEW i \in Starts, Callback(i) PROVE IInv'
  BY <1>6 DEF Callback, Goto, TypeOK, Serving, Watched, NoStrandedBatch, Alone
<1>7. ASSUME NEW i \in Starts, Watch(i) PROVE IInv'
  <2>1. Signal BY <1>7 DEF Watch
  <2>2. TypeOK' /\ (batch = owed)' BY <1>7, <1>a, <2>1, SignalWakes DEF Watch, TypeOK
  <2>3. Serving' BY <1>7, <1>a, <2>1, SignalWakes DEF Watch, Serving
  <2>4. Watched' BY <1>7, <1>a, <2>1, SignalWakes DEF Watch, Watched, TypeOK
  <2>5. NoStrandedBatch' BY <1>7, <1>a, <2>1, SignalWakes DEF Watch, NoStrandedBatch, Alone, TypeOK
  <2>6. QED BY <2>2, <2>3, <2>4, <2>5
<1>8. ASSUME NEW i \in Starts, ParentCancel(i) PROVE IInv'
  BY <1>8 DEF ParentCancel, TypeOK, Serving, Watched, NoStrandedBatch, Alone
<1>9. ASSUME NEW x \in Items, Add(x) PROVE IInv'
  <2>1. Signal BY <1>9 DEF Add, AddAs
  <2>2. TypeOK' /\ (batch = owed)'
    BY <1>9, <1>a, <2>1, SignalWakes, BatcherAssumption DEF Add, AddAs, TypeOK
  <2>3. Serving' BY <1>9, <1>a, <2>1, SignalWakes DEF Add, AddAs, Serving
  <2>4. Watched' BY <1>9, <1>a, <2>1, SignalWakes DEF Add, AddAs, Watched
  <2>5. NoStrandedBatch'
    <3> SUFFICES ASSUME NEW i \in Starts, Alone(i)', pc'[i] = "parked" PROVE FALSE
      BY DEF NoStrandedBatch
    <3>1. PICK j \in Starts \ {i} : pc[j] = "parked" BY <1>a, <2>1, SignalWakes
    <3>2. watcher'[j] # "none" BY <1>9, <3>1 DEF Add, AddAs, Watched
    <3>3. QED BY <3>2 DEF Alone
  <2>6. QED BY <2>2, <2>3, <2>4, <2>5
<1>10. CASE Stop
  BY <1>10 DEF Stop, TypeOK, Serving, Watched, NoStrandedBatch, Alone
<1>11. CASE UNCHANGED vars
  BY <1>11 DEF vars, TypeOK, Serving, Watched, NoStrandedBatch, Alone
<1>12. QED BY <1>1, <1>2, <1>3, <1>4, <1>5, <1>6, <1>7, <1>8, <1>9, <1>10, <1>11 DEF Next, Run

LEMMA Inductive == Spec => []IInv
BY InitIInv, NextIInv, PTL DEF Spec

\* Whoever is in its callback and was not stopped serves the one context there is.
LEMMA OneServes == IInv => OneLiveCallback
<1> SUFFICES ASSUME IInv PROVE OneLiveCallback OBVIOUS
<1> DEFINE Live == {i \in Starts : pc[i] = "callback" /\ i \notin cancelled}
<1>1. Live \subseteq {ctx} BY DEF IInv, Serving
<1>2. Cardinality({ctx}) = 1 /\ IsFiniteSet({ctx}) BY FS_Singleton
<1>3. Cardinality(Live) <= 1 BY <1>1, <1>2, FS_Subset
<1>4. QED BY <1>3 DEF OneLiveCallback

\* An item is in the next batch exactly from its Add to the copy of that batch, and
\* one Start at most serves the batcher that was not stopped (src/sync.go:661-703).
THEOREM NothingIsLost == Spec => []NothingLost
<1>1. IInv => NothingLost BY OneServes DEF IInv, NothingLost
<1>2. QED BY <1>1, Inductive, PTL

\* A Start that no other Start ever joined does not wait beside a batch.
THEOREM NothingIsStranded == Spec => []NoStrandedBatch
<1>1. IInv => NoStrandedBatch BY DEF IInv
<1>2. QED BY <1>1, Inductive, PTL
=============================================================================
