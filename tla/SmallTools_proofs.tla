--------------------------- MODULE SmallTools_proofs ---------------------------
(***************************************************************************)
(* For every value of the constants: FIFOMutex excludes, loses no handoff  *)
(* and implements FIFOLock; the EventManager calls registered handlers in  *)
(* order; the Eventer executes a Dispatch in one block; the Limiter admits *)
(* at most four times its cap within a period; the Cache keeps the items   *)
(* used last within its size; what the Stater reports adds up; what the    *)
(* silence detector returns is framed by silences; and the BitsWriter      *)
(* writes the bits it is given, in order. Each theorem rests on an         *)
(* inductive invariant of its own.                                         *)
(***************************************************************************)
EXTENDS FIFOMutex, EventManager, Eventer, Limiter, Cache, Stater, SilenceDetector, BitsWriter,
        FiniteSetTheorems, SequenceTheorems, WellFoundedInduction, TLAPS

-----------------------------------------------------------------------------
\* FIFOMutex: IInv is inductive.

\* Initially nobody owns the lock and nobody waits.
LEMMA InitIInv == Init => IInv
<1> SUFFICES ASSUME Init PROVE IInv OBVIOUS
<1> USE DEF Init
<1>1. TypeOK
  <2>1. busy \in BOOLEAN /\ m \in Threads \cup {NoOne} OBVIOUS
  <2>2. waiting \in Seq(Threads) OBVIOUS
  <2>3. condLocked \in [Threads -> BOOLEAN] BY Zenon
  <2>4. pc \in [Threads -> States] BY DEF States
  <2>5. QED BY <2>1, <2>2, <2>3, <2>4 DEF TypeOK
<1>2. OneOwner /\ BusyOwned BY DEF OneOwner, BusyOwned, Owner, Owning
<1>3. InnerOwner /\ HeadThere /\ WaitedBusy BY NoOneAssumption DEF InnerOwner, HeadThere, WaitedBusy
<1>4. NoRepeat /\ Waiters /\ Queued BY DEF NoRepeat, Waiters, Queued
<1>5. QED BY <1>1, <1>2, <1>3, <1>4 DEF IInv

\* Every step of a goroutine keeps the inductive invariant.
LEMMA StepIInv == ASSUME IInv, NEW g \in Threads, Step(g) PROVE IInv'
<1> USE NoOneAssumption DEF IInv, TypeOK, States, OneOwner, BusyOwned, InnerOwner, NoRepeat,
        Waiters, Queued, WaitedBusy, HeadThere, Owner, Owning, Popping, Goto
<1>1. CASE CallLock(g)   BY <1>1 DEF CallLock
<1>2. CASE CallUnlock(g) BY <1>2 DEF CallUnlock
<1>3. CASE FastLock(g)   BY <1>3 DEF FastLock
<1>4. CASE Enqueue(g)    BY <1>4 DEF Enqueue, EnqueueAs
<1>5. CASE Park(g)       BY <1>5 DEF Park
<1>6. CASE Resume(g)     BY <1>6 DEF Resume
<1>7. CASE UnlockFree(g)
  <2> USE <1>7 DEF UnlockFree
  <2>1. ~Popping /\ ~Popping' OBVIOUS
  <2>2. \A h \in Threads : ~Owner(h)' OBVIOUS
  <2>3. TypeOK' /\ OneOwner' /\ BusyOwned' BY <2>2
  <2>4. InnerOwner' /\ NoRepeat' /\ WaitedBusy' /\ HeadThere' OBVIOUS
  <2>5. Waiters' /\ Queued' BY <2>1
  <2>6. QED BY <2>3, <2>4, <2>5
<1>8. CASE UnlockBusy(g) BY <1>8 DEF UnlockBusy
<1>9. CASE SignalHead(g) BY <1>9 DEF SignalHead
<1>10. CASE Pop(g)
  <2> USE <1>10 DEF Pop
  <2>1. ~Popping' OBVIOUS
  <2>2. waiting # <<>> /\ Len(waiting') = Len(waiting) - 1
        /\ \A i \in 1..Len(waiting') : waiting'[i] = waiting[i + 1] OBVIOUS
  <2>3. TypeOK' /\ OneOwner' /\ BusyOwned' OBVIOUS
  <2>4. InnerOwner' /\ WaitedBusy' /\ HeadThere' OBVIOUS
  <2>5. NoRepeat' BY <2>2
  <2>6. Waiters'
    <3> SUFFICES ASSUME NEW h \in Threads
                 PROVE /\ pc'[h] \in {"enqueued", "parked"} => \E i \in 1..Len(waiting') : waiting'[i] = h
                       /\ pc'[h] = "enqueued" <=> (condLocked'[h] /\ pc'[h] \in {"enqueued", "parked", "woken"})
      BY DEF Waiters
    <3>1. ASSUME pc'[h] \in {"enqueued", "parked"} PROVE \E i \in 1..Len(waiting') : waiting'[i] = h
      <4>1. PICK i \in 1..Len(waiting) : waiting[i] = h BY <3>1
      <4>2. i # 1 BY <3>1, <4>1
      <4>3. i - 1 \in 1..Len(waiting') /\ waiting'[i - 1] = h BY <2>2, <4>1, <4>2
      <4>4. QED BY <4>3
    <3>2. QED BY <3>1
  <2>7. Queued' BY <2>1, <2>2
  <2>8. QED BY <2>3, <2>4, <2>5, <2>6, <2>7
<1>11. QED BY <1>1, <1>2, <1>3, <1>4, <1>5, <1>6, <1>7, <1>8, <1>9, <1>10 DEF Step

\* IInv holds in every reachable state.
LEMMA Inductive == Spec => []IInv
<1>1. IInv /\ [Next]_vars => IInv'
  <2> SUFFICES ASSUME IInv, [Next]_vars PROVE IInv' OBVIOUS
  <2>1. CASE Next BY <2>1, StepIInv DEF Next
  <2>2. CASE UNCHANGED vars
    BY <2>2 DEF vars, IInv, TypeOK, OneOwner, BusyOwned, InnerOwner, NoRepeat, Waiters, Queued,
                WaitedBusy, HeadThere, Owner, Popping
  <2>3. QED BY <2>1, <2>2
<1>2. QED BY <1>1, InitIInv, PTL DEF Spec

\* The variables keep their types.
THEOREM Typing == Spec => []TypeOK
<1>1. IInv => TypeOK BY DEF IInv
<1>2. QED BY <1>1, Inductive, PTL

\* Lock never lets a second goroutine in before the first calls Unlock.
THEOREM Exclusion == Spec => []MutualExclusion
<1>1. IInv => MutualExclusion BY DEF IInv, OneOwner, Owner, Owning, MutualExclusion
<1>2. QED BY <1>1, Inductive, PTL

\* While goroutines queue up the lock has an owner: no signal of Unlock is lost.
THEOREM Handoffs == Spec => []NoLostHandoff
<1>1. ASSUME IInv PROVE NoLostHandoff
  <2> SUFFICES ASSUME Queue # <<>> PROVE \E g \in Threads : Owner(g) BY DEF NoLostHandoff
  <2> USE <1>1 DEF IInv, Owner, Owning
  <2>1. CASE Popping
    <3>1. waiting # <<>> /\ pc[waiting[1]] \in {"woken", "cs", "unlocking"} /\ waiting[1] \in Threads
      BY <2>1 DEF Popping, HeadThere, Queued, TypeOK
    <3>2. QED BY <3>1
  <2>2. CASE ~Popping BY <2>2 DEF BusyOwned, WaitedBusy, Queue
  <2>3. QED BY <2>1, <2>2
<1>2. QED BY <1>1, Inductive, PTL

\* FIFOMutex is a first-come-first-served lock: every step of its goroutines is
\* a step of FIFOLock, or leaves the holder and the queue as they are.
THEOREM Refinement == Spec => ImplementsFIFOLock
<1> DEFINE holders == {g \in Threads : Owner(g)}
<1>1. Init => Lock!LockInit
  BY DEF Init, Lock!LockInit, Owner, Owning, Queue, Popping
<1>2. IInv /\ [Next]_vars => [Lock!LockNext]_(Lock!lockVars)
  <2> SUFFICES ASSUME IInv, [Next]_vars PROVE Lock!LockNext \/ (holders' = holders /\ Queue' = Queue)
    BY DEF Lock!lockVars
  <2> USE NoOneAssumption DEF IInv, TypeOK, States, Owner, Owning, Goto, Queue
  <2>1. ASSUME NEW g \in Threads, CallLock(g) \/ CallUnlock(g) \/ Park(g) \/ Resume(g)
        PROVE holders' = holders /\ Queue' = Queue
    <3>1. holders' = holders BY <2>1 DEF CallLock, CallUnlock, Park, Resume
    <3>2. Queue' = Queue BY <2>1 DEF CallLock, CallUnlock, Park, Resume, Popping
    <3>3. QED BY <3>1, <3>2
  <2>2. ASSUME NEW g \in Threads, FastLock(g) PROVE Lock!Acquire(g)
    <3>1. holders = {} /\ holders' = {g} BY <2>2 DEF FastLock, BusyOwned
    <3>2. Queue = <<>> /\ Queue' = Queue BY <2>2 DEF FastLock, WaitedBusy, InnerOwner, Popping
    <3>3. QED BY <3>1, <3>2 DEF Lock!Acquire
  <2>3. ASSUME NEW g \in Threads, Enqueue(g) PROVE Lock!Join(g)
    <3>1. holders # {} /\ g \notin holders BY <2>3 DEF Enqueue, EnqueueAs, BusyOwned
    <3>2. holders' = holders BY <2>3 DEF Enqueue, EnqueueAs
    <3>3. Queue' = Append(Queue, g) BY <2>3 DEF Enqueue, EnqueueAs, InnerOwner, Popping
    <3>4. QED BY <3>1, <3>2, <3>3 DEF Lock!Join
  <2>4. ASSUME NEW g \in Threads, UnlockFree(g) PROVE Lock!Free(g)
    <3>1. g \in holders /\ holders' = holders \ {g} BY <2>4 DEF UnlockFree
    <3>2. Queue = <<>> /\ Queue' = Queue BY <2>4 DEF UnlockFree, InnerOwner, Popping
    <3>3. QED BY <3>1, <3>2 DEF Lock!Free
  <2>5. ASSUME NEW g \in Threads, UnlockBusy(g) PROVE holders' = holders /\ Queue' = Queue
    <3>1. holders' = holders BY <2>5 DEF UnlockBusy
    <3>2. Queue' = Queue BY <2>5 DEF UnlockBusy, InnerOwner, Popping
    <3>3. QED BY <3>1, <3>2
  <2>6. ASSUME NEW g \in Threads, SignalHead(g) PROVE Lock!Handoff(g)
    <3>1. waiting # <<>> /\ ~Popping /\ pc[waiting[1]] \in {"enqueued", "parked"} /\ waiting[1] \in Threads
      BY <2>6 DEF SignalHead, HeadThere, InnerOwner, Popping, Queued
    <3>2. pc[waiting[1]] = "parked" /\ waiting[1] # g BY <2>6, <3>1 DEF SignalHead, Waiters
    <3>3. holders' = (holders \ {g}) \cup {Head(waiting)} BY <2>6, <3>1, <3>2 DEF SignalHead
    <3>4. g \in holders BY <2>6 DEF SignalHead
    <3>5. Queue = waiting /\ Queue' = Tail(waiting) BY <2>6, <3>1 DEF SignalHead, Popping
    <3>6. QED BY <3>1, <3>3, <3>4, <3>5 DEF Lock!Handoff
  <2>7. ASSUME NEW g \in Threads, Pop(g) PROVE holders' = holders /\ Queue' = Queue
    <3>1. holders' = holders BY <2>7 DEF Pop
    <3>2. Popping /\ ~Popping' BY <2>7 DEF Pop, InnerOwner, Popping
    <3>3. Queue' = Queue BY <2>7, <3>2 DEF Pop
    <3>4. QED BY <3>1, <3>3
  <2>8. CASE UNCHANGED vars BY <2>8 DEF vars, Popping
  <2>9. QED
    BY <2>1, <2>2, <2>3, <2>4, <2>5, <2>6, <2>7, <2>8 DEF Next, Step, Lock!LockNext
<1>3. QED BY <1>1, <1>2, Inductive, PTL DEF Spec, ImplementsFIFOLock, Lock!LockSpec

-----------------------------------------------------------------------------
\* Increasing orders.

\* Ascending enumerates a finite set of numbers: every element has a place of its own, and
\* the places are in the order of the elements.
LEMMA AscendingOrders ==
  ASSUME NEW S \in SUBSET Nat, IsFiniteSet(S)
  PROVE  /\ Ascending(S) \in Seq(S) /\ Len(Ascending(S)) = Cardinality(S)
         /\ \A i, j \in 1..Cardinality(S) : i < j => Ascending(S)[i] < Ascending(S)[j]
<1> DEFINE c == Cardinality(S)
           rank(x) == Cardinality(Below(S, x))
           ranks == {rank(x) : x \in S}
           Rank == [x \in S |-> rank(x)]
<1>1. c \in Nat BY FS_CardinalityType
<1>2. ASSUME NEW x \in S, NEW y \in S, x < y PROVE rank(x) < rank(y)
  <2>1. Below(S, x) \subseteq Below(S, y) /\ x \in Below(S, y) /\ x \notin Below(S, x)
    <3>1. x \in Nat /\ y \in Nat /\ \A z \in S : z \in Nat OBVIOUS
    <3>2. \A z \in S : z < x => z < y BY ONLY <3>1, <1>2
    <3>3. ~(x < x) BY ONLY <3>1
    <3>4. QED BY <3>2, <3>3, <1>2, Zenon DEF Below
  <2>2. IsFiniteSet(Below(S, x)) /\ IsFiniteSet(Below(S, y)) BY FS_Subset DEF Below
  <2>3. rank(x) \in Nat /\ rank(y) \in Nat BY <2>2, FS_CardinalityType
  <2>4. rank(x) <= rank(y) /\ (rank(x) = rank(y) => Below(S, x) = Below(S, y)) BY <2>1, <2>2, FS_Subset
  <2> HIDE DEF rank
  <2>5. QED BY <2>1, <2>3, <2>4
<1>3. \A x \in S : rank(x) \in 0..(c - 1)
  <2> TAKE x \in S
  <2>1. Below(S, x) \subseteq S /\ x \notin Below(S, x) BY DEF Below
  <2>2. IsFiniteSet(Below(S, x)) /\ rank(x) <= c /\ (rank(x) = c => Below(S, x) = S) BY <2>1, FS_Subset
  <2>3. rank(x) \in Nat BY <2>2, FS_CardinalityType
  <2> HIDE DEF rank, c
  <2>4. QED BY <1>1, <2>1, <2>2, <2>3
<1>4. ranks = 0..(c - 1)
  <2>1. ranks \subseteq 0..(c - 1) BY <1>3
  <2>2. Rank \in Bijection(S, ranks)
    <3>1. \A x, y \in S : rank(x) = rank(y) => x = y
      <4> SUFFICES ASSUME NEW x \in S, NEW y \in S, x # y PROVE rank(x) # rank(y) OBVIOUS
      <4>1. x < y \/ y < x OBVIOUS
      <4>2. rank(x) \in Nat /\ rank(y) \in Nat BY <1>3
      <4> HIDE DEF rank
      <4>3. QED BY <1>2, <4>1, <4>2
    <3> HIDE DEF rank
    <3>2. QED BY <3>1 DEF Bijection, Injection, Surjection, IsInjective
  <2>5. ExistsBijection(S, ranks) BY <2>2 DEF ExistsBijection
  <2>3. Cardinality(ranks) = c BY ONLY <2>5, IsFiniteSet(S), FS_Bijection
  <2> HIDE DEF c
  <2>4. IsFiniteSet(0..(c - 1)) /\ Cardinality(0..(c - 1)) = c
    <3>1. 0 \in Int /\ c - 1 \in Int BY <1>1
    <3>2. CASE c = 0
      <4>1. 0..(c - 1) = {} BY <3>2
      <4>2. QED BY <3>2, <4>1, FS_EmptySet
    <3>3. CASE c > 0
      <4>1. c - 1 - 0 + 1 = c /\ 0 <= c - 1 BY <1>1, <3>3
      <4>2. IsFiniteSet(0..(c - 1)) /\ Cardinality(0..(c - 1)) = c - 1 - 0 + 1 BY ONLY <3>1, <4>1, FS_Interval
      <4>3. QED BY <4>1, <4>2
    <3>4. QED BY <1>1, <3>2, <3>3
  <2> HIDE DEF ranks
  <2>6. QED BY <2>1, <2>3, <2>4, FS_Subset
<1>5. \A n \in 1..c : Ascending(S)[n] \in S /\ rank(Ascending(S)[n]) = n - 1
  <2> TAKE n \in 1..c
  <2>1. n - 1 \in ranks
    <3> HIDE DEF c
    <3>1. n - 1 \in 0..(c - 1) BY <1>1
    <3>2. QED BY ONLY <3>1, <1>4
  <2>2. \E x \in S : Cardinality(Below(S, x)) = n - 1 BY <2>1
  <2>3. QED BY <2>2 DEF Ascending
<1>6. Ascending(S) \in Seq(S) /\ Len(Ascending(S)) = c
  <2>1. Ascending(S) = [n \in 1..c |-> Ascending(S)[n]] BY DEF Ascending
  <2>2. QED BY <1>1, <1>5, <2>1
<1>7. ASSUME NEW i \in 1..c, NEW j \in 1..c, i < j PROVE Ascending(S)[i] < Ascending(S)[j]
  <2> DEFINE x == Ascending(S)[i]  y == Ascending(S)[j]
  <2>1. x \in S /\ y \in S /\ rank(x) = i - 1 /\ rank(y) = j - 1 BY <1>5
  <2> HIDE DEF x, y, rank
  <2>2. ~(y < x) /\ y # x BY <1>1, <1>2, <1>7, <2>1
  <2>3. x < y BY <2>1, <2>2
  <2>4. QED BY <2>3 DEF x, y
<1>8. QED BY <1>6, <1>7

-----------------------------------------------------------------------------
\* EventManager.

\* What the Emit in progress of e has called and has still to call.
Due(e) == called[e] \o IF emit[e].pc = "off" THEN Tail(emit[e].left) ELSE emit[e].left

\* The handlers: those that were added, but for those that were switched off.
Registered == /\ handlerCount \in 0..MaxHandlers
              /\ hs \subseteq [id : 1..handlerCount, name : Names]
              /\ off \subseteq 1..handlerCount /\ Ids = (1..handlerCount) \ off

Emits == /\ emit \in [Emitters -> [pc : {"idle", "loop", "off"}, left : Seq(1..handlerCount), done : Nat]]
         /\ called \in [Emitters -> Seq(1..handlerCount)]
         /\ offAtStart \in [Emitters -> SUBSET Int]
         /\ \A e \in Emitters : emit[e].pc # "idle" => emit[e].left # <<>>

\* An Emit in progress calls handlers that were not off when it began, in order.
InOrder(due, gone) == /\ \A i \in 1..Len(due) : due[i] \notin gone
                      /\ \A i, j \in 1..Len(due) : i < j => due[i] < due[j]

EventsInv == Registered /\ Emits /\ \A e \in Emitters : InOrder(Due(e), offAtStart[e])

\* Nothing is registered and no Emit runs before the first step.
LEMMA EventsInvInit == EventsInit => EventsInv
<1> SUFFICES ASSUME EventsInit PROVE EventsInv OBVIOUS
<1> USE EventsAssumption DEF EventsInit
<1>1. Registered BY DEF Registered, Ids
<1>2. Emits BY DEF Emits
<1>3. \A e \in Emitters : Due(e) = <<>> BY DEF Due
<1>4. QED BY <1>1, <1>2, <1>3 DEF EventsInv, InOrder

\* The snapshot of Emit: registered handlers, in the order of their registration.
LEMMA Snapshot == ASSUME Registered, NEW n \in Names
                  PROVE  Handlers(n) \in Seq(1..handlerCount) /\ InOrder(Handlers(n), off)
<1> DEFINE S == {h.id : h \in {g \in hs : g.name = n}}
<1>1. S \subseteq Ids BY DEF Ids
<1>2. handlerCount \in Nat /\ Ids = (1..handlerCount) \ off BY DEF Registered
<1>3. S \in SUBSET Nat /\ S \subseteq 1..handlerCount /\ S \cap off = {} BY <1>1, <1>2
<1>4. IsFiniteSet(S)
  <2>1. IsFiniteSet(1..handlerCount) BY <1>2, FS_Interval
  <2>2. QED BY <2>1, <1>3, FS_Subset
<1>5. Handlers(n) = Ascending(S) BY DEF Handlers
<1> HIDE DEF S
<1>6. Handlers(n) \in Seq(S) /\ Len(Handlers(n)) = Cardinality(S)
      /\ \A i, j \in 1..Cardinality(S) : i < j => Handlers(n)[i] < Handlers(n)[j]
  BY <1>3, <1>4, <1>5, AscendingOrders
<1>7. \A i \in 1..Len(Handlers(n)) : Handlers(n)[i] \in S BY <1>6
<1>8. InOrder(Handlers(n), off) BY <1>3, <1>6, <1>7 DEF InOrder
<1>9. Handlers(n) \in Seq(1..handlerCount) BY <1>3, <1>6, SeqMonotonic
<1>10. QED BY <1>8, <1>9

\* A sequence that is not empty has a first element and a rest.
LEMMA Parts == ASSUME NEW S, NEW s \in Seq(S), s # <<>> PROVE Head(s) \in S /\ Tail(s) \in Seq(S)
OBVIOUS

\* A call moves a handler from those left to those called, and the Off it asks for
\* leaves both as they are.
LEMMA CallKeeps == ASSUME NEW S, NEW s \in Seq(S), NEW left \in Seq(S), left # <<>>
                   PROVE  Append(s, Head(left)) \o Tail(left) = s \o left
OBVIOUS

\* Every call of On, Off and Emit, and every call of a handler, keeps the invariant.
LEMMA EventsInvStep == EventsInv /\ [EventsNext]_eventVars => EventsInv'
<1> SUFFICES ASSUME EventsInv, [EventsNext]_eventVars PROVE EventsInv' OBVIOUS
<1> USE EventsAssumption
<1>0. Registered /\ Emits /\ \A e \in Emitters : InOrder(Due(e), offAtStart[e]) BY DEF EventsInv
<1>1. ASSUME NEW n \in Names, On(n) PROVE EventsInv'
  <2>1. handlerCount' = handlerCount + 1 /\ handlerCount < MaxHandlers
        /\ hs' = hs \cup {[id |-> handlerCount + 1, name |-> n]} /\ UNCHANGED <<emit, called, off, offAtStart>>
    BY <1>1 DEF On, NextId
  <2>2. Registered'
    <3>1. Ids' = Ids \cup {handlerCount + 1}
      <4>1. Ids' = {h.id : h \in hs \cup {[id |-> handlerCount + 1, name |-> n]}} BY <2>1 DEF Ids
      <4>2. [id |-> handlerCount + 1, name |-> n].id = handlerCount + 1 OBVIOUS
      <4>3. QED BY <4>1, <4>2, Zenon DEF Ids
    <3>2. handlerCount + 1 \notin off BY <1>0 DEF Registered
    <3>3. QED BY <1>0, <2>1, <3>1, <3>2 DEF Registered
  <2>3. Emits'
    <3>1. Seq(1..handlerCount) \subseteq Seq(1..handlerCount')
      <4>1. 1..handlerCount \subseteq 1..handlerCount' BY <1>0, <2>1 DEF Registered
      <4>2. QED BY <4>1, SeqMonotonic
    <3>2. QED BY <1>0, <2>1, <3>1 DEF Emits
  <2>4. \A e \in Emitters : Due(e)' = Due(e) BY <2>1 DEF Due
  <2>5. QED BY <1>0, <2>1, <2>2, <2>3, <2>4 DEF EventsInv, InOrder
<1>2. ASSUME NEW id \in 1..handlerCount, Without(id), handlerCount' = handlerCount PROVE Registered'
  <2>1. Ids' = Ids \ {id} BY <1>2 DEF Ids, Without
  <2>2. QED BY <1>0, <1>2, <2>1 DEF Registered, Without
<1>3. ASSUME NEW id \in 1..handlerCount, Off(id) PROVE EventsInv'
  <2>1. Registered' BY <1>2, <1>3 DEF Off
  <2>2. Emits' BY <1>0, <1>3 DEF Off, Emits
  <2>3. \A e \in Emitters : Due(e)' = Due(e) /\ offAtStart'[e] = offAtStart[e] BY <1>3 DEF Off, Due
  <2>4. QED BY <1>0, <2>1, <2>2, <2>3 DEF EventsInv, InOrder
<1>4. ASSUME NEW e \in Emitters, NEW n \in Names, EmitStart(e, n) PROVE EventsInv'
  <2>1. /\ emit' = [emit EXCEPT ![e] = Loop(Handlers(n), emit[e].done + 1)]
        /\ called' = [called EXCEPT ![e] = <<>>] /\ offAtStart' = [offAtStart EXCEPT ![e] = off]
        /\ UNCHANGED <<handlerCount, hs, off>>
    BY <1>4 DEF EmitStart
  <2>2. Handlers(n) \in Seq(1..handlerCount) /\ InOrder(Handlers(n), off) BY <1>0, Snapshot
  <2>3. Registered' BY <1>0, <2>1 DEF Registered, Ids
  <2>4. Emits'
    <3>1. emit[e].done + 1 \in Nat /\ off \in SUBSET Int BY <1>0 DEF Emits, Registered
    <3>2. QED BY <1>0, <2>1, <2>2, <3>1 DEF Emits, Loop
  <2>5. InOrder(Due(e), offAtStart[e])'
    <3>1. emit'[e] = Loop(Handlers(n), emit[e].done + 1) /\ called'[e] = <<>> /\ offAtStart'[e] = off
      BY <1>0, <2>1 DEF Emits
    <3>2. Due(e)' = Handlers(n) BY <2>2, <3>1 DEF Due, Loop
    <3>3. QED BY <2>2, <3>1, <3>2 DEF InOrder
  <2>6. \A d \in Emitters \ {e} : Due(d)' = Due(d) /\ offAtStart'[d] = offAtStart[d] BY <1>0, <2>1 DEF Emits, Due
  <2>7. QED BY <1>0, <2>3, <2>4, <2>5, <2>6 DEF EventsInv, InOrder
<1>5. ASSUME NEW e \in Emitters, Call(e) PROVE EventsInv'
  <2>1. /\ called' = [called EXCEPT ![e] = Append(@, Head(emit[e].left))]
        /\ \/ emit' = [emit EXCEPT ![e] = Loop(Tail(emit[e].left), emit[e].done)]
           \/ emit' = [emit EXCEPT ![e].pc = "off"]
        /\ UNCHANGED <<handlerCount, hs, off, offAtStart>>
        /\ emit[e].pc = "loop"
    BY <1>5 DEF Call
  <2>2. emit[e].left \in Seq(1..handlerCount) /\ emit[e].left # <<>> /\ called[e] \in Seq(1..handlerCount) /\ emit[e].done \in Nat
    BY <1>0, <2>1 DEF Emits
  <2>3. Head(emit[e].left) \in 1..handlerCount /\ Tail(emit[e].left) \in Seq(1..handlerCount) BY <2>2, Parts
  <2>4. Registered' BY <1>0, <2>1 DEF Registered, Ids
  <2>5. Emits'
    <3>1. called' \in [Emitters -> Seq(1..handlerCount)] BY <1>0, <2>1, <2>2, <2>3 DEF Emits
    <3>2. CASE emit' = [emit EXCEPT ![e] = Loop(Tail(emit[e].left), emit[e].done)]
      <4>1. Loop(Tail(emit[e].left), emit[e].done) \in [pc : {"idle", "loop", "off"}, left : Seq(1..handlerCount), done : Nat]
        BY <2>2, <2>3 DEF Loop
      <4>2. QED BY <1>0, <2>1, <3>1, <3>2, <4>1 DEF Emits, Loop
    <3>3. CASE emit' = [emit EXCEPT ![e].pc = "off"]
      <4>1. emit \in [Emitters -> [pc : {"idle", "loop", "off"}, left : Seq(1..handlerCount), done : Nat]]
            /\ offAtStart \in [Emitters -> SUBSET Int]
            /\ \A d \in Emitters : emit[d].pc # "idle" => emit[d].left # <<>>
        BY <1>0 DEF Emits
      <4>2. emit' \in [Emitters -> [pc : {"idle", "loop", "off"}, left : Seq(1..handlerCount), done : Nat]]
        BY ONLY <3>3, <4>1
      <4>3. \A d \in Emitters : emit'[d].left = emit[d].left /\ (d # e => emit'[d].pc = emit[d].pc)
        BY ONLY <3>3, <4>1
      <4>4. \A d \in Emitters : emit'[d].pc # "idle" => emit'[d].left # <<>> BY ONLY <2>2, <4>1, <4>3
      <4>5. handlerCount' = handlerCount /\ offAtStart' = offAtStart BY <2>1
      <4>6. QED BY ONLY <3>1, <4>1, <4>2, <4>4, <4>5 DEF Emits
    <3>4. QED BY <2>1, <3>2, <3>3
  <2>6. Due(e)' = Due(e)
    <3>1. Due(e) = called[e] \o emit[e].left BY <2>1 DEF Due
    <3>2. called'[e] = Append(called[e], Head(emit[e].left)) BY <1>0, <2>1 DEF Emits
    <3>3. CASE emit' = [emit EXCEPT ![e] = Loop(Tail(emit[e].left), emit[e].done)]
      <4>1. emit'[e].pc # "off" /\ emit'[e].left = Tail(emit[e].left) BY <1>0, <3>3 DEF Emits, Loop
      <4>2. Due(e)' = Append(called[e], Head(emit[e].left)) \o Tail(emit[e].left) BY <3>2, <4>1 DEF Due
      <4>3. QED BY <2>2, <3>1, <4>2, CallKeeps
    <3>4. CASE emit' = [emit EXCEPT ![e].pc = "off"]
      <4>1. emit'[e].pc = "off" /\ emit'[e].left = emit[e].left BY <1>0, <3>4 DEF Emits
      <4>2. Due(e)' = Append(called[e], Head(emit[e].left)) \o Tail(emit[e].left) BY <3>2, <4>1 DEF Due
      <4>3. QED BY <2>2, <3>1, <4>2, CallKeeps
    <3>5. QED BY <2>1, <3>3, <3>4
  <2>7. \A d \in Emitters : Due(d)' = Due(d) /\ offAtStart'[d] = offAtStart[d] BY <1>0, <2>1, <2>6 DEF Emits, Due
  <2>8. QED BY <1>0, <2>4, <2>5, <2>7 DEF EventsInv, InOrder
<1>6. ASSUME NEW e \in Emitters, CallOff(e) PROVE EventsInv'
  <2>1. /\ emit' = [emit EXCEPT ![e] = Loop(Tail(emit[e].left), emit[e].done)]
        /\ Without(Head(emit[e].left)) /\ UNCHANGED <<handlerCount, called, offAtStart>> /\ emit[e].pc = "off"
    BY <1>6 DEF CallOff
  <2>2. emit[e].left \in Seq(1..handlerCount) /\ emit[e].left # <<>> /\ emit[e].done \in Nat BY <1>0, <2>1 DEF Emits
  <2>3. Head(emit[e].left) \in 1..handlerCount /\ Tail(emit[e].left) \in Seq(1..handlerCount) BY <2>2, Parts
  <2>4. Registered' BY <1>2, <2>1, <2>3
  <2>5. Emits' BY <1>0, <2>1, <2>2, <2>3 DEF Emits, Loop
  <2>6. \A d \in Emitters : Due(d)' = Due(d) /\ offAtStart'[d] = offAtStart[d] BY <1>0, <2>1 DEF Emits, Due, Loop
  <2>7. QED BY <1>0, <2>4, <2>5, <2>6 DEF EventsInv, InOrder
<1>7. CASE UNCHANGED eventVars
  <2>1. /\ handlerCount' = handlerCount /\ hs' = hs /\ emit' = emit /\ called' = called
        /\ off' = off /\ offAtStart' = offAtStart
    BY ONLY <1>7 DEF eventVars
  <2>2. Registered' BY ONLY <1>0, <2>1 DEF Registered, Ids
  <2>3. Emits' BY ONLY <1>0, <2>1 DEF Emits
  <2>4. \A d : Due(d)' = Due(d) BY ONLY <2>1 DEF Due
  <2>5. \A d \in Emitters : InOrder(Due(d), offAtStart[d]) BY <1>0 DEF EventsInv
  <2>6. QED BY ONLY <2>1, <2>2, <2>3, <2>4, <2>5 DEF EventsInv, InOrder
<1>8. QED BY <1>1, <1>3, <1>4, <1>5, <1>6, <1>7 DEF EventsNext

\* Emit (event.go:62-69) calls the handlers it read in the order of their registration,
\* each at most once, whatever On and Off do meanwhile.
THEOREM EventsInOrder == EventsSpec => []EmitCallsInOrder
<1>1. EventsInv => EmitCallsInOrder
  <2> SUFFICES ASSUME EventsInv PROVE EmitCallsInOrder OBVIOUS
  <2>1. EventsTypeOK
    <3>1. handlerCount \in 0..MaxHandlers /\ hs \subseteq [id : 1..MaxHandlers, name : Names]
      BY EventsAssumption DEF EventsInv, Registered
    <3>2. \A e \in Emitters : emit[e].pc \in {"idle", "loop", "off"} /\ emit[e].left \in Seq(1..handlerCount)
      BY DEF EventsInv, Emits
    <3>3. \A e \in Emitters : ToSet(emit[e].left) \subseteq 1..handlerCount
      <4>1. ASSUME NEW S, NEW s \in Seq(S) PROVE ToSet(s) \subseteq S
        <5>1. \A i \in DOMAIN s : s[i] \in S OBVIOUS
        <5>2. QED BY <5>1, Zenon DEF ToSet
      <4>2. QED BY <3>2, <4>1
    <3>4. QED BY <3>1, <3>2, <3>3 DEF EventsTypeOK
  <2>2. Ids = (1..handlerCount) \ off BY DEF EventsInv, Registered
  <2>3. ASSUME NEW e \in Emitters
        PROVE ToSet(Due(e)) \cap offAtStart[e] = {} /\ \A i, j \in DOMAIN Due(e) : i < j => Due(e)[i] < Due(e)[j]
    <3>1. Due(e) \in Seq(1..handlerCount)
      <4>1. called[e] \in Seq(1..handlerCount) /\ emit[e].left \in Seq(1..handlerCount) /\ (emit[e].pc = "off" => emit[e].left # <<>>)
        BY DEF EventsInv, Emits
      <4>2. emit[e].pc = "off" => Tail(emit[e].left) \in Seq(1..handlerCount) BY <4>1, Parts
      <4>3. QED BY <4>1, <4>2, ConcatProperties DEF Due
    <3>2. DOMAIN Due(e) = 1..Len(Due(e)) BY <3>1
    <3>3. QED BY <3>2 DEF EventsInv, InOrder, ToSet
  <2>4. QED BY <2>1, <2>2, <2>3, Zenon DEF EmitCallsInOrder, Due
<1>2. QED BY <1>1, EventsInvInit, EventsInvStep, PTL DEF EventsSpec

-----------------------------------------------------------------------------
\* Eventer.

DispatchStates == [pc : {"idle", "lock", "loop", "wait"}, id : Nat, event : Events \cup {Nobody}, k : Nat]
Jobs == [id : Nat, k : Nat]

\* The funcs in the order of their execution, those to come included.
Current == IF active = {} THEN <<>> ELSE <<CHOOSE j \in active : TRUE>>
Order == finished \o Current \o queue

EventerTypes == /\ EventerTypeOK
                /\ queue \in Seq(Jobs) /\ finished \in Seq(Jobs)
                /\ active = {} \/ \E j \in Jobs : active = {j}
                /\ disp \in [Dispatchers -> DispatchStates]
                /\ nDispatch \in Nat /\ stopped \in BOOLEAN
                /\ opts \in [block : BOOLEAN, processAll : BOOLEAN, reenter : BOOLEAN]

\* Who adds funcs holds mh, and every Dispatch in progress has an id of its own.
OneAdder == /\ \A d \in Dispatchers : disp[d].pc \in {"loop", "wait"} <=> mh = d
            /\ \A d \in Dispatchers : disp[d].pc # "idle" => disp[d].id \in 1..nDispatch /\ disp[d].k >= 1
            /\ \A d \in Dispatchers : disp[d].pc = "lock" => disp[d].k = 1
            /\ \A c, d \in Dispatchers : disp[c].pc # "idle" /\ disp[d].pc # "idle" /\ disp[c].id = disp[d].id => c = d

\* What a Dispatch in progress has added: the funcs before its k, the last of which nothing follows.
Added(order) ==
  /\ \A i \in 1..Len(order) : order[i].id \in 1..nDispatch
  /\ \A d \in Dispatchers : \A i \in 1..Len(order) :
       disp[d].pc # "idle" /\ order[i].id = disp[d].id
         => disp[d].pc # "lock" /\ (order[i].k < disp[d].k \/ (disp[d].pc = "wait" /\ order[i].k = disp[d].k))
  /\ \A d \in Dispatchers :
       /\ disp[d].pc = "loop" /\ disp[d].k > 1 /\ ~stopped
            => order # <<>> /\ order[Len(order)] = [id |-> disp[d].id, k |-> disp[d].k - 1]
       /\ disp[d].pc = "wait" => order # <<>> /\ order[Len(order)] = Job(d)

InBlocks(order) ==
  /\ \A i \in 1..Len(order) : \/ order[i].k = 1
                              \/ i > 1 /\ order[i] = [order[i - 1] EXCEPT !.k = @ + 1]
  /\ \A i, j \in 1..Len(order) : order[i] = order[j] => i = j

EventerInv == EventerTypes /\ OneAdder /\ Added(Order) /\ InBlocks(Order)

\* The order the listeners ran, run and will run in is a sequence of jobs.
LEMMA OrderType == EventerTypes => Order \in Seq(Jobs)
<1> SUFFICES ASSUME EventerTypes PROVE Order \in Seq(Jobs) OBVIOUS
<1>1. Current \in Seq(Jobs) BY DEF Current, EventerTypes
<1>2. QED BY <1>1 DEF Order, EventerTypes

\* A Dispatch that goes on to its next handler, or waits for the one it has added.
LEMMA DispatchTyped == ASSUME disp \in [Dispatchers -> DispatchStates], NEW d \in Dispatchers
                    PROVE  /\ [disp EXCEPT ![d].k = @ + 1] \in [Dispatchers -> DispatchStates]
                           /\ [disp EXCEPT ![d].pc = "wait"] \in [Dispatchers -> DispatchStates]
                           /\ [disp EXCEPT ![d].pc = "loop", ![d].k = @ + 1] \in [Dispatchers -> DispatchStates]
<1> DEFINE c == disp[d]
           f == [disp EXCEPT ![d].pc = "loop"]
<1>1. c \in DispatchStates OBVIOUS
<1>2. [c EXCEPT !.k = @ + 1] \in DispatchStates /\ [c EXCEPT !.pc = "wait"] \in DispatchStates /\ [c EXCEPT !.pc = "loop"] \in DispatchStates
  BY <1>1 DEF DispatchStates
<1>3. [disp EXCEPT ![d].k = @ + 1] \in [Dispatchers -> DispatchStates] BY <1>2
<1>4. [disp EXCEPT ![d].pc = "wait"] \in [Dispatchers -> DispatchStates] BY <1>2
<1>5. f \in [Dispatchers -> DispatchStates] BY <1>2
<1>6. [f[d] EXCEPT !.k = @ + 1] \in DispatchStates
  <2>1. f[d] \in DispatchStates BY <1>5
  <2> HIDE DEF f
  <2>2. QED BY <2>1 DEF DispatchStates
<1>7. [f EXCEPT ![d].k = @ + 1] \in [Dispatchers -> DispatchStates] BY <1>5, <1>6
<1>8. QED BY <1>3, <1>4, <1>7

\* No dispatch runs and no job waits before the first step.
LEMMA EventerInvInit == EventerInit => EventerInv
<1> SUFFICES ASSUME EventerInit PROVE EventerInv OBVIOUS
<1> USE EventerAssumption DEF EventerInit, QueueInit
<1>1. EventerTypes
  <2>1. EventerTypeOK BY DEF EventerTypeOK
  <2>2. disp \in [Dispatchers -> DispatchStates] BY DEF DispatchStates
  <2>3. queue \in Seq(Jobs) /\ finished \in Seq(Jobs) OBVIOUS
  <2>4. QED BY <2>1, <2>2, <2>3 DEF EventerTypes
<1>2. OneAdder BY DEF OneAdder
<1>3. Order = <<>> BY DEF Order, Current
<1>4. Added(<<>>) /\ InBlocks(<<>>) BY DEF Added, InBlocks
<1>5. QED BY <1>1, <1>2, <1>3, <1>4 DEF EventerInv

\* A func that is put is the last of the order, and nothing else changes it.
LEMMA OrderGrows == ASSUME EventerTypes, NEW j \in Jobs, Put(j) PROVE Order' = Append(Order, j)
<1>1. Current \in Seq(Jobs) /\ Current' = Current BY DEF Current, EventerTypes, Put
<1>2. finished \in Seq(Jobs) /\ queue \in Seq(Jobs) /\ finished' = finished /\ queue' = Append(queue, j)
  BY DEF EventerTypes, Put
<1>3. Order' = finished \o Current \o Append(queue, j) BY <1>1, <1>2 DEF Order
<1> HIDE DEF Current
<1>4. QED BY <1>1, <1>2, <1>3 DEF Order

\* The reader of the Eventer's Chan moves a job along that order and never changes it.
LEMMA OrderKept == ASSUME EventerTypes, UNCHANGED queueVars \/ Take \/ \E j \in active : Finish(j)
                   PROVE  Order' = Order
<1>1. CASE UNCHANGED queueVars BY <1>1 DEF queueVars, Order, Current
<1>2. CASE Take
  <2>1. Current = <<>> /\ Current' = <<Head(queue)>> BY <1>2 DEF Take, Current
  <2>2. finished' = finished /\ queue \in Seq(Jobs) /\ queue # <<>> /\ queue' = Tail(queue) /\ finished \in Seq(Jobs)
    BY <1>2 DEF Take, EventerTypes
  <2>3. Head(queue) \in Jobs /\ Tail(queue) \in Seq(Jobs) BY <2>2
  <2>4. finished \o <<>> \o queue = finished \o <<Head(queue)>> \o Tail(queue) BY <2>2, <2>3
  <2>5. QED BY <2>1, <2>2, <2>4 DEF Order
<1>3. CASE \E j \in active : Finish(j)
  <2>1. PICK j \in active : Finish(j) BY <1>3
  <2>2. j \in Jobs /\ active = {j} BY <2>1 DEF EventerTypes
  <2>3. Current = <<j>> /\ Current' = <<>> BY <2>1, <2>2 DEF Finish, Current
  <2>4. finished' = Append(finished, j) /\ queue' = queue /\ queue \in Seq(Jobs) /\ finished \in Seq(Jobs)
    BY <2>1 DEF Finish, EventerTypes
  <2>5. finished \o <<j>> \o queue = Append(finished, j) \o <<>> \o queue
    <3>1. finished \in Seq(Jobs) /\ queue \in Seq(Jobs) /\ j \in Jobs BY <2>2, <2>4
    <3>2. QED BY ONLY <3>1
  <2>6. QED BY <2>3, <2>4, <2>5 DEF Order
<1>4. QED BY <1>1, <1>2, <1>3

\* The steps that leave the Dispatches alone.
LEMMA OthersKeep == ASSUME EventerInv, UNCHANGED <<mh, disp, nDispatch>>, Order' = Order, stopped => stopped', stopped \in BOOLEAN
                    PROVE  OneAdder' /\ Added(Order)' /\ InBlocks(Order)'
<1>1. OneAdder' BY DEF EventerInv, OneAdder
<1>2. Added(Order)' BY DEF EventerInv, Added, Job
<1>3. InBlocks(Order)' BY DEF EventerInv, InBlocks
<1>4. QED BY <1>1, <1>2, <1>3

\* Dispatch adds the func of its next handler, after the one it has added last.
LEMMA PutKeeps == ASSUME EventerInv, NEW d \in Dispatchers, disp[d].pc = "loop", ~stopped, UNCHANGED <<mh, nDispatch, stopped>>,
                         Order' = Append(Order, Job(d)),
                         \/ disp' = [disp EXCEPT ![d].pc = "wait"]
                         \/ disp' = [disp EXCEPT ![d].k = @ + 1]
                  PROVE  OneAdder' /\ Added(Order)' /\ InBlocks(Order)'
<1> DEFINE order == Order  after == Order'  n == Len(order)
<1>1. order \in Seq(Jobs) /\ Job(d) \in Jobs 
  <2>1. order \in Seq(Jobs) BY OrderType DEF EventerInv
  <2>2. disp[d] \in DispatchStates BY DEF EventerInv, EventerTypes
  <2>3. QED BY <2>1, <2>2 DEF Job, Jobs, DispatchStates
<1>2. /\ after = Append(order, Job(d)) /\ Len(after) = n + 1 /\ n \in Nat /\ after[n + 1] = Job(d) /\ after # <<>>
      /\ \A i \in 1..n : after[i] = order[i] /\ order[i] \in Jobs
  BY <1>1
<1>3. /\ \A c \in Dispatchers \ {d} : disp'[c] = disp[c]
      /\ disp'[d].id = disp[d].id
      /\ \/ disp'[d].pc = "wait" /\ disp'[d].k = disp[d].k
         \/ disp'[d].pc = "loop" /\ disp'[d].k = disp[d].k + 1
      /\ disp[d].k \in Nat /\ disp[d].id \in Nat
  BY DEF EventerInv, EventerTypes, DispatchStates
<1>4. OneAdder'
  <2>1. OneAdder BY DEF EventerInv
  <2>2. QED BY ONLY <1>3, <2>1, d \in Dispatchers, disp[d].pc = "loop", UNCHANGED <<mh, nDispatch, stopped>> DEF OneAdder
<1>5. \A c \in Dispatchers \ {d} : disp[c].pc \notin {"loop", "wait"} /\ (disp[c].pc # "idle" => disp[c].id # disp[d].id)
  BY DEF EventerInv, OneAdder
<1>6. Job(d) = [id |-> disp[d].id, k |-> disp[d].k] /\ Job(d)' = [id |-> disp'[d].id, k |-> disp'[d].k] BY DEF Job
<1>7. disp[d].id \in 1..nDispatch /\ disp[d].k >= 1 /\ nDispatch' = nDispatch BY DEF EventerInv, OneAdder
<1>8. Added(order) /\ InBlocks(order) BY DEF EventerInv
<1> HIDE DEF order, after, n
<1>9. \A i \in 1..n : order[i].id = disp[d].id => order[i].k < disp[d].k BY <1>8, <1>2 DEF Added, n
<1>10. disp[d].k > 1 => n >= 1 /\ order[n] = [id |-> disp[d].id, k |-> disp[d].k - 1]
  BY <1>8, <1>1 DEF Added, n
<1>11. InBlocks(after)
  <2>1. \A i \in 1..(n + 1) : after[i].k = 1 \/ (i > 1 /\ after[i] = [after[i - 1] EXCEPT !.k = @ + 1])
    <3>1. ASSUME NEW i \in 1..n PROVE after[i].k = 1 \/ (i > 1 /\ after[i] = [after[i - 1] EXCEPT !.k = @ + 1])
      <4>1. order[i].k = 1 \/ (i > 1 /\ order[i] = [order[i - 1] EXCEPT !.k = @ + 1])
        BY <1>8, <1>2 DEF InBlocks, n
      <4>2. i > 1 => i - 1 \in 1..n BY <1>2
      <4>3. QED BY <4>1, <4>2, <1>2
    <3>2. after[n + 1].k = 1 \/ (n + 1 > 1 /\ after[n + 1] = [after[n] EXCEPT !.k = @ + 1])
      <4>1. CASE disp[d].k = 1 BY <4>1, <1>2, <1>6
      <4>2. CASE disp[d].k > 1
        <5>1. n >= 1 /\ after[n] = [id |-> disp[d].id, k |-> disp[d].k - 1] BY <4>2, <1>2, <1>10
        <5>2. (disp[d].k - 1) + 1 = disp[d].k BY <1>3
        <5>3. [after[n] EXCEPT !.k = @ + 1] = Job(d) BY <5>1, <5>2, <1>6
        <5>4. QED BY <5>1, <5>3, <1>2
      <4>3. QED BY <4>1, <4>2, <1>3, <1>7
    <3>3. ASSUME NEW i \in 1..(n + 1) PROVE after[i].k = 1 \/ (i > 1 /\ after[i] = [after[i - 1] EXCEPT !.k = @ + 1])
      <4>1. CASE i \in 1..n BY <4>1, <3>1
      <4>2. CASE i = n + 1
        <5>1. i - 1 = n BY <4>2, <1>2
        <5>2. QED BY <4>2, <5>1, <3>2
      <4>3. i \in 1..n \/ i = n + 1 BY <1>2
      <4>4. QED BY <4>1, <4>2, <4>3, Zenon
    <3>4. QED BY <3>3
  <2>2. \A i, j \in 1..(n + 1) : after[i] = after[j] => i = j
    <3>1. ASSUME NEW i \in 1..n PROVE after[i] # Job(d)
      <4>1. after[i] = order[i] BY ONLY <1>2
      <4>2. Job(d).id = disp[d].id /\ Job(d).k = disp[d].k BY ONLY <1>6
      <4>3. ~(disp[d].k < disp[d].k) BY ONLY <1>3
      <4>4. QED BY ONLY <1>9, <4>1, <4>2, <4>3
    <3>2. \A i, j \in 1..n : after[i] = after[j] => i = j BY <1>2, <1>8 DEF InBlocks, n
    <3>3. QED BY <3>1, <3>2, <1>2
  <2>3. QED BY <2>1, <2>2, <1>2 DEF InBlocks
<1>12. Added(Order)'
  <2>1. \A i \in 1..Len(after) : after[i].id \in 1..nDispatch' BY <1>2, <1>6, <1>7, <1>8 DEF Added, n
  <2>2. ASSUME NEW c \in Dispatchers, NEW i \in 1..Len(after), disp'[c].pc # "idle", after[i].id = disp'[c].id
        PROVE disp'[c].pc # "lock" /\ (after[i].k < disp'[c].k \/ (disp'[c].pc = "wait" /\ after[i].k = disp'[c].k))
    <3>1. CASE c = d
      <4>1. CASE i \in 1..n
        <5>1. after[i].k < disp[d].k /\ after[i].k \in Nat BY <4>1, <3>1, <2>2, <1>2, <1>3, <1>9 DEF Jobs
        <5>2. QED BY <5>1, <3>1, <1>3
      <4>2. CASE i = n + 1
        <5>1. after[i].k = disp[d].k BY <4>2, <1>2, <1>6
        <5>2. QED BY <5>1, <3>1, <1>3
      <4>3. QED BY <4>1, <4>2, <1>2
    <3>2. CASE c # d
      <4>1. i \in 1..n BY <3>2, <2>2, <1>2, <1>3, <1>5, <1>6
      <4>2. QED BY <4>1, <3>2, <2>2, <1>2, <1>3, <1>8 DEF Added, n
    <3>3. QED BY <3>1, <3>2
  <2>3. ASSUME NEW c \in Dispatchers
        PROVE /\ disp'[c].pc = "loop" /\ disp'[c].k > 1 /\ ~stopped'
                   => after # <<>> /\ after[Len(after)] = [id |-> disp'[c].id, k |-> disp'[c].k - 1]
              /\ disp'[c].pc = "wait" => after # <<>> /\ after[Len(after)] = Job(c)'
    <3>1. CASE c = d
      <4>1. (disp[d].k + 1) - 1 = disp[d].k BY <1>3
      <4>2. QED BY <4>1, <3>1, <1>2, <1>3, <1>6
    <3>2. CASE c # d BY <3>2, <1>3, <1>5
    <3>3. QED BY <3>1, <3>2
  <2>4. QED BY <2>1, <2>2, <2>3 DEF Added, after
<1>13. InBlocks(Order)' BY <1>11 DEF InBlocks, after
<1>14. QED BY <1>4, <1>12, <1>13

\* Every step of a caller, a Dispatch, the chan or a handler keeps EventerInv.
LEMMA EventerInvStep == EventerInv /\ [EventerNext]_eventerVars => EventerInv'
<1> SUFFICES ASSUME EventerInv, [EventerNext]_eventerVars PROVE EventerInv' OBVIOUS
<1> USE EventerAssumption
<1>0. EventerTypes /\ OneAdder /\ Added(Order) /\ InBlocks(Order) /\ stopped \in BOOLEAN /\ opts \in [block : BOOLEAN, processAll : BOOLEAN, reenter : BOOLEAN]
  BY DEF EventerInv, EventerTypes
<1>1. ASSUME NEW n \in Events, EventerOn(n) PROVE EventerInv'
  <2>1. EventerTypes' BY <1>0, <1>1 DEF EventerOn, EventerTypes, EventerTypeOK, queueVars
  <2>2. Order' = Order BY <1>0, <1>1, OrderKept DEF EventerOn
  <2>3. QED BY <1>0, <1>1, <2>1, <2>2, OthersKeep DEF EventerOn, EventerInv
<1>2. ASSUME NEW d \in Dispatchers, NEW n \in Events, Dispatch(d, n) PROVE EventerInv'
  <2>1. EventerTypes' BY <1>0, <1>2 DEF Dispatch, DispatchStates, EventerTypes, EventerTypeOK, queueVars
  <2>2. Order' = Order BY <1>0, <1>2, OrderKept DEF Dispatch
  <2>3. /\ \A c \in Dispatchers \ {d} : disp'[c] = disp[c]
        /\ disp[d].pc = "idle" /\ disp'[d].pc = "lock" /\ disp'[d].id = nDispatch + 1 /\ disp'[d].k = 1
        /\ nDispatch' = nDispatch + 1 /\ nDispatch \in Nat /\ mh' = mh /\ stopped' = stopped
    BY <1>0, <1>2 DEF Dispatch, EventerTypes, DispatchStates
  <2>4. OneAdder' BY <1>0, <2>3 DEF OneAdder
  <2>5. Added(Order)'
    <3>1. \A i \in 1..Len(Order) : Order[i].id \in 1..nDispatch BY <1>0 DEF Added
    <3>2. QED BY <1>0, <2>2, <2>3, <3>1 DEF Added, Job
  <2>6. InBlocks(Order)' BY <1>0, <2>2 DEF InBlocks
  <2>7. QED BY <2>1, <2>4, <2>5, <2>6 DEF EventerInv
<1>3. ASSUME NEW d \in Dispatchers, DispatchLock(d) PROVE EventerInv'
  <2>1. EventerTypes'
    <3>1. /\ disp' = [disp EXCEPT ![d].pc = "loop"] /\ mh' = d
          /\ UNCHANGED <<queue, active, finished, opts, handlers, nDispatch, chan, stopped, callback>>
      BY ONLY <1>3 DEF DispatchLock, LockMh, queueVars
    <3>2. EventerTypes BY <1>0
    <3>3. disp' \in [Dispatchers -> DispatchStates]
      <4>1. disp \in [Dispatchers -> DispatchStates] BY ONLY <3>2 DEF EventerTypes
      <4>2. PICK z : z = [disp[d] EXCEPT !.pc = "loop"] OBVIOUS
      <4>3. z \in DispatchStates BY ONLY <4>1, <4>2, d \in Dispatchers DEF DispatchStates
      <4>4. disp' = [disp EXCEPT ![d] = z] BY ONLY <3>1, <4>2
      <4>5. QED BY ONLY <4>1, <4>3, <4>4
    <3>4. EventerTypeOK' BY ONLY <3>1, <3>2, d \in Dispatchers DEF EventerTypes, EventerTypeOK
    <3>5. QED BY ONLY <3>1, <3>2, <3>3, <3>4 DEF EventerTypes
  <2>2. Order' = Order BY <1>0, <1>3, OrderKept DEF DispatchLock
  <2>3. /\ \A c \in Dispatchers \ {d} : disp'[c] = disp[c]
        /\ disp[d].pc = "lock" /\ disp'[d].pc = "loop" /\ disp'[d].id = disp[d].id /\ disp'[d].k = disp[d].k
        /\ nDispatch' = nDispatch /\ mh = Nobody /\ mh' = d /\ stopped' = stopped
    BY <1>0, <1>3 DEF DispatchLock, LockMh, EventerTypes, DispatchStates
  <2>4. OneAdder' BY <1>0, <2>3 DEF OneAdder
  <2>5. disp[d].k = 1 BY <1>0, <2>3 DEF OneAdder
  <2>6. Added(Order)' BY <1>0, <2>2, <2>3, <2>5 DEF Added, Job
  <2>7. InBlocks(Order)' BY <1>0, <2>2 DEF InBlocks
  <2>8. QED BY <2>1, <2>4, <2>6, <2>7 DEF EventerInv
<1>4. ASSUME NEW d \in Dispatchers, DispatchAdd(d) PROVE EventerInv'
  <2>1. disp[d].pc = "loop" /\ disp[d].k \in Nat /\ disp[d].id \in Nat /\ UNCHANGED <<opts, mh, handlers, nDispatch, chan, stopped, callback>>
    BY <1>0, <1>4 DEF DispatchAdd, EventerTypes, DispatchStates
  <2>2. CASE stopped
    <3>1. disp' = [disp EXCEPT ![d].k = @ + 1] /\ UNCHANGED queueVars BY <1>4, <2>2 DEF DispatchAdd
    <3>2. EventerTypes'
      <4>1. disp' \in [Dispatchers -> DispatchStates] BY <1>0, <3>1, DispatchTyped DEF EventerTypes
      <4>2. QED BY <1>0, <2>1, <3>1, <4>1 DEF EventerTypes, EventerTypeOK, queueVars
    <3>3. Order' = Order BY <1>0, <3>1, OrderKept
    <3>4. /\ \A c \in Dispatchers \ {d} : disp'[c] = disp[c]
          /\ disp'[d].pc = "loop" /\ disp'[d].id = disp[d].id /\ disp'[d].k = disp[d].k + 1
      BY <1>0, <2>1, <3>1 DEF EventerTypes, DispatchStates
    <3>5. OneAdder' BY <1>0, <2>1, <3>4 DEF OneAdder
    <3>6. \A i \in 1..Len(Order) : Order[i].k \in Nat 
      <4>1. Order \in Seq(Jobs) BY <1>0, OrderType
      <4>2. \A i \in 1..Len(Order) : Order[i] \in Jobs BY <4>1
      <4>3. QED BY <4>2 DEF Jobs
    <3>7. Added(Order)'
      <4>1. \A c \in Dispatchers \ {d} : disp[c].pc \notin {"loop", "wait"} BY <1>0, <2>1 DEF OneAdder
      <4>2. \A i \in 1..Len(Order) : Order[i].id = disp[d].id => Order[i].k < disp[d].k + 1
        BY <1>0, <2>1, <3>6 DEF Added
      <4>3. QED BY <1>0, <2>1, <2>2, <3>3, <3>4, <4>1, <4>2, SMTT(20) DEF Added, Job
    <3>8. InBlocks(Order)' BY <1>0, <3>3 DEF InBlocks
    <3>9. QED BY <3>2, <3>5, <3>7, <3>8 DEF EventerInv
  <2>3. CASE ~stopped
    <3>1. Put(Job(d)) /\ Job(d) \in Jobs
      BY <1>4, <2>1, <2>3 DEF DispatchAdd, Job, Jobs
    <3>2. \/ disp' = [disp EXCEPT ![d].pc = "wait"]
          \/ disp' = [disp EXCEPT ![d].k = @ + 1]
      BY <1>0, <1>4, <2>1, <2>3 DEF DispatchAdd, EventerTypes, DispatchStates
    <3>3. Order' = Append(Order, Job(d)) BY <1>0, <3>1, OrderGrows
    <3>4. queue' = Append(queue, Job(d)) /\ UNCHANGED <<active, finished>> BY <3>1 DEF Put
    <3>5. EventerTypes'
      <4>1. disp \in [Dispatchers -> DispatchStates] BY <1>0 DEF EventerTypes
      <4>4. disp' \in [Dispatchers -> DispatchStates]
        <5>1. CASE disp' = [disp EXCEPT ![d].pc = "wait"] BY ONLY <4>1, <5>1, DispatchTyped, d \in Dispatchers
        <5>2. CASE disp' = [disp EXCEPT ![d].k = @ + 1] BY ONLY <4>1, <5>2, DispatchTyped, d \in Dispatchers
        <5>3. QED BY ONLY <3>2, <5>1, <5>2
      <4>2. queue' \in Seq(Jobs) BY <1>0, <3>1, <3>4 DEF EventerTypes
      <4>3. QED BY <1>0, <2>1, <3>4, <4>4, <4>2 DEF EventerTypes, EventerTypeOK
    <3>6. OneAdder' /\ Added(Order)' /\ InBlocks(Order)' BY <2>1, <2>3, <3>2, <3>3, PutKeeps
    <3>7. QED BY <3>5, <3>6 DEF EventerInv
  <2>4. QED BY <2>2, <2>3
<1>5. ASSUME NEW d \in Dispatchers, DispatchWait(d) PROVE EventerInv'
  <2>1. EventerTypes'
    <3>1. disp' = [disp EXCEPT ![d].pc = "loop", ![d].k = @ + 1] BY <1>5 DEF DispatchWait
    <3>2. disp' \in [Dispatchers -> DispatchStates] BY <1>0, <3>1, DispatchTyped DEF EventerTypes
    <3>3. QED BY <1>0, <1>5, <3>2 DEF DispatchWait, EventerTypes, EventerTypeOK, queueVars
  <2>2. Order' = Order BY <1>0, <1>5, OrderKept DEF DispatchWait
  <2>3. /\ \A c \in Dispatchers \ {d} : disp'[c] = disp[c]
        /\ disp[d].pc = "wait" /\ disp'[d].pc = "loop" /\ disp'[d].id = disp[d].id /\ disp'[d].k = disp[d].k + 1
        /\ disp[d].k \in Nat /\ nDispatch' = nDispatch /\ mh' = mh /\ stopped' = stopped
    BY <1>0, <1>5 DEF DispatchWait, EventerTypes, DispatchStates
  <2>4. OneAdder' BY <1>0, <2>3 DEF OneAdder
  <2>5. \A i \in 1..Len(Order) : Order[i].k \in Nat 
    <3>1. Order \in Seq(Jobs) BY <1>0, OrderType
    <3>2. \A i \in 1..Len(Order) : Order[i] \in Jobs BY <3>1
    <3>3. QED BY <3>2 DEF Jobs
  <2>6. (disp[d].k + 1) - 1 = disp[d].k BY <2>3
  <2>7. Order # <<>> /\ Order[Len(Order)] = [id |-> disp[d].id, k |-> disp[d].k] BY <1>0, <2>3 DEF Added, Job
  <2>8. Added(Order)'
    <3>1. \A c \in Dispatchers \ {d} : disp[c].pc \notin {"loop", "wait"} BY <1>0, <2>3 DEF OneAdder
    <3>2. \A i \in 1..Len(Order) : Order[i].id = disp[d].id => Order[i].k < disp[d].k + 1
      BY <1>0, <2>3, <2>5 DEF Added
    <3>3. \A i \in 1..Len(Order) : Order[i].id \in 1..nDispatch' BY <1>0, <2>3 DEF Added
    <3>4. ASSUME NEW c \in Dispatchers, NEW i \in 1..Len(Order), disp'[c].pc # "idle", Order[i].id = disp'[c].id
          PROVE disp'[c].pc # "lock" /\ (Order[i].k < disp'[c].k \/ (disp'[c].pc = "wait" /\ Order[i].k = disp'[c].k))
      BY <1>0, <2>3, <3>2, <3>4 DEF Added
    <3>5. ASSUME NEW c \in Dispatchers
          PROVE /\ disp'[c].pc = "loop" /\ disp'[c].k > 1
                     => Order # <<>> /\ Order[Len(Order)] = [id |-> disp'[c].id, k |-> disp'[c].k - 1]
                /\ disp'[c].pc # "wait"
      BY <2>3, <2>6, <2>7, <3>1
    <3>6. QED BY <2>2, <3>3, <3>4, <3>5 DEF Added
  <2>9. InBlocks(Order)' BY <1>0, <2>2 DEF InBlocks
  <2>10. QED BY <2>1, <2>4, <2>8, <2>9 DEF EventerInv
<1>6. ASSUME NEW d \in Dispatchers, DispatchEnd(d) PROVE EventerInv'
  <2>1. EventerTypes' BY <1>0, <1>6 DEF DispatchEnd, UnlockMh, DispatchStates, EventerTypes, EventerTypeOK, queueVars
  <2>2. Order' = Order BY <1>0, <1>6, OrderKept DEF DispatchEnd
  <2>3. /\ \A c \in Dispatchers \ {d} : disp'[c] = disp[c]
        /\ disp[d].pc = "loop" /\ disp'[d].pc = "idle"
        /\ nDispatch' = nDispatch /\ mh' = Nobody /\ stopped' = stopped
    BY <1>0, <1>6 DEF DispatchEnd, UnlockMh, EventerTypes, DispatchStates
  <2>4. OneAdder' BY <1>0, <2>3 DEF OneAdder
  <2>5. Added(Order)' BY <1>0, <2>2, <2>3 DEF Added, Job
  <2>6. InBlocks(Order)' BY <1>0, <2>2 DEF InBlocks
  <2>7. QED BY <2>1, <2>4, <2>5, <2>6 DEF EventerInv
<1>7. ASSUME EventerStart \/ EventerStop \/ StartReturns PROVE EventerInv'
  <2>1. EventerTypes' BY <1>0, <1>7 DEF EventerStart, EventerStop, StartReturns, EventerTypes, EventerTypeOK, queueVars
  <2>2. Order' = Order BY <1>0, <1>7, OrderKept DEF EventerStart, EventerStop, StartReturns
  <2>3. QED BY <1>0, <1>7, <2>1, <2>2, OthersKeep DEF EventerStart, EventerStop, StartReturns, EventerInv
<1>8. CASE HandlerStarts
  <2>1. EventerTypes'
    <3>1. queue \in Seq(Jobs) /\ queue # <<>> /\ active' = {Head(queue)} /\ queue' = Tail(queue)
          /\ finished' = finished /\ callback' \in {"on", "done"}
      BY <1>0, <1>8 DEF HandlerStarts, Take, EventerTypes
    <3>2. Head(queue) \in Jobs /\ queue' \in Seq(Jobs) BY <3>1
    <3>3. QED BY <1>0, <1>8, <3>1, <3>2 DEF HandlerStarts, EventerTypes, EventerTypeOK
  <2>2. Order' = Order BY <1>0, <1>8, OrderKept DEF HandlerStarts
  <2>3. QED BY <1>0, <1>8, <2>1, <2>2, OthersKeep DEF HandlerStarts, EventerInv
<1>9. ASSUME NEW n \in Events, HandlerOn(n) PROVE EventerInv'
  <2>1. EventerTypes' BY <1>0, <1>9 DEF HandlerOn, EventerTypes, EventerTypeOK, queueVars
  <2>2. Order' = Order BY <1>0, <1>9, OrderKept DEF HandlerOn
  <2>3. QED BY <1>0, <1>9, <2>1, <2>2, OthersKeep DEF HandlerOn, EventerInv
<1>10. CASE HandlerEnds
  <2>1. PICK j \in active : Finish(j) BY <1>10 DEF HandlerEnds
  <2>2. active = {j} /\ j \in Jobs BY <1>0, <2>1 DEF EventerTypes
  <2>3. active' = {} /\ finished' = Append(finished, j) /\ queue' = queue BY <2>1, <2>2 DEF Finish
  <2>4. EventerTypes' BY <1>0, <1>10, <2>2, <2>3 DEF HandlerEnds, EventerTypes, EventerTypeOK
  <2>5. Order' = Order BY <1>0, <2>1, OrderKept
  <2>6. QED BY <1>0, <1>10, <2>4, <2>5, OthersKeep DEF HandlerEnds, EventerInv
<1>11. CASE UNCHANGED eventerVars
  <2>1. EventerTypes' BY <1>0, <1>11 DEF eventerVars, EventerTypes, EventerTypeOK, queueVars
  <2>2. Order' = Order BY <1>0, <1>11, OrderKept DEF eventerVars
  <2>3. QED BY <1>0, <1>11, <2>1, <2>2, OthersKeep DEF eventerVars, EventerInv
<1>12. QED
  BY <1>1, <1>2, <1>3, <1>4, <1>5, <1>6, <1>7, <1>8, <1>9, <1>10, <1>11 DEF EventerNext, Dispatching, Executing

\* Dispatch (sync.go:383-404) holds mh from its first Add to its last Wait: the listeners
\* of one dispatch run in the order of their registration, with those of no other between.
THEOREM EventerInOrder == EventerSpec => []DispatchesInBlocks
<1>1. EventerInv => DispatchesInBlocks
  <2> SUFFICES ASSUME EventerInv PROVE DispatchesInBlocks OBVIOUS
  <2>1. EventerTypeOK /\ Order \in Seq(Jobs) BY OrderType DEF EventerInv, EventerTypes
  <2>2. DOMAIN Order = 1..Len(Order) BY <2>1
  <2>3. /\ \A i \in DOMAIN Order : \/ Order[i].k = 1
                                   \/ i > 1 /\ Order[i] = [Order[i - 1] EXCEPT !.k = @ + 1]
        /\ \A i, j \in DOMAIN Order : Order[i] = Order[j] => i = j
    BY <2>2, Zenon DEF EventerInv, InBlocks
  <2>4. QED BY <2>1, <2>3, Zenon DEF DispatchesInBlocks, Order, Current
<1>2. QED BY <1>1, EventerInvInit, EventerInvStep, PTL DEF EventerSpec

-----------------------------------------------------------------------------
\* Limiter.

\* Ticks of a ticker are a period apart.
LEMMA TicksApart == ASSUME NEW P \in Nat \ {0}, NEW a \in Nat, NEW b \in Nat, a % P = 0, b % P = 0, a < b
                    PROVE  b - a >= P
<1>1. a - P * (a \div P) = a % P /\ b - P * (b \div P) = b % P BY Z3
<1>2. a \div P \in Int /\ b \div P \in Int OBVIOUS
<1>3. PICK x \in Int, y \in Int : a - P * x = 0 /\ b - P * y = 0 BY <1>1, <1>2
<1>4. P * x = a /\ P * y = b BY <1>3
<1>5. y >= x + 1 BY <1>4
<1>6. P * y >= P * (x + 1) BY <1>5
<1>7. P * (x + 1) = P * x + P OBVIOUS
<1>8. QED BY <1>4, <1>6, <1>7

\* Whether the window that began at t has a tick of the bucket to come.
TickToCome(b, t) == \E time \in (clock + 1)..(t + Period - 1) : (time - bucket[b].made) % Period = 0

\* What the window that began at t may have admitted: what is counted, and the cap for
\* each of the three purges that are not to come any more, those of the ticks that were
\* in the goroutine's hand and in the channel when it began and that of its own tick.
Spent(pending) == IF pending THEN 0 ELSE Cap
Allowed(b, t) == bucket[b].count + Spent(bucket[b].hand) + Spent(bucket[b].tick) + Spent(TickToCome(b, t))

BucketStates == [state : {"none", "ticking", "closed", "over"}, made : 0..MaxClock, count : 0..Cap,
                 tick : BOOLEAN, hand : BOOLEAN]

LimiterTypes == /\ clock \in 0..MaxClock
                /\ bucket \in [Buckets -> BucketStates] /\ \A b \in Buckets : bucket[b].made <= clock
                /\ admitted \in [Buckets -> Seq(0..clock)]

Windows(b) == /\ bucket[b].state = "none" => admitted[b] = <<>>
              /\ \A t \in 0..MaxClock : /\ AtMost(b, t, t + Period) <= 4 * Cap
                                        /\ t <= clock /\ clock < t + Period => AtMost(b, t, t + Period) <= Allowed(b, t)

LimiterInv == LimiterTypes /\ \A b \in Buckets : Windows(b)

\* The count of a window: nothing of an empty history, one more when an admission of the
\* window is added, and nothing when no admission is that late.
LEMMA AtMostEmpty == ASSUME NEW b, admitted[b] = <<>>, NEW t, NEW u PROVE AtMost(b, t, u) = 0
<1>1. {i \in DOMAIN admitted[b] : t <= admitted[b][i] /\ admitted[b][i] < u} = {} OBVIOUS
<1>2. QED BY <1>1, FS_EmptySet, Zenon DEF AtMost

\* The admissions of an interval are counted by a natural number.
LEMMA AtMostFinite == ASSUME NEW b, NEW S, admitted[b] \in Seq(S), NEW t, NEW u
                      PROVE  /\ IsFiniteSet({i \in DOMAIN admitted[b] : t <= admitted[b][i] /\ admitted[b][i] < u})
                             /\ AtMost(b, t, u) \in Nat
<1> DEFINE D == DOMAIN admitted[b]
           W == {i \in DOMAIN admitted[b] : t <= admitted[b][i] /\ admitted[b][i] < u}
<1>1. IsFiniteSet(D)
  <2>1. D = 1..Len(admitted[b]) /\ Len(admitted[b]) \in Nat OBVIOUS
  <2>2. QED BY <2>1, FS_Interval
<1>2. W \subseteq D OBVIOUS
<1> HIDE DEF D
<1>3. IsFiniteSet(W) BY <1>1, <1>2, FS_Subset
<1>4. QED BY <1>3, FS_CardinalityType DEF AtMost

\* Nothing was admitted yet in an interval that starts after the last admission.
LEMMA AtMostLate == ASSUME NEW b \in Buckets, NEW T \in Nat, admitted[b] \in Seq(0..T), NEW t \in Nat, NEW u, T < t
                    PROVE  AtMost(b, t, u) = 0
<1>1. \A i \in DOMAIN admitted[b] : admitted[b][i] \in 0..T OBVIOUS
<1>2. {i \in DOMAIN admitted[b] : t <= admitted[b][i] /\ admitted[b][i] < u} = {} BY <1>1
<1>3. QED BY <1>2, FS_EmptySet, Zenon DEF AtMost

\* One more admission adds one to the intervals that hold its time, and nothing to the others.
LEMMA AtMostAppend ==
  ASSUME NEW b \in Buckets, NEW S \in SUBSET Nat, admitted[b] \in Seq(S), NEW T \in Nat, admitted'[b] = Append(admitted[b], T),
         NEW t \in Nat, NEW u \in Nat
  PROVE  /\ t <= T /\ T < u => AtMost(b, t, u)' = AtMost(b, t, u) + 1
         /\ ~(t <= T /\ T < u) => AtMost(b, t, u)' = AtMost(b, t, u)
<1> DEFINE n == Len(admitted[b])
           W == {i \in DOMAIN admitted[b] : t <= admitted[b][i] /\ admitted[b][i] < u}
           V == {i \in DOMAIN admitted'[b] : t <= admitted'[b][i] /\ admitted'[b][i] < u}
<1>1. /\ n \in Nat /\ DOMAIN admitted[b] = 1..n /\ DOMAIN admitted'[b] = 1..(n + 1) /\ admitted'[b][n + 1] = T
      /\ \A i \in 1..n : admitted'[b][i] = admitted[b][i]
  OBVIOUS
<1>2. n + 1 \notin W /\ IsFiniteSet(W)
  <2>1. n + 1 \notin 1..n BY <1>1
  <2>2. IsFiniteSet(W) BY AtMostFinite
  <2>3. QED BY <1>1, <2>1, <2>2
<1>3. AtMost(b, t, u) = Cardinality(W) /\ AtMost(b, t, u)' = Cardinality(V) BY DEF AtMost
<1>4. 1..(n + 1) = (1..n) \cup {n + 1} BY <1>1
<1>5. ASSUME t <= T /\ T < u PROVE V = W \cup {n + 1} BY <1>1, <1>4, <1>5
<1>6. ASSUME ~(t <= T /\ T < u) PROVE V = W BY <1>1, <1>4, <1>6
<1> HIDE DEF W, V, n
<1>7. Cardinality(W \cup {n + 1}) = Cardinality(W) + 1 BY <1>2, FS_AddElement
<1>8. QED BY <1>3, <1>5, <1>6, <1>7

\* No bucket exists before the first Add.
LEMMA LimiterInvInit == LimiterInit => LimiterInv
<1> SUFFICES ASSUME LimiterInit PROVE LimiterInv OBVIOUS
<1> USE LimiterAssumption
<1>1. LimiterTypes
  <2>1. NoBucket \in BucketStates /\ NoBucket.made = 0 BY DEF NoBucket, BucketStates
  <2>2. QED BY <2>1 DEF LimiterInit, LimiterTypes
<1>2. ASSUME NEW b \in Buckets PROVE Windows(b)
  <2>1. admitted[b] = <<>> /\ bucket[b].count = 0 BY DEF LimiterInit, NoBucket
  <2>2. \A t \in 0..MaxClock : AtMost(b, t, t + Period) = 0 BY <2>1, AtMostEmpty
  <2>3. QED BY <2>1, <2>2 DEF Windows, Allowed, Spent
<1>3. QED BY <1>1, <1>2 DEF LimiterInv

\* What is allowed is a number of at most four times the cap.
LEMMA AllowedBounded == ASSUME LimiterTypes, NEW b \in Buckets, NEW t
                        PROVE  Allowed(b, t) \in Nat /\ Allowed(b, t) <= 4 * Cap
<1>1. bucket[b].count \in 0..Cap BY DEF LimiterTypes, BucketStates
<1>2. QED BY <1>1, LimiterAssumption DEF Allowed, Spent

\* A step of bucket b that leaves the time and the other buckets alone keeps the windows of
\* those.
LEMMA OtherBuckets == ASSUME LimiterInv, NEW b \in Buckets, bucket'[b] = bucket[b], admitted'[b] = admitted[b], clock' = clock
                      PROVE  Windows(b)'
<1>1. \A t, u : AtMost(b, t, u)' = AtMost(b, t, u) BY DEF AtMost
<1>2. \A t : Allowed(b, t)' = Allowed(b, t) BY DEF Allowed, Spent, TickToCome
<1>3. QED BY <1>1, <1>2 DEF LimiterInv, Windows

\* A step that admits nothing keeps the windows of a bucket that allows no less.
LEMMA AllowsMore == ASSUME LimiterInv, LimiterTypes', NEW b \in Buckets, admitted'[b] = admitted[b], clock' = clock,
                           bucket'[b].state = "none" => bucket[b].state = "none",
                           \A t \in 0..MaxClock : Allowed(b, t)' >= Allowed(b, t)
                    PROVE  Windows(b)'
<1>1. \A t, u : AtMost(b, t, u)' = AtMost(b, t, u) BY DEF AtMost
<1>2. \A t \in 0..MaxClock : AtMost(b, t, t + Period) \in Nat BY AtMostFinite DEF LimiterInv, LimiterTypes
<1>3. \A t \in 0..MaxClock : Allowed(b, t) \in Nat /\ Allowed(b, t)' \in Nat
  <2>1. bucket'[b].count \in 0..Cap BY DEF LimiterTypes, BucketStates
  <2>2. \A t \in 0..MaxClock : Allowed(b, t)' \in Nat BY <2>1, LimiterAssumption DEF Allowed, Spent
  <2>3. QED BY <2>2, AllowedBounded DEF LimiterInv
<1>4. QED BY <1>1, <1>2, <1>3 DEF LimiterInv, Windows

\* A tick that fires spends the reset that the windows were waiting for.
LEMMA TimeKeeps == ASSUME LimiterInv, TimePasses PROVE LimiterInv'
<1> USE LimiterAssumption
<1>1. clock \in Nat /\ clock < MaxClock /\ clock' = clock + 1 /\ admitted' = admitted BY DEF TimePasses, LimiterInv, LimiterTypes
<1>2. ASSUME NEW b \in Buckets
      PROVE  /\ bucket[b] \in BucketStates /\ bucket'[b] \in BucketStates /\ bucket[b].made <= clock
             /\ bucket'[b].state = bucket[b].state /\ bucket'[b].made = bucket[b].made /\ bucket'[b].count = bucket[b].count
             /\ bucket'[b].hand = bucket[b].hand
             /\ \/ bucket'[b].tick = bucket[b].tick
                \/ bucket'[b].tick /\ (clock + 1 - bucket[b].made) % Period = 0
  <2>1. bucket[b] \in BucketStates /\ bucket[b].made <= clock BY DEF LimiterInv, LimiterTypes
  <2> DEFINE tick == bucket[b].tick \/ /\ bucket[b].state \in {"ticking", "closed"}
                                       /\ (clock + 1 - bucket[b].made) % Period = 0
  <2>2. bucket'[b] = [bucket[b] EXCEPT !.tick = tick] BY DEF TimePasses
  <2>3. tick \in BOOLEAN /\ (tick = bucket[b].tick \/ (tick /\ (clock + 1 - bucket[b].made) % Period = 0))
    BY <2>1 DEF BucketStates
  <2> HIDE DEF tick
  <2>4. QED BY <2>1, <2>2, <2>3 DEF BucketStates
<1>3. LimiterTypes'
  <2>1. bucket' \in [Buckets -> BucketStates] BY <1>2 DEF TimePasses
  <2>2. admitted' \in [Buckets -> Seq(0..clock')]
    <3>1. 0..clock \subseteq 0..clock' BY <1>1
    <3>2. Seq(0..clock) \subseteq Seq(0..clock') BY <3>1, SeqMonotonic
    <3>3. QED BY <1>1, <3>2 DEF LimiterInv, LimiterTypes
  <2>3. \A b \in Buckets : bucket'[b].made <= clock'
    <3> TAKE b \in Buckets
    <3>1. bucket[b].made \in Nat /\ bucket[b].made <= clock /\ bucket'[b].made = bucket[b].made
      BY <1>2 DEF BucketStates
    <3>2. QED BY <1>1, <3>1
  <2>4. QED BY <1>1, <2>1, <2>2, <2>3 DEF LimiterTypes
<1>4. ASSUME NEW b \in Buckets PROVE Windows(b)'
  <2>1. \A t, u : AtMost(b, t, u)' = AtMost(b, t, u) BY <1>1 DEF AtMost
  <2>2. Windows(b) BY DEF LimiterInv
  <2>3. bucket'[b].state = "none" => admitted'[b] = <<>> BY <1>1, <1>2, <2>2 DEF Windows
  <2>4. ASSUME NEW t \in 0..MaxClock, t <= clock', clock' < t + Period
        PROVE  AtMost(b, t, t + Period)' <= Allowed(b, t)'
    <3>1. bucket[b].count \in 0..Cap /\ bucket'[b].count = bucket[b].count /\ bucket[b].made \in Nat /\ bucket[b].made <= clock
      BY <1>2 DEF BucketStates
    <3>2. Allowed(b, t) \in Nat /\ Allowed(b, t)' \in Nat
      BY <1>2, <3>1 DEF Allowed, Spent
    <3>3. CASE t = clock'
      <4>1. admitted[b] \in Seq(0..clock) BY DEF LimiterInv, LimiterTypes
      <4>2. AtMost(b, t, t + Period) = 0 BY <1>1, <3>3, <4>1, AtMostLate
      <4>3. QED BY <2>1, <3>2, <4>2
    <3>4. CASE t <= clock
      <4>1. AtMost(b, t, t + Period) <= Allowed(b, t) BY <1>1, <2>2, <2>4, <3>4 DEF Windows
      <4>2. TickToCome(b, t)' => TickToCome(b, t) BY <1>1, <1>2 DEF TickToCome
      <4>3. ASSUME (clock + 1 - bucket[b].made) % Period = 0 PROVE TickToCome(b, t) /\ ~TickToCome(b, t)'
        <5>1. TickToCome(b, t)
          <6>1. clock + 1 \in (clock + 1)..(t + Period - 1) BY <1>1, <2>4
          <6>2. PICK time \in (clock + 1)..(t + Period - 1) : time = clock + 1 BY <6>1
          <6>3. (time - bucket[b].made) % Period = 0 BY <1>1, <3>1, <4>3, <6>2
          <6>4. QED BY <6>3 DEF TickToCome
        <5>2. ASSUME NEW time \in (clock + 2)..(t + Period - 1), (time - bucket[b].made) % Period = 0 PROVE FALSE
          <6> DEFINE x == clock + 1 - bucket[b].made  y == time - bucket[b].made
          <6>1. x \in Nat /\ y \in Nat /\ x < y /\ y - x < Period
            <7> DEFINE made == bucket[b].made
            <7>1. made \in Nat /\ made <= clock /\ clock \in Nat BY <1>1, <3>1
            <7>2. time \in Int /\ clock + 2 <= time /\ time <= t + Period - 1 /\ t \in Int BY <1>1, <2>4, <5>2
            <7>3. Period \in Nat OBVIOUS
            <7> HIDE DEF made
            <7>4. clock + 1 - made \in Nat /\ time - made \in Nat /\ clock + 1 - made < time - made
                  /\ (time - made) - (clock + 1 - made) < Period
              BY ONLY <3>4, <7>1, <7>2, <7>3
            <7>5. QED BY <7>4 DEF made
          <6>2. x % Period = 0 /\ y % Period = 0 BY <4>3, <5>2
          <6> HIDE DEF x, y
          <6>3. y - x >= Period BY <6>1, <6>2, TicksApart
          <6>4. QED BY <6>1, <6>3
        <5>3. clock' + 1 = clock + 2 BY <1>1
        <5>4. QED BY <1>2, <5>1, <5>2, <5>3 DEF TickToCome
      <4>4. Allowed(b, t)' >= Allowed(b, t)
        <5>0. PICK h : h = Spent(bucket[b].hand) OBVIOUS
        <5>4. h \in 0..Cap /\ Cap \in Nat BY <5>0 DEF Spent
        <5>5. /\ Allowed(b, t) = bucket[b].count + h + Spent(bucket[b].tick) + Spent(TickToCome(b, t))
              /\ Allowed(b, t)' = bucket[b].count + h + Spent(bucket'[b].tick) + Spent(TickToCome(b, t)')
          BY <1>2, <3>1, <5>0 DEF Allowed, Spent
        <5>1. CASE bucket'[b].tick = bucket[b].tick
          <6>1. Spent(TickToCome(b, t)') >= Spent(TickToCome(b, t)) /\ Spent(TickToCome(b, t)') \in 0..Cap
                /\ Spent(TickToCome(b, t)) \in 0..Cap
            BY ONLY <4>2, <5>4 DEF Spent
          <6>2. Spent(bucket'[b].tick) = Spent(bucket[b].tick) /\ Spent(bucket[b].tick) \in 0..Cap
            BY ONLY <5>1, <5>4 DEF Spent
          <6>3. bucket[b].count \in Nat BY <3>1
          <6>4. QED BY ONLY <5>4, <5>5, <6>1, <6>2, <6>3
        <5>2. CASE bucket'[b].tick /\ (clock + 1 - bucket[b].made) % Period = 0
          <6>1. TickToCome(b, t) /\ ~TickToCome(b, t)' BY <4>3, <5>2
          <6>2. Spent(TickToCome(b, t)') = Cap /\ Spent(TickToCome(b, t)) = 0 BY ONLY <6>1 DEF Spent
          <6>3. Spent(bucket'[b].tick) = 0 /\ Spent(bucket[b].tick) \in 0..Cap BY ONLY <5>2, <5>4 DEF Spent
          <6>4. bucket[b].count \in Nat BY <3>1
          <6>5. QED BY ONLY <5>4, <5>5, <6>2, <6>3, <6>4
        <5>3. QED BY <1>2, <5>1, <5>2
      <4>5. AtMost(b, t, t + Period) \in Nat BY AtMostFinite DEF LimiterInv, LimiterTypes
      <4>6. QED BY <2>1, <3>2, <4>1, <4>4, <4>5
    <3>5. QED BY <1>1, <2>4, <3>3, <3>4
  <2>5. QED BY <2>1, <2>2, <2>3, <2>4 DEF Windows
<1>5. QED BY <1>3, <1>4 DEF LimiterInv

\* Inc (limiter.go:75-83) spends one of the room that the window is allowed.
LEMMA IncKeeps == ASSUME LimiterInv, NEW b \in Buckets, Inc(b) PROVE LimiterInv'
<1> USE LimiterAssumption
<1>1. /\ bucket[b].state # "none" /\ bucket[b].count < Cap /\ clock' = clock /\ clock \in Nat
      /\ bucket' = [bucket EXCEPT ![b].count = @ + 1] /\ admitted' = [admitted EXCEPT ![b] = Append(@, clock)]
  BY DEF Inc, HasRoom, LimiterInv, LimiterTypes
<1>2. bucket[b] \in BucketStates /\ admitted[b] \in Seq(0..clock) BY DEF LimiterInv, LimiterTypes
<1>3. /\ bucket'[b] \in BucketStates /\ bucket'[b].count = bucket[b].count + 1
      /\ bucket'[b].state = bucket[b].state /\ bucket'[b].tick = bucket[b].tick /\ bucket'[b].made = bucket[b].made
      /\ bucket'[b].hand = bucket[b].hand
  <2>1. bucket'[b] = [bucket[b] EXCEPT !.count = @ + 1] BY <1>1 DEF LimiterInv, LimiterTypes
  <2>2. bucket[b].count \in 0..Cap /\ bucket[b].count < Cap => bucket[b].count + 1 \in 0..Cap BY ONLY LimiterAssumption
  <2>3. PICK n : n = bucket[b].count + 1 OBVIOUS
  <2>4. PICK counts : counts = 0..Cap OBVIOUS
  <2>5. bucket[b] \in [state : {"none", "ticking", "closed", "over"}, made : 0..MaxClock, count : counts,
                      tick : BOOLEAN, hand : BOOLEAN]
    BY ONLY <1>2, <2>4 DEF BucketStates
  <2>6. bucket'[b] = [bucket[b] EXCEPT !.count = n] BY ONLY <2>1, <2>3
  <2>7. n \in counts BY ONLY <1>1, <1>2, <2>2, <2>3, <2>4 DEF BucketStates
  <2>8. /\ bucket'[b] \in [state : {"none", "ticking", "closed", "over"}, made : 0..MaxClock, count : counts,
                           tick : BOOLEAN, hand : BOOLEAN]
        /\ bucket'[b].count = n
        /\ bucket'[b].state = bucket[b].state /\ bucket'[b].tick = bucket[b].tick /\ bucket'[b].made = bucket[b].made
        /\ bucket'[b].hand = bucket[b].hand
    BY ONLY <2>5, <2>6, <2>7
  <2>9. QED BY ONLY <2>3, <2>4, <2>8 DEF BucketStates
<1>4. \A a \in Buckets \ {b} : bucket'[a] = bucket[a] /\ admitted'[a] = admitted[a] BY <1>1 DEF LimiterInv, LimiterTypes
<1>5. admitted'[b] = Append(admitted[b], clock) BY <1>1 DEF LimiterInv, LimiterTypes
<1>6. LimiterTypes'
  <2>1. bucket' \in [Buckets -> BucketStates] BY <1>1, <1>3 DEF LimiterInv, LimiterTypes
  <2>2. admitted'[b] \in Seq(0..clock)
    <3>1. clock \in 0..clock BY <1>1
    <3>2. QED BY <1>2, <1>5, <3>1, AppendProperties
  <2>3. admitted' \in [Buckets -> Seq(0..clock)] BY <1>1, <2>2, <1>5 DEF LimiterInv, LimiterTypes
  <2>4. \A a \in Buckets : bucket'[a].made <= clock BY <1>3, <1>4 DEF LimiterInv, LimiterTypes
  <2>5. QED BY <1>1, <2>1, <2>3, <2>4 DEF LimiterInv, LimiterTypes
<1>7. ASSUME NEW a \in Buckets, a # b PROVE Windows(a)' BY <1>1, <1>4, <1>7, OtherBuckets
<1>8. Windows(b)'
  <2>1. Windows(b) BY DEF LimiterInv
  <2>2. ASSUME NEW t \in 0..MaxClock
        PROVE  /\ AtMost(b, t, t + Period)' <= 4 * Cap
               /\ t <= clock /\ clock < t + Period => AtMost(b, t, t + Period)' <= Allowed(b, t)'
    <3>1. AtMost(b, t, t + Period) \in Nat BY <1>2, AtMostFinite
    <3>2. bucket[b].count \in Nat /\ bucket[b].count < Cap BY <1>1, <1>2 DEF BucketStates
    <3>3. TickToCome(b, t)' = TickToCome(b, t) BY <1>1, <1>3 DEF TickToCome
    <3>4. Allowed(b, t)' = Allowed(b, t) + 1 /\ Allowed(b, t) \in Nat /\ Allowed(b, t)' <= 4 * Cap
      BY <1>3, <3>2, <3>3 DEF Allowed, Spent
    <3>5. AtMost(b, t, t + Period) <= 4 * Cap
          /\ (t <= clock /\ clock < t + Period => AtMost(b, t, t + Period) <= Allowed(b, t))
      BY <2>1 DEF Windows
    <3>6. /\ t <= clock /\ clock < t + Period => AtMost(b, t, t + Period)' = AtMost(b, t, t + Period) + 1
          /\ ~(t <= clock /\ clock < t + Period) => AtMost(b, t, t + Period)' = AtMost(b, t, t + Period)
      <4>1. 0..clock \in SUBSET Nat /\ t \in Nat /\ t + Period \in Nat OBVIOUS
      <4>2. QED BY ONLY <1>1, <1>2, <1>5, <4>1, AtMostAppend, b \in Buckets, Zenon
    <3>7. QED BY <3>1, <3>4, <3>5, <3>6
  <2>3. QED BY <1>1, <1>3, <2>2 DEF Windows
<1>9. QED BY <1>6, <1>7, <1>8 DEF LimiterInv

\* Every step of the limiter, of its ticker and of the clock keeps the windows bounded.
LEMMA LimiterInvStep == LimiterInv /\ [LimiterNext]_limiterVars => LimiterInv'
<1> SUFFICES ASSUME LimiterInv, [LimiterNext]_limiterVars PROVE LimiterInv' OBVIOUS
<1> USE LimiterAssumption
<1>0. LimiterTypes /\ \A b \in Buckets : bucket[b] \in BucketStates BY DEF LimiterInv, LimiterTypes
<1>1. ASSUME NEW b \in Buckets, AddBucket(b) PROVE LimiterInv'
  <2>1. CASE bucket[b].state = "none"
    <3>1. bucket' = [bucket EXCEPT ![b].state = "ticking", ![b].made = clock] /\ clock' = clock /\ admitted' = admitted
      BY <1>1, <2>1 DEF AddBucket
    <3>2. bucket'[b] \in BucketStates /\ bucket'[b].made = clock
      <4>1. bucket'[b] = [state |-> "ticking", made |-> clock, count |-> bucket[b].count, tick |-> bucket[b].tick,
                           hand |-> bucket[b].hand]
        BY <1>0, <3>1 DEF LimiterTypes, BucketStates
      <4>2. QED BY <1>0, <4>1 DEF LimiterTypes, BucketStates
    <3>3. \A a \in Buckets \ {b} : bucket'[a] = bucket[a] /\ admitted'[a] = admitted[a] BY <1>0, <3>1 DEF LimiterTypes
    <3>4. LimiterTypes'
      <4>1. bucket' \in [Buckets -> BucketStates] BY <1>0, <3>1, <3>2, <3>3 DEF LimiterTypes
      <4>0. clock \in Nat /\ \A a \in Buckets : bucket[a].made <= clock BY <1>0 DEF LimiterTypes
      <4>2. \A a \in Buckets : bucket'[a].made <= clock BY ONLY <3>2, <3>3, <4>0
      <4>3. QED BY <1>0, <3>1, <4>1, <4>2 DEF LimiterTypes
    <3>5. ASSUME NEW a \in Buckets, a # b PROVE Windows(a)' BY <3>1, <3>3, <3>5, OtherBuckets
    <3>6. Windows(b)'
      <4>1. admitted'[b] = <<>> BY <2>1, <3>1 DEF LimiterInv, Windows
      <4>2. \A t \in 0..MaxClock : AtMost(b, t, t + Period)' = 0
        <5>1. \A t, u : AtMost(b, t, u) = 0 BY <2>1, AtMostEmpty DEF LimiterInv, Windows
        <5>2. QED BY <3>1, <5>1 DEF AtMost
      <4>3. bucket'[b].count \in 0..Cap BY <3>2 DEF BucketStates
      <4>4. \A t \in 0..MaxClock : Allowed(b, t)' >= 0 BY <4>3 DEF Allowed, Spent
      <4>5. QED BY <4>1, <4>2, <4>4 DEF Windows
    <3>7. QED BY <3>4, <3>5, <3>6 DEF LimiterInv
  <2>2. CASE bucket[b].state # "none"
    <3>1. bucket' = bucket /\ clock' = clock /\ admitted' = admitted BY <1>1, <2>2 DEF AddBucket
    <3>2. LimiterTypes' BY <1>0, <3>1 DEF LimiterTypes
    <3>3. QED BY <3>1, <3>2, OtherBuckets DEF LimiterInv
  <2>3. QED BY <2>1, <2>2
<1>2. ASSUME NEW b \in Buckets, TakeTick(b) \/ Purge(b) \/ TickEnds(b) PROVE LimiterInv'
  <2>1. /\ clock' = clock /\ admitted' = admitted
        /\ \E x \in BucketStates :
             /\ bucket' = [bucket EXCEPT ![b] = x]
             /\ x.made = bucket[b].made /\ (x.state = "none" => bucket[b].state = "none")
             /\ \/ x.count = bucket[b].count /\ bucket[b].tick /\ ~x.tick /\ ~bucket[b].hand /\ x.hand
                \/ x.count = 0 /\ x.tick = bucket[b].tick /\ bucket[b].hand /\ ~x.hand
                \/ x.count = bucket[b].count /\ ~x.tick /\ x.hand = bucket[b].hand
    <3>0. bucket[b] \in BucketStates BY <1>0
    <3>1. CASE TakeTick(b)
      <4>1. PICK x : x = [bucket[b] EXCEPT !.tick = FALSE, !.hand = TRUE] OBVIOUS
      <4>2. bucket' = [bucket EXCEPT ![b] = x] /\ clock' = clock /\ admitted' = admitted /\ bucket[b].tick /\ ~bucket[b].hand
        BY <3>1, <4>1 DEF TakeTick, Selects
      <4>3. /\ x \in BucketStates /\ x.made = bucket[b].made /\ x.state = bucket[b].state /\ x.count = bucket[b].count
            /\ ~x.tick /\ x.hand
        BY ONLY <3>0, <4>1 DEF BucketStates
      <4>4. QED BY ONLY <4>2, <4>3
    <3>2. CASE Purge(b)
      <4>1. PICK x : x = [bucket[b] EXCEPT !.count = 0, !.hand = FALSE] OBVIOUS
      <4>2. bucket' = [bucket EXCEPT ![b] = x] /\ clock' = clock /\ admitted' = admitted /\ bucket[b].hand
        BY <3>2, <4>1 DEF Purge
      <4>3. /\ x \in BucketStates /\ x.made = bucket[b].made /\ x.state = bucket[b].state /\ x.count = 0
            /\ x.tick = bucket[b].tick /\ ~x.hand
        <5>1. 0 \in 0..Cap BY LimiterAssumption
        <5>2. PICK zero : zero = 0 OBVIOUS
        <5>3. PICK counts : counts = 0..Cap OBVIOUS
        <5>4. bucket[b] \in [state : {"none", "ticking", "closed", "over"}, made : 0..MaxClock, count : counts,
                            tick : BOOLEAN, hand : BOOLEAN]
          BY ONLY <3>0, <5>3 DEF BucketStates
        <5>5. /\ x \in [state : {"none", "ticking", "closed", "over"}, made : 0..MaxClock, count : counts,
                       tick : BOOLEAN, hand : BOOLEAN]
              /\ x.made = bucket[b].made /\ x.state = bucket[b].state /\ x.count = zero
              /\ x.tick = bucket[b].tick /\ ~x.hand
          BY ONLY <4>1, <5>1, <5>2, <5>3, <5>4
        <5>6. QED BY ONLY <5>2, <5>3, <5>5 DEF BucketStates
      <4>4. QED BY ONLY <4>2, <4>3
    <3>3. CASE TickEnds(b)
      <4>1. PICK x : x = [bucket[b] EXCEPT !.state = "over", !.tick = FALSE] OBVIOUS
      <4>2. bucket' = [bucket EXCEPT ![b] = x] /\ clock' = clock /\ admitted' = admitted
        BY <3>3, <4>1 DEF TickEnds
      <4>3. /\ x \in BucketStates /\ x.made = bucket[b].made /\ x.state = "over" /\ x.count = bucket[b].count
            /\ ~x.tick /\ x.hand = bucket[b].hand
        BY ONLY <3>0, <4>1 DEF BucketStates
      <4>4. QED BY ONLY <4>2, <4>3
    <3>4. QED BY <1>2, <3>1, <3>2, <3>3
  <2>2. PICK x \in BucketStates :
             /\ bucket' = [bucket EXCEPT ![b] = x]
             /\ x.made = bucket[b].made /\ (x.state = "none" => bucket[b].state = "none")
             /\ \/ x.count = bucket[b].count /\ bucket[b].tick /\ ~x.tick /\ ~bucket[b].hand /\ x.hand
                \/ x.count = 0 /\ x.tick = bucket[b].tick /\ bucket[b].hand /\ ~x.hand
                \/ x.count = bucket[b].count /\ ~x.tick /\ x.hand = bucket[b].hand
    BY <2>1
  <2>3. bucket'[b] = x /\ bucket' \in [Buckets -> BucketStates] /\ \A a \in Buckets \ {b} : bucket'[a] = bucket[a]
    BY <1>0, <2>2 DEF LimiterTypes
  <2>4. LimiterTypes'
    <3>1. \A a \in Buckets : bucket'[a].made <= clock BY <1>0, <2>2, <2>3 DEF LimiterTypes
    <3>2. QED BY <1>0, <2>1, <2>3, <3>1 DEF LimiterTypes
  <2>5. ASSUME NEW a \in Buckets, a # b PROVE Windows(a)' BY <2>1, <2>3, <2>5, OtherBuckets
  <2>6. ASSUME NEW t \in 0..MaxClock PROVE Allowed(b, t)' >= Allowed(b, t)
    <3>1. TickToCome(b, t)' = TickToCome(b, t) BY <2>1, <2>2, <2>3 DEF TickToCome
    <3>2. bucket[b].count \in 0..Cap /\ x.count \in 0..Cap /\ Cap \in Nat BY <1>0 DEF BucketStates
    <3>3. PICK c : c = Spent(TickToCome(b, t)) OBVIOUS
    <3>4. c \in 0..Cap BY <3>2, <3>3 DEF Spent
    <3>5. Allowed(b, t) = bucket[b].count + Spent(bucket[b].hand) + Spent(bucket[b].tick) + c BY <3>3 DEF Allowed, Spent
    <3>6. Allowed(b, t)' = x.count + Spent(x.hand) + Spent(x.tick) + c BY <2>3, <3>1, <3>3 DEF Allowed, Spent
    <3>7. bucket[b].hand \in BOOLEAN /\ bucket[b].tick \in BOOLEAN BY <1>0 DEF BucketStates
    <3>8. QED BY ONLY <2>2, <3>2, <3>4, <3>5, <3>6, <3>7 DEF Spent
  <2>7. bucket'[b].state = "none" => bucket[b].state = "none" BY <2>2, <2>3
  <2>8. Windows(b)' BY <2>1, <2>4, <2>6, <2>7, AllowsMore
  <2>9. QED BY <2>4, <2>5, <2>8 DEF LimiterInv
<1>3. ASSUME NEW bs, CloseBuckets(bs) PROVE LimiterInv'
  <2>1. clock' = clock /\ admitted' = admitted BY <1>3 DEF CloseBuckets
  <2>2. ASSUME NEW b \in Buckets
        PROVE  /\ bucket'[b] \in BucketStates /\ bucket'[b].made = bucket[b].made /\ bucket'[b].count = bucket[b].count
               /\ bucket'[b].tick = bucket[b].tick /\ bucket'[b].hand = bucket[b].hand
               /\ (bucket'[b].state = "none" => bucket[b].state = "none")
    <3>1. bucket'[b] = bucket[b] \/ bucket'[b] = [bucket[b] EXCEPT !.state = "closed"] BY <1>3 DEF CloseBuckets
    <3>2. QED BY <1>0, <3>1 DEF BucketStates
  <2>3. LimiterTypes'
    <3>1. bucket' \in [Buckets -> BucketStates] BY <1>3, <2>2 DEF CloseBuckets
    <3>2. QED BY <1>0, <2>1, <2>2, <3>1 DEF LimiterTypes
  <2>4. ASSUME NEW b \in Buckets PROVE Windows(b)'
    <3>1. \A t : Allowed(b, t)' = Allowed(b, t) BY <2>1, <2>2 DEF Allowed, Spent, TickToCome
    <3>2. \A t \in 0..MaxClock : Allowed(b, t) \in Nat BY <1>0, AllowedBounded
    <3>3. \A t \in 0..MaxClock : Allowed(b, t)' >= Allowed(b, t) BY <3>1, <3>2
    <3>4. QED BY <2>1, <2>2, <2>3, <3>3, AllowsMore
  <2>5. QED BY <2>3, <2>4 DEF LimiterInv
<1>4. CASE UNCHANGED limiterVars
  <2>1. bucket' = bucket /\ clock' = clock /\ admitted' = admitted BY <1>4 DEF limiterVars
  <2>2. LimiterTypes' BY <1>0, <2>1 DEF LimiterTypes
  <2>3. QED BY <2>1, <2>2, OtherBuckets DEF LimiterInv
<1>5. QED BY <1>1, <1>2, <1>3, <1>4, TimeKeeps, IncKeeps DEF LimiterNext

\* A bucket (limiter.go:75-99) admits at most four times its cap in any interval as long
\* as its period, however late its goroutine handles the ticks.
THEOREM LimiterBounds == LimiterSpec => []WindowBounded
<1>1. LimiterInv => WindowBounded
  <2> SUFFICES ASSUME LimiterInv PROVE WindowBounded OBVIOUS
  <2>1. LimiterTypeOK BY LimiterAssumption DEF LimiterInv, LimiterTypes, LimiterTypeOK, BucketStates
  <2>2. \A b \in Buckets : \A t \in 0..MaxClock : AtMost(b, t, t + Period) <= 4 * Cap BY DEF LimiterInv, Windows
  <2>3. QED BY <2>1, <2>2 DEF WindowBounded
<1>2. QED BY <1>1, LimiterInvInit, LimiterInvStep, PTL DEF LimiterSpec

-----------------------------------------------------------------------------
\* Cache.

\* A set of numbers that is not empty has a least one.
LEMMA LeastOf == ASSUME NEW T \in SUBSET Nat, T # {} PROVE Min(T) \in T
<1>1. PICK n \in T : \A q \in T : ~(<<q, n>> \in OpToRel(<, Nat))
  BY NatLessThanWellFounded, WFMin
<1>2. \A q \in T : ~(q < n)
  <2> SUFFICES ASSUME NEW q \in T, q < n PROVE <<q, n>> \in OpToRel(<, Nat) BY <1>1
  <2> QED BY DEF OpToRel
<1>3. \A q \in T : n <= q
  <2> TAKE q \in T
  <2>1. q \in Nat /\ n \in Nat /\ ~(q < n) BY <1>1, <1>2
  <2>2. QED BY <2>1
<1>4. \E x \in T : \A y \in T : x =< y BY <1>1, <1>3
<1>5. QED BY <1>4 DEF Min

Items == [key : Keys, used : Nat]

-----------------------------------------------------------------------------
\* A unit is the place of an item beside one of the numbers up to its size.
LEMMA UnitsOf == ASSUME NEW s PROVE \A u : u \in Units(s) <=> \E i \in DOMAIN s : \E n \in 1..SizeOf[s[i].key] : u = <<i, n>>
BY DEF Units

\* What the items take is a number.
LEMMA UnitsFinite == ASSUME NEW s \in Seq(Items) PROVE IsFiniteSet(Units(s)) /\ Cumulated(s) \in Nat
<1> DEFINE All == {{i} \X (1..SizeOf[s[i].key]) : i \in DOMAIN s}
           F == [i \in DOMAIN s |-> {i} \X (1..SizeOf[s[i].key])]
<1>1. IsFiniteSet(DOMAIN s)
  <2>1. DOMAIN s = 1..Len(s) /\ Len(s) \in Nat OBVIOUS
  <2>2. QED BY <2>1, FS_Interval
<1>2. F \in Surjection(DOMAIN s, All) BY DEF Surjection
<1>3. IsFiniteSet(All) BY ONLY <1>1, <1>2, FS_Surjection
<1>4. ASSUME NEW T \in All PROVE IsFiniteSet(T)
  <2>1. PICK i \in DOMAIN s : T = {i} \X (1..SizeOf[s[i].key]) OBVIOUS
  <2>2. SizeOf[s[i].key] \in Nat
    <3>1. s[i] \in Items OBVIOUS
    <3>2. QED BY <3>1, CacheAssumption DEF Items
  <2>3. IsFiniteSet({i}) /\ IsFiniteSet(1..SizeOf[s[i].key])
    <3>1. ASSUME NEW k \in Nat PROVE IsFiniteSet(1..k)
      <4>1. 1 \in Int /\ k \in Int OBVIOUS
      <4>2. QED BY ONLY <4>1, FS_Interval
    <3>2. QED BY <2>2, <3>1, FS_Singleton
  <2>4. QED BY <2>1, <2>3, FS_Product
<1>5. IsFiniteSet(UNION All) BY <1>3, <1>4, FS_UNION
<1>6. Units(s) = UNION All BY DEF Units
<1>7. IsFiniteSet(Units(s)) BY <1>5, <1>6
<1>8. QED BY <1>7, FS_CardinalityType DEF Cumulated

\* Nothing takes nothing, and one item takes its size.
LEMMA CumulatedNone == Cumulated(<<>>) = 0
<1>1. Units(<<>>) = {} BY DEF Units
<1>2. QED BY <1>1, FS_EmptySet DEF Cumulated

\* An item alone has its own size.
LEMMA CumulatedOne == ASSUME NEW x \in Items PROVE Cumulated(<<x>>) = SizeOf[x.key]
<1> DEFINE k == SizeOf[x.key]
           f == [n \in 1..k |-> <<1, n>>]
<1>1. k \in Nat BY CacheAssumption DEF Items
<1>2. \A u : u \in Units(<<x>>) <=> \E n \in 1..k : u = <<1, n>> BY UnitsOf
<1>3. f \in Bijection(1..k, Units(<<x>>))
  <2> HIDE DEF k
  <2>1. f \in [1..k -> Units(<<x>>)] BY <1>2
  <2>2. \A q, n \in 1..k : f[q] = f[n] => q = n OBVIOUS
  <2>3. \A u \in Units(<<x>>) : \E n \in 1..k : f[n] = u BY <1>2
  <2>4. QED BY <2>1, <2>2, <2>3 DEF Bijection, Injection, Surjection, IsInjective
<1>4. IsFiniteSet(1..k) /\ Cardinality(1..k) = k
  <2> HIDE DEF k
  <2>1. 1 \in Int /\ k \in Int BY ONLY <1>1
  <2>2. IsFiniteSet(1..k) /\ Cardinality(1..k) = (IF 1 > k THEN 0 ELSE k - 1 + 1) BY ONLY <2>1, FS_Interval
  <2>3. QED BY ONLY <1>1, <2>2
<1>5. ExistsBijection(1..k, Units(<<x>>)) BY <1>3 DEF ExistsBijection
<1>6. Cardinality(Units(<<x>>)) = Cardinality(1..k) BY ONLY <1>4, <1>5, FS_Bijection
<1>7. QED BY <1>4, <1>6 DEF Cumulated

\* Items that stand, in whatever order, for some of the items of t take no more than those.
LEMMA CumulatedSome ==
  ASSUME NEW s \in Seq(Items), NEW t \in Seq(Items), NEW f \in Injection(1..Len(s), 1..Len(t)),
         \A i \in 1..Len(s) : s[i].key = t[f[i]].key
  PROVE  Cumulated(s) <= Cumulated(t)
<1> DEFINE g == [u \in Units(s) |-> <<f[u[1]], u[2]>>]
<1>1. DOMAIN s = 1..Len(s) /\ DOMAIN t = 1..Len(t) OBVIOUS
<1>2. \A i \in 1..Len(s) : f[i] \in 1..Len(t) BY DEF Injection
<1>3. \A i, j \in 1..Len(s) : f[i] = f[j] => i = j BY DEF Injection, IsInjective
<1>4. ASSUME NEW u \in Units(s) PROVE g[u] \in Units(t)
  <2>1. PICK i \in 1..Len(s) : \E n \in 1..SizeOf[s[i].key] : u = <<i, n>> BY <1>1, UnitsOf
  <2>1a. PICK n \in 1..SizeOf[s[i].key] : u = <<i, n>> BY <2>1
  <2>2. g[u] = <<f[i], n>> BY <2>1a
  <2>3. f[i] \in DOMAIN t /\ n \in 1..SizeOf[t[f[i]].key] BY <1>1, <1>2, <2>1a
  <2> HIDE DEF g
  <2>4. QED BY <2>2, <2>3, UnitsOf
<1>5. ASSUME NEW u \in Units(s), NEW v \in Units(s), g[u] = g[v] PROVE u = v
  <2>1. PICK i \in 1..Len(s) : \E n \in 1..SizeOf[s[i].key] : u = <<i, n>> BY <1>1, UnitsOf
  <2>1a. PICK n \in 1..SizeOf[s[i].key] : u = <<i, n>> BY <2>1
  <2>2. PICK j \in 1..Len(s) : \E q \in 1..SizeOf[s[j].key] : v = <<j, q>> BY <1>1, UnitsOf
  <2>2a. PICK q \in 1..SizeOf[s[j].key] : v = <<j, q>> BY <2>2
  <2>3. g[u] = <<f[i], n>> /\ g[v] = <<f[j], q>> BY <2>1a, <2>2a
  <2>4. f[i] = f[j] /\ n = q BY <1>5, <2>3
  <2>5. QED BY <1>3, <2>1a, <2>2a, <2>4
<1>6. g \in Injection(Units(s), Units(t))
  <2>1. g \in [Units(s) -> Units(t)] BY <1>4
  <2>2. QED BY <1>5, <2>1 DEF Injection, IsInjective
<1>7. IsFiniteSet(Units(t)) BY UnitsFinite
<1> HIDE DEF g
<1>8. Cardinality(Units(s)) <= Cardinality(Units(t)) BY ONLY <1>6, <1>7, FS_Injection
<1>9. QED BY <1>8 DEF Cumulated

\* Two lists of items take together what each of them takes.
LEMMA CumulatedConcat == ASSUME NEW s \in Seq(Items), NEW t \in Seq(Items)
                         PROVE  Cumulated(s \o t) = Cumulated(s) + Cumulated(t)
<1> DEFINE c == s \o t
           n == Len(s)
           f == [u \in Units(t) |-> <<n + u[1], u[2]>>]
           Later == {f[u] : u \in Units(t)}
<1>1. /\ n \in Nat /\ Len(t) \in Nat /\ DOMAIN s = 1..n /\ DOMAIN t = 1..Len(t) /\ DOMAIN c = 1..(n + Len(t))
      /\ \A i \in 1..n : c[i] = s[i]
      /\ \A i \in 1..Len(t) : c[n + i] = t[i]
  OBVIOUS
<1> HIDE DEF c, n
<1>2. \A i \in 1..Len(t) : \A q \in 1..SizeOf[t[i].key] : <<i, q>> \in Units(t) /\ f[<<i, q>>] = <<n + i, q>>
  BY <1>1, UnitsOf
<1>3. ASSUME NEW u \in Units(t) PROVE \E i \in 1..Len(t) : \E q \in 1..SizeOf[t[i].key] : u = <<i, q>> /\ f[u] = <<n + i, q>>
  <2>a. \A x : x \in Units(t) <=> \E i \in DOMAIN t : \E q \in 1..SizeOf[t[i].key] : x = <<i, q>> BY ONLY UnitsOf
  <2>0. \E i \in DOMAIN t : \E q \in 1..SizeOf[t[i].key] : u = <<i, q>> BY ONLY <2>a, u \in Units(t)
  <2>1. PICK i \in 1..Len(t) : \E q \in 1..SizeOf[t[i].key] : u = <<i, q>> BY ONLY <1>1, <2>0
  <2>1a. PICK q \in 1..SizeOf[t[i].key] : u = <<i, q>> BY <2>1
  <2>2. QED BY <1>2, <2>1a
<1>4. DOMAIN f = Units(t) OBVIOUS
<1> HIDE DEF f
<1>5. Units(c) = Units(s) \cup Later
  <2>1. ASSUME NEW u \in Units(c) PROVE u \in Units(s) \cup Later
    <3>1. PICK i \in 1..(n + Len(t)) : \E q \in 1..SizeOf[c[i].key] : u = <<i, q>> BY <1>1, UnitsOf
    <3>1a. PICK q \in 1..SizeOf[c[i].key] : u = <<i, q>> BY <3>1
    <3>2. CASE i \in 1..n BY <1>1, <3>1a, <3>2, UnitsOf
    <3>3. CASE i \notin 1..n
      <4>1. PICK j \in 1..Len(t) : i = n + j
        <5>1. i - n \in 1..Len(t) /\ i = n + (i - n) BY <1>1, <3>3
        <5>2. QED BY <5>1
      <4>2. c[i] = t[j] BY <1>1, <4>1
      <4>3. u = f[<<j, q>>] /\ <<j, q>> \in Units(t) BY <1>2, <3>1a, <4>1, <4>2
      <4>4. QED BY <4>3
    <3>4. QED BY <3>2, <3>3
  <2>2. ASSUME NEW u \in Units(s) PROVE u \in Units(c)
    <3>1. PICK i \in 1..n : \E q \in 1..SizeOf[s[i].key] : u = <<i, q>> BY <1>1, UnitsOf
    <3>1a. PICK q \in 1..SizeOf[s[i].key] : u = <<i, q>> BY <3>1
    <3>2. i \in DOMAIN c /\ c[i] = s[i] BY <1>1
    <3>3. QED BY <3>1a, <3>2, UnitsOf
  <2>3. ASSUME NEW v \in Units(t) PROVE f[v] \in Units(c)
    <3>1. PICK i \in 1..Len(t) : \E q \in 1..SizeOf[t[i].key] : f[v] = <<n + i, q>> BY <1>3
    <3>1a. PICK q \in 1..SizeOf[t[i].key] : f[v] = <<n + i, q>> BY <3>1
    <3>2. n + i \in DOMAIN c /\ c[n + i] = t[i] BY <1>1
    <3>3. QED BY <3>1a, <3>2, UnitsOf
  <2>4. QED BY <2>1, <2>2, <2>3
<1>6. Units(s) \cap Later = {}
  <2> SUFFICES ASSUME NEW v \in Units(t), f[v] \in Units(s) PROVE FALSE OBVIOUS
  <2>1. PICK i \in 1..Len(t) : \E q \in 1..SizeOf[t[i].key] : f[v] = <<n + i, q>> BY <1>3
  <2>1a. PICK q \in 1..SizeOf[t[i].key] : f[v] = <<n + i, q>> BY <2>1
  <2>6. \A u : u \in Units(s) => \E j \in DOMAIN s : \E k \in 1..SizeOf[s[j].key] : u = <<j, k>> BY UnitsOf
  <2>5. \E j \in DOMAIN s : \E k \in 1..SizeOf[s[j].key] : f[v] = <<j, k>> BY ONLY f[v] \in Units(s), <2>6, Zenon
  <2>2. PICK j \in 1..n : \E k \in 1..SizeOf[s[j].key] : f[v] = <<j, k>> BY <1>1, <2>5
  <2>2a. PICK k \in 1..SizeOf[s[j].key] : f[v] = <<j, k>> BY <2>2
  <2>3. n + i = j BY <2>1a, <2>2a
  <2>4. QED BY <1>1, <2>3
<1>7. f \in Bijection(Units(t), Later)
  <2>1. ASSUME NEW u \in Units(t), NEW v \in Units(t), f[u] = f[v] PROVE u = v
    <3>1. PICK i \in 1..Len(t) : \E q \in 1..SizeOf[t[i].key] : u = <<i, q>> /\ f[u] = <<n + i, q>> BY <1>3
    <3>1a. PICK q \in 1..SizeOf[t[i].key] : u = <<i, q>> /\ f[u] = <<n + i, q>> BY <3>1
    <3>2. PICK j \in 1..Len(t) : \E k \in 1..SizeOf[t[j].key] : v = <<j, k>> /\ f[v] = <<n + j, k>> BY <1>3
    <3>2a. PICK k \in 1..SizeOf[t[j].key] : v = <<j, k>> /\ f[v] = <<n + j, k>> BY <3>2
    <3>3. n + i = n + j /\ q = k BY <2>1, <3>1a, <3>2a
    <3>4. i = j BY <1>1, <3>3
    <3>5. QED BY <3>1a, <3>2a, <3>3, <3>4
  <2>2. f = [u \in Units(t) |-> f[u]] BY DEF f
  <2>3. f \in [Units(t) -> Later] BY <2>2
  <2>4. QED BY <2>1, <2>3 DEF Bijection, Injection, Surjection, IsInjective
<1> HIDE DEF Later
<1>8. ExistsBijection(Units(t), Later) BY <1>7 DEF ExistsBijection
<1>9. IsFiniteSet(Units(s)) /\ IsFiniteSet(Units(t)) /\ Cumulated(s) \in Nat /\ Cumulated(t) \in Nat BY UnitsFinite
<1>10. IsFiniteSet(Later) /\ Cardinality(Later) = Cumulated(t) BY ONLY <1>8, <1>9, FS_Bijection DEF Cumulated
<1>11. Cardinality(Units(s) \cup Later) = Cardinality(Units(s)) + Cardinality(Later) - Cardinality(Units(s) \cap Later)
  BY ONLY <1>9, <1>10, FS_Union
<1>12. Cardinality(Units(s) \cap Later) = 0 BY <1>6, FS_EmptySet
<1>13. QED BY <1>5, <1>9, <1>10, <1>11, <1>12 DEF Cumulated, c
-----------------------------------------------------------------------------
\* The items in the order of their oldest use, all of them after the one evicted oldest.
InUse(s, low, high) == \A i \in 1..Len(s) : /\ low < s[i].used /\ s[i].used <= high
                                            /\ \A j \in 1..Len(s) : i < j => s[i].used < s[j].used

CacheInv == /\ items \in Seq(Items) /\ calls \in Nat /\ evicted \in 0..calls
            /\ InUse(items, evicted, calls)
            /\ size \in Nat /\ maxSize \in Int
            /\ maxSize >= 0 => Cumulated(items) <= size /\ size <= maxSize
            /\ ~deleted => size = Cumulated(items) /\ ~panicked

\* An order of use stays one when another call was made.
LEMMA InUseLater ==
  ASSUME NEW s, NEW low, NEW high \in Nat, InUse(s, low, high), \A i \in 1..Len(s) : s[i].used \in Nat
  PROVE  InUse(s, low, high + 1)
<1>1. \A i \in 1..Len(s) : low < s[i].used /\ \A j \in 1..Len(s) : i < j => s[i].used < s[j].used BY DEF InUse
<1>2. ASSUME NEW i \in 1..Len(s) PROVE s[i].used <= high + 1
  <2>1. s[i].used <= high /\ s[i].used \in Nat BY DEF InUse
  <2>2. QED BY <2>1
<1>3. QED BY <1>1, <1>2 DEF InUse

\* Nothing is cached, no call was made and nothing was evicted before the first step.
LEMMA CacheInvInit == CacheInit => CacheInv
<1> SUFFICES ASSUME CacheInit PROVE CacheInv OBVIOUS
<1>1. items = <<>> /\ size = 0 /\ calls = 0 /\ evicted = 0 /\ ~panicked /\ maxSize \in Int
  BY CacheAssumption DEF CacheInit
<1>2. Cumulated(items) = 0 BY <1>1, CumulatedNone
<1>3. items \in Seq(Items) /\ InUse(items, evicted, calls) BY <1>1 DEF InUse
<1>4. QED BY <1>1, <1>2, <1>3 DEF CacheInv

\* An item that is used goes to the end of the list: the others keep their order, and
\* all take what they took.
LEMMA MovedKeeps ==
  ASSUME CacheInv, NEW i \in 1..Len(items)
  PROVE  /\ Moved(i) \in Seq(Items) /\ Cumulated(Moved(i)) = Cumulated(items)
         /\ InUse(Moved(i), evicted, calls + 1)
<1> DEFINE n == Len(items)
           a == SubSeq(items, 1, i - 1)
           b == SubSeq(items, i + 1, n)
           x == items[i]
           y == Item(x.key)
<1>1. /\ items \in Seq(Items) /\ calls \in Nat /\ evicted \in 0..calls /\ n \in Nat /\ i \in Nat /\ 1 <= i /\ i <= n
      /\ \A k \in 1..n : items[k] \in Items /\ items[k].used \in Nat
      /\ x \in Items /\ y \in Items /\ y.key = x.key /\ y.used = calls + 1
  <2>1. items \in Seq(Items) /\ calls \in Nat /\ evicted \in 0..calls /\ n \in Nat BY DEF CacheInv
  <2>2. \A k \in 1..n : items[k] \in Items BY <2>1
  <2>3. \A it \in Items : it.used \in Nat /\ it.key \in Keys BY DEF Items
  <2>4. x \in Items /\ x.key \in Keys BY <2>2, <2>3
  <2> HIDE DEF x
  <2>5. y \in Items /\ y.key = x.key /\ y.used = calls + 1 BY <2>1, <2>4 DEF Item, Items
  <2>6. QED BY <2>1, <2>2, <2>3, <2>4, <2>5
<1>2. /\ a \in Seq(Items) /\ Len(a) = i - 1 /\ \A k \in 1..(i - 1) : a[k] = items[k]
      /\ b \in Seq(Items) /\ Len(b) = n - i /\ \A k \in 1..(n - i) : b[k] = items[i + k]
  BY <1>1
<1>3. Moved(i) = Append(a \o b, y) BY DEF Moved, RemoveAt
<1> HIDE DEF a, b, y
<1>4. items = (a \o <<x>>) \o b
  <2> DEFINE p == a \o <<x>>  c == p \o b
  <2>1. p \in Seq(Items) /\ Len(p) = i /\ \A k \in 1..i : p[k] = items[k] BY <1>1, <1>2
  <2> HIDE DEF p, x, n
  <2>2. c \in Seq(Items) /\ Len(c) = n
    <3>1. i + (n - i) = n BY <1>1
    <3>2. c \in Seq(Items) /\ Len(c) = Len(p) + Len(b) BY <1>2, <2>1, ConcatProperties
    <3> HIDE DEF c
    <3>3. QED BY <1>2, <2>1, <3>1, <3>2
  <2>3. \A k \in 1..n : c[k] = items[k]
    <3> TAKE k \in 1..n
    <3>1. CASE k <= i BY <1>1, <1>2, <2>1, <3>1
    <3>2. CASE k > i
      <4>1. c[k] = b[k - i] /\ k - i \in 1..(n - i) BY <1>1, <1>2, <2>1, <3>2
      <4>2. b[k - i] = items[i + (k - i)] /\ i + (k - i) = k BY <1>1, <1>2, <4>1
      <4>3. QED BY <4>1, <4>2
    <3>3. k <= i \/ k > i BY <1>1
    <3>4. QED BY <3>1, <3>2, <3>3, Zenon
  <2> HIDE DEF c
  <2>4. c = items BY <1>1, <2>2, <2>3, SeqEqual DEF n
  <2>5. QED BY <2>4 DEF c, p
<1> HIDE DEF x, n
<1>5. a \o b \in Seq(Items) /\ a \o <<x>> \in Seq(Items) /\ <<x>> \in Seq(Items) /\ <<y>> \in Seq(Items)
      /\ Append(a \o b, y) = (a \o b) \o <<y>> /\ Append(a \o b, y) \in Seq(Items)
  <2>1. a \o b \in Seq(Items) /\ <<x>> \in Seq(Items) /\ <<y>> \in Seq(Items) BY <1>1, <1>2
  <2>2. a \o <<x>> \in Seq(Items) BY <1>2, <2>1, ConcatProperties
  <2>3. QED BY <1>1, <2>1, <2>2, AppendIsConcat, AppendProperties
<1>6. Cumulated(Moved(i)) = Cumulated(items)
  <2>1. Cumulated(items) = Cumulated(a) + Cumulated(<<x>>) + Cumulated(b)
    <3>1. a \in Seq(Items) /\ b \in Seq(Items) /\ <<x>> \in Seq(Items) /\ a \o <<x>> \in Seq(Items) BY ONLY <1>2, <1>5
    <3>2. Cumulated((a \o <<x>>) \o b) = Cumulated(a \o <<x>>) + Cumulated(b) BY ONLY <3>1, CumulatedConcat
    <3>3. Cumulated(a \o <<x>>) = Cumulated(a) + Cumulated(<<x>>) BY ONLY <3>1, CumulatedConcat
    <3>4. QED BY ONLY <1>4, <3>2, <3>3
  <2>2. Cumulated(Moved(i)) = Cumulated(a) + Cumulated(b) + Cumulated(<<y>>)
    <3>1. Cumulated(Moved(i)) = Cumulated(a \o b) + Cumulated(<<y>>) BY <1>3, <1>5, CumulatedConcat
    <3>2. Cumulated(a \o b) = Cumulated(a) + Cumulated(b) BY <1>2, CumulatedConcat
    <3>3. QED BY <3>1, <3>2
  <2>3. Cumulated(<<x>>) = Cumulated(<<y>>) BY <1>1, CumulatedOne
  <2>4. Cumulated(a) \in Nat /\ Cumulated(b) \in Nat /\ Cumulated(<<x>>) \in Nat BY <1>2, <1>5, UnitsFinite
  <2>5. QED BY <2>1, <2>2, <2>3, <2>4
<1>7. InUse(Moved(i), evicted, calls + 1)
  <2> DEFINE q == Moved(i)  at(k) == IF k < i THEN k ELSE k + 1
  <2>1. /\ Len(q) = n /\ q[n] = y
        /\ \A k \in 1..(n - 1) : q[k] = items[at(k)] /\ at(k) \in 1..n
    BY <1>1, <1>2, <1>3
  <2>2. \A k \in 1..n : /\ evicted < items[k].used /\ items[k].used <= calls
                        /\ \A j \in 1..n : k < j => items[k].used < items[j].used
    BY DEF CacheInv, InUse, n
  <2> HIDE DEF q
  <2>3. \A k \in 1..(n - 1) : /\ evicted < q[k].used /\ q[k].used <= calls
                              /\ \A j \in 1..(n - 1) : k < j => q[k].used < q[j].used
    <3>1. ASSUME NEW k \in 1..(n - 1) PROVE evicted < q[k].used /\ q[k].used <= calls BY <2>1, <2>2
    <3>2. ASSUME NEW k \in 1..(n - 1), NEW j \in 1..(n - 1), k < j PROVE q[k].used < q[j].used
      <4>1. at(k) < at(j) BY <1>1, <3>2
      <4>2. q[k] = items[at(k)] /\ q[j] = items[at(j)] /\ at(k) \in 1..n /\ at(j) \in 1..n BY <2>1
      <4> HIDE DEF at
      <4>3. QED BY <2>2, <4>1, <4>2
    <3>3. QED BY <3>1, <3>2
  <2>4. q[n].used = calls + 1 BY <1>1, <2>1
  <2>5. \A k \in 1..n : k \in 1..(n - 1) \/ k = n BY <1>1
  <2>6. \A k \in 1..(n - 1) : q[k].used \in Nat BY <1>1, <2>1
  <2>7. InUse(q, evicted, calls + 1)
    <3>1. ASSUME NEW k \in 1..n PROVE evicted < q[k].used /\ q[k].used <= calls + 1
      <4>1. CASE k \in 1..(n - 1)
        <5>1. evicted < q[k].used /\ q[k].used <= calls /\ q[k].used \in Nat BY <2>3, <2>6, <4>1
        <5>2. QED BY <1>1, <5>1
      <4>2. CASE k = n BY <1>1, <2>4, <4>2
      <4>3. QED BY <2>5, <4>1, <4>2
    <3>2. ASSUME NEW k \in 1..n, NEW j \in 1..n, k < j PROVE q[k].used < q[j].used
      <4>1. k \in 1..(n - 1) BY <1>1, <3>2
      <4>2. CASE j \in 1..(n - 1) BY <2>3, <3>2, <4>1, <4>2
      <4>3. CASE j = n
        <5>1. q[k].used <= calls /\ q[k].used \in Nat BY <2>3, <2>6, <4>1
        <5>2. QED BY <1>1, <2>4, <4>3, <5>1
      <4>4. QED BY <2>5, <4>2, <4>3
    <3>3. QED BY <2>1, <3>1, <3>2 DEF InUse
  <2>8. QED BY <2>7 DEF q
<1>8. QED BY <1>3, <1>5, <1>6, <1>7

\* The items that Set evicts are the first ones: what is left takes the rest, and was
\* used after them.
LEMMA KeptRest ==
  ASSUME CacheInv, NEW e \in 0..Len(items), NEW k \in Keys
  PROVE  LET kept == Append(SubSeq(items, e + 1, Len(items)), Item(k))
             gone == Cumulated(SubSeq(items, 1, e))
             oldest == IF e = 0 THEN evicted ELSE items[e].used
         IN  /\ kept \in Seq(Items) /\ oldest \in 0..calls
             /\ gone \in Nat /\ gone <= Cumulated(items) /\ (e = 0 => gone = 0)
             /\ Cumulated(kept) = Cumulated(items) - gone + SizeOf[k]
             /\ InUse(kept, oldest, calls + 1)
<1> DEFINE n == Len(items)
           a == SubSeq(items, 1, e)
           b == SubSeq(items, e + 1, n)
           y == Item(k)
           oldest == IF e = 0 THEN evicted ELSE items[e].used
           kept == Append(b, y)
<1>1. items \in Seq(Items) /\ calls \in Nat /\ evicted \in 0..calls /\ n \in Nat /\ e \in Nat /\ e <= n BY DEF CacheInv
<1>2. \A it \in Items : it.used \in Nat BY DEF Items
<1>3. y \in Items /\ y.used = calls + 1 /\ y.key = k BY <1>1 DEF Item, Items
<1>4. /\ a \in Seq(Items)
      /\ b \in Seq(Items) /\ Len(b) = n - e /\ \A i \in 1..(n - e) : b[i] = items[e + i]
  BY <1>1
<1>5. items = a \o b
  <2>1. \A i \in 1..n : items[i] \in Items BY <1>1
  <2>2. SubSeq(items, 1, e) \o SubSeq(items, e + 1, n) = SubSeq(items, 1, n)
    <3>1. 1 \in 1..(n + 1) /\ e \in (1 - 1)..n /\ n \in e..n BY <1>1
    <3>2. QED BY <1>1, <3>1, ConcatAdjacentSubSeq
  <2>3. SubSeq(items, 1, n) = items BY <1>1, SubSeqFull
  <2>4. QED BY <2>2, <2>3
<1>6. \A i \in 1..n : /\ evicted < items[i].used /\ items[i].used <= calls
                      /\ \A j \in 1..n : i < j => items[i].used < items[j].used
  BY DEF CacheInv, InUse
<1>7. oldest \in 0..calls
  <2>1. \A i \in 1..n : items[i] \in Items BY <1>1
  <2>2. e # 0 => e \in 1..n BY <1>1
  <2>3. QED BY <1>1, <1>2, <1>6, <2>1, <2>2
<1>8. \A i \in 1..(n - e) : oldest < items[e + i].used
  <2> TAKE i \in 1..(n - e)
  <2>1. e + i \in 1..n /\ (e # 0 => e \in 1..n) /\ e < e + i BY <1>1
  <2>2. QED BY <1>6, <2>1
<1>9. e = 0 => a = <<>> BY <1>1
<1> HIDE DEF a, b, y, n, oldest
<1>10. kept \in Seq(Items) /\ kept = b \o <<y>> /\ <<y>> \in Seq(Items)
       /\ Len(kept) = n - e + 1 /\ kept[n - e + 1] = y /\ \A i \in 1..(n - e) : kept[i] = b[i]
  BY <1>1, <1>3, <1>4
<1> HIDE DEF kept
<1>11. Cumulated(items) = Cumulated(a) + Cumulated(b) /\ Cumulated(kept) = Cumulated(b) + SizeOf[k]
       /\ Cumulated(a) \in Nat /\ Cumulated(b) \in Nat /\ SizeOf[k] \in Nat
  <2>1. Cumulated(items) = Cumulated(a) + Cumulated(b) BY <1>4, <1>5, CumulatedConcat
  <2>2. Cumulated(kept) = Cumulated(b) + Cumulated(<<y>>) BY <1>4, <1>10, CumulatedConcat
  <2>3. Cumulated(<<y>>) = SizeOf[k] BY <1>3, CumulatedOne
  <2>4. QED BY <1>4, <2>1, <2>2, <2>3, UnitsFinite, CacheAssumption
<1>12. InUse(kept, oldest, calls + 1)
  <2>1. ASSUME NEW i \in 1..(n - e)
        PROVE  oldest < kept[i].used /\ kept[i].used <= calls /\ kept[i].used \in Nat
               /\ \A j \in 1..(n - e) : i < j => kept[i].used < kept[j].used
    <3>1. e + i \in 1..n /\ \A j \in 1..(n - e) : e + j \in 1..n /\ (i < j => e + i < e + j) BY <1>1
    <3>2. kept[i] = items[e + i] /\ items[e + i] \in Items /\ \A j \in 1..(n - e) : kept[j] = items[e + j]
      BY <1>1, <1>4, <1>10, <3>1 DEF n
    <3>3. QED BY <1>2, <1>6, <1>8, <3>1, <3>2
  <2>2. kept[n - e + 1].used = calls + 1 BY <1>3, <1>10
  <2>3. \A i \in 1..(n - e + 1) : i \in 1..(n - e) \/ i = n - e + 1 BY <1>1
  <2>4. ASSUME NEW i \in 1..Len(kept)
        PROVE  /\ oldest < kept[i].used /\ kept[i].used <= calls + 1
               /\ \A j \in 1..Len(kept) : i < j => kept[i].used < kept[j].used
    <3>1. CASE i \in 1..(n - e)
      <4>1. oldest < kept[i].used /\ kept[i].used <= calls + 1 BY <1>1, <2>1, <3>1
      <4>2. ASSUME NEW j \in 1..Len(kept), i < j PROVE kept[i].used < kept[j].used
        <5>1. j \in 1..(n - e) \/ j = n - e + 1 BY <1>10, <2>3
        <5>2. CASE j \in 1..(n - e) BY <2>1, <3>1, <4>2, <5>2
        <5>3. CASE j = n - e + 1
          <6>1. kept[i].used \in Nat /\ kept[i].used <= calls BY <2>1, <3>1
          <6>2. QED BY <1>1, <2>2, <5>3, <6>1
        <5>4. QED BY <5>1, <5>2, <5>3
      <4>3. QED BY <4>1, <4>2
    <3>2. CASE i = n - e + 1 BY <1>1, <1>7, <1>10, <2>2, <3>2
    <3>3. QED BY <1>10, <2>3, <3>1, <3>2
  <2>5. QED BY <2>4 DEF InUse
<1>13. kept \in Seq(Items) /\ oldest \in 0..calls
       /\ Cumulated(a) \in Nat /\ Cumulated(a) <= Cumulated(items) /\ (e = 0 => Cumulated(a) = 0)
       /\ Cumulated(kept) = Cumulated(items) - Cumulated(a) + SizeOf[k]
       /\ InUse(kept, oldest, calls + 1)
  BY <1>7, <1>9, <1>10, <1>11, <1>12, CumulatedNone
<1>14. QED BY <1>13 DEF kept, oldest, a, b, y, n

\* Delete leaves some of the items, in their order.
LEMMA DeleteKeeps ==
  ASSUME CacheInv, NEW ks, Delete(ks)
  PROVE  items' \in Seq(Items) /\ InUse(items', evicted, calls) /\ Cumulated(items') <= Cumulated(items)
<1> DEFINE n == Len(items)
           S == {i \in DOMAIN items : items[i].key \notin ks}
           kept == Ascending(S)
           c == Cardinality(S)
<1>1. items \in Seq(Items) /\ n \in Nat /\ DOMAIN items = 1..n /\ \A i \in 1..n : items[i] \in Items BY DEF CacheInv
<1>2. S \in SUBSET Nat /\ S \subseteq 1..n /\ IsFiniteSet(S)
  <2>1. S \subseteq 1..n /\ S \in SUBSET Nat BY <1>1
  <2>2. IsFiniteSet(1..n)
    <3>1. 1 \in Int /\ n \in Int BY <1>1
    <3>2. QED BY ONLY <3>1, FS_Interval
  <2> HIDE DEF S
  <2>3. QED BY <2>1, <2>2, FS_Subset
<1>3. items' = [i \in DOMAIN kept |-> items[kept[i]]] BY DEF Delete
<1> HIDE DEF S
<1>4. kept \in Seq(S) /\ Len(kept) = c /\ c \in Nat /\ DOMAIN kept = 1..c
      /\ \A i, j \in 1..c : i < j => kept[i] < kept[j]
  BY <1>2, AscendingOrders, FS_CardinalityType
<1> HIDE DEF kept, c, n
<1>5. \A i \in 1..c : kept[i] \in 1..n
  <2>1. \A i \in 1..c : kept[i] \in S BY <1>4
  <2>2. QED BY <1>2, <2>1
<1>6. items' \in Seq(Items) /\ Len(items') = c /\ \A i \in 1..c : items'[i] = items[kept[i]]
  <2>1. items' = [i \in 1..c |-> items[kept[i]]] BY <1>3, <1>4
  <2>2. \A i \in 1..c : items[kept[i]] \in Items BY <1>1, <1>5
  <2>3. QED BY <1>4, <2>1, <2>2
<1>7. InUse(items', evicted, calls)
  <2>1. \A k \in 1..n : /\ evicted < items[k].used /\ items[k].used <= calls
                        /\ \A j \in 1..n : k < j => items[k].used < items[j].used
    BY DEF CacheInv, InUse, n
  <2>2. ASSUME NEW i \in 1..c
        PROVE  /\ evicted < items'[i].used /\ items'[i].used <= calls
               /\ \A j \in 1..c : i < j => items'[i].used < items'[j].used
    <3>1. kept[i] \in 1..n /\ items'[i] = items[kept[i]] BY <1>5, <1>6
    <3>2. \A j \in 1..c : i < j => kept[j] \in 1..n /\ items'[j] = items[kept[j]] /\ kept[i] < kept[j]
      BY <1>4, <1>5, <1>6
    <3>3. QED BY <2>1, <3>1, <3>2
  <2>3. QED BY <1>6, <2>2 DEF InUse
<1>8. Cumulated(items') <= Cumulated(items)
  <2> DEFINE f == [i \in 1..c |-> kept[i]]
  <2>1. \A i, j \in 1..c : kept[i] = kept[j] => i = j
    <3> SUFFICES ASSUME NEW i \in 1..c, NEW j \in 1..c, i # j PROVE kept[i] # kept[j] OBVIOUS
    <3>1. i < j \/ j < i BY <1>4
    <3>2. kept[i] \in 1..n /\ kept[j] \in 1..n BY <1>5
    <3>3. QED BY <1>1, <1>4, <3>1, <3>2
  <2>2. f \in Injection(1..c, 1..n) BY <1>5, <2>1 DEF Injection, IsInjective
  <2>3. \A i \in 1..c : items'[i].key = items[f[i]].key BY <1>6
  <2> HIDE DEF f
  <2>4. f \in Injection(1..Len(items'), 1..Len(items)) BY <1>6, <2>2 DEF n
  <2>5. QED BY ONLY <1>1, <1>6, <2>3, <2>4, CumulatedSome
<1>9. QED BY <1>6, <1>7, <1>8

\* Set, once it has evicted the first e items, provided that what is left makes room.
LEMMA KeepKeeps ==
  ASSUME CacheInv, NEW k \in Keys, NEW e \in 0..Len(items), Called, Keep(k, e), Fits(k), UNCHANGED panicked,
         \/ maxSize < 0 /\ e = 0
         \/ maxSize > 0 /\ size - Cumulated(SubSeq(items, 1, e)) + SizeOf[k] <= maxSize
  PROVE  CacheInv'
<1> DEFINE kept == Append(SubSeq(items, e + 1, Len(items)), Item(k))
           gone == Cumulated(SubSeq(items, 1, e))
           oldest == IF e = 0 THEN evicted ELSE items[e].used
<1>1. /\ kept \in Seq(Items) /\ oldest \in 0..calls
      /\ gone \in Nat /\ gone <= Cumulated(items) /\ (e = 0 => gone = 0)
      /\ Cumulated(kept) = Cumulated(items) - gone + SizeOf[k]
      /\ InUse(kept, oldest, calls + 1)
  BY KeptRest
<1>2. /\ items' = kept /\ size' = size - gone + SizeOf[k] /\ evicted' = oldest
      /\ maxSize' = maxSize /\ deleted' = deleted /\ panicked' = panicked /\ calls' = calls + 1
  BY DEF Keep, Called
<1>3. /\ size \in Nat /\ maxSize \in Int /\ calls \in Nat /\ SizeOf[k] \in Nat /\ Cumulated(items) \in Nat
      /\ maxSize >= 0 => Cumulated(items) <= size /\ size <= maxSize
      /\ ~deleted => size = Cumulated(items) /\ ~panicked
  BY UnitsFinite, CacheAssumption DEF CacheInv
<1>4. \/ maxSize < 0 /\ e = 0
      \/ maxSize > 0 /\ size - gone + SizeOf[k] <= maxSize
  OBVIOUS
<1> HIDE DEF kept, gone, oldest
<1>5. Cumulated(items') = Cumulated(kept) BY <1>2
<1>6. size' \in Nat /\ (maxSize' >= 0 => Cumulated(items') <= size' /\ size' <= maxSize')
  <2>1. CASE maxSize < 0 /\ e = 0
    <3>1. gone = 0 BY ONLY <1>1, <2>1
    <3>2. QED BY ONLY <1>2, <1>3, <2>1, <3>1
  <2>2. CASE maxSize > 0 /\ size - gone + SizeOf[k] <= maxSize
    <3>1. Cumulated(items) <= size BY ONLY <1>3, <2>2
    <3>2. gone \in Nat /\ gone <= Cumulated(items) /\ Cumulated(kept) = Cumulated(items) - gone + SizeOf[k] BY ONLY <1>1
    <3>3. size \in Nat /\ SizeOf[k] \in Nat /\ Cumulated(items) \in Nat BY ONLY <1>3
    <3>4. QED BY ONLY <1>2, <1>5, <2>2, <3>1, <3>2, <3>3
  <2>3. QED BY ONLY <1>4, <2>1, <2>2
<1>7. ~deleted' => size' = Cumulated(items') /\ ~panicked' BY <1>1, <1>2, <1>3, <1>5
<1>8. items' \in Seq(Items) /\ calls' \in Nat /\ evicted' \in 0..calls' /\ InUse(items', evicted', calls') /\ maxSize' \in Int
  BY <1>1, <1>2, <1>3
<1>9. QED BY <1>6, <1>7, <1>8 DEF CacheInv

\* Get, Set and Delete keep the items in the order of their use, and the size their sum
\* until Delete (cache.go:84-97) drops an item without giving its size back.
LEMMA CacheInvStep == CacheInv /\ [CacheNext]_cacheVars => CacheInv'
<1> SUFFICES ASSUME CacheInv, [CacheNext]_cacheVars PROVE CacheInv' OBVIOUS
<1>0. /\ items \in Seq(Items) /\ calls \in Nat /\ evicted \in 0..calls /\ InUse(items, evicted, calls)
      /\ size \in Nat /\ maxSize \in Int /\ Cumulated(items) \in Nat
      /\ maxSize >= 0 => Cumulated(items) <= size /\ size <= maxSize
      /\ ~deleted => size = Cumulated(items) /\ ~panicked
  BY UnitsFinite DEF CacheInv
<1>1. ASSUME NEW k \in Keys, Get(k) PROVE CacheInv'
  <2> DEFINE found == {i \in DOMAIN items : items[i].key = k}
  <2>1. calls' = calls + 1 /\ UNCHANGED <<maxSize, size, evicted, deleted, panicked>> BY <1>1 DEF Get, Called
  <2>2. \A i \in 1..Len(items) : items[i] \in Items BY <1>0
  <2>3. CASE found = {}
    <3>1. items' = items BY <1>1, <2>3 DEF Get
    <3>2. \A i \in 1..Len(items) : items[i].used \in Nat BY <2>2 DEF Items
    <3>3. InUse(items, evicted, calls + 1) BY <1>0, <3>2, InUseLater DEF CacheInv
    <3>3a. InUse(items', evicted', calls') BY <2>1, <3>1, <3>3
    <3>4. QED BY <1>0, <2>1, <3>1, <3>3a DEF CacheInv
  <2>4. CASE found # {}
    <3>1. found \in SUBSET Nat /\ found \subseteq 1..Len(items) BY <1>0
    <3>2. Min(found) \in 1..Len(items) BY <2>4, <3>1, LeastOf
    <3>3. items' = Moved(Min(found)) BY <1>1, <2>4 DEF Get
    <3>4. items' \in Seq(Items) /\ Cumulated(items') = Cumulated(items) /\ InUse(items', evicted, calls + 1)
      BY <3>2, <3>3, MovedKeeps
    <3>5. QED BY <1>0, <2>1, <3>4 DEF CacheInv
  <2>5. QED BY <2>3, <2>4
<1>2. ASSUME NEW k \in Keys, Set(k) PROVE CacheInv'
  <2>1. Called /\ Fits(k) /\ UNCHANGED panicked
    <3>1. Called /\ Fits(k) BY <1>2 DEF Set
    <3>2. QED BY <1>2, <3>1 DEF Set, Keep
  <2>2. CASE maxSize < 0 /\ Keep(k, 0)
    <3>1. 0 \in 0..Len(items) BY <1>0
    <3>2. QED BY <2>1, <2>2, <3>1, KeepKeeps
  <2>3. CASE maxSize > 0 /\ Evictions(SizeOf[k]) # {} /\ Keep(k, Min(Evictions(SizeOf[k])))
    <3> DEFINE E == Evictions(SizeOf[k])
    <3>1. E \in SUBSET Nat BY <1>0 DEF Evictions
    <3>2. Min(E) \in E BY <2>3, <3>1, LeastOf
    <3>3. Min(E) \in 0..Len(items) /\ size - Cumulated(SubSeq(items, 1, Min(E))) + SizeOf[k] <= maxSize
      BY <3>2 DEF Evictions
    <3>4. QED BY <2>1, <2>3, <3>3, KeepKeeps
  <2>4. QED BY <1>2, <2>2, <2>3 DEF Set
<1>3. ASSUME NEW k \in Keys, SetPanics(k) PROVE CacheInv'
  <2>1. /\ calls' = calls + 1 /\ items' = <<>> /\ size' = size - Cumulated(items) /\ panicked'
        /\ UNCHANGED <<maxSize, evicted, deleted>> /\ maxSize > 0 /\ Fits(k) /\ Evictions(SizeOf[k]) = {}
    BY <1>3 DEF SetPanics, Called
  <2>2. deleted
    <3> SUFFICES ASSUME ~deleted PROVE FALSE OBVIOUS
    <3>1. SubSeq(items, 1, Len(items)) = items BY <1>0, SubSeqFull
    <3>2. size - Cumulated(items) + SizeOf[k] <= maxSize
      <4>1. SizeOf[k] \in Nat /\ SizeOf[k] <= maxSize BY <1>0, <2>1, CacheAssumption DEF Fits
      <4>2. QED BY <1>0, <4>1
    <3>3. Len(items) \in 0..Len(items) BY <1>0
    <3>4. Len(items) \in Evictions(SizeOf[k]) BY <3>1, <3>2, <3>3 DEF Evictions
    <3>5. QED BY <2>1, <3>4
  <2>3. Cumulated(items') = 0 /\ items' \in Seq(Items) /\ InUse(items', evicted', calls')
    BY <2>1, CumulatedNone DEF InUse
  <2>4. size' \in Nat /\ size' <= size BY <1>0, <2>1
  <2>5. QED BY <1>0, <2>1, <2>2, <2>3, <2>4 DEF CacheInv
<1>4. ASSUME NEW ks, Delete(ks) PROVE CacheInv'
  <2>1. calls' = calls + 1 /\ UNCHANGED <<maxSize, size, evicted, panicked>> /\ deleted' = (deleted \/ items' # items)
    BY <1>4 DEF Delete, Called
  <2>2. items' \in Seq(Items) /\ InUse(items', evicted, calls) /\ Cumulated(items') <= Cumulated(items)
    BY <1>4, DeleteKeeps
  <2>3. InUse(items', evicted', calls')
    <3>1. \A i \in 1..Len(items') : items'[i] \in Items BY <2>2
    <3>2. \A i \in 1..Len(items') : items'[i].used \in Nat BY <3>1 DEF Items
    <3>3. InUse(items', evicted, calls + 1) BY <1>0, <2>2, <3>2, InUseLater
    <3>4. QED BY <2>1, <3>3
  <2>4. Cumulated(items') \in Nat BY <2>2, UnitsFinite
  <2>5. ~deleted' => items' = items /\ ~deleted BY <2>1
  <2>6. QED BY <1>0, <2>1, <2>2, <2>3, <2>4, <2>5 DEF CacheInv
<1>5. CASE UNCHANGED cacheVars BY <1>5 DEF cacheVars, CacheInv
<1>6. QED BY <1>1, <1>2, <1>3, <1>4, <1>5 DEF CacheNext

\* The cache (cache.go:30-82) keeps its items in the order of their last use and evicts the
\* oldest: what it still holds was used after everything it evicted, and fits.
THEOREM CacheEvictsOldest == CacheSpec => []CacheIsLRU
<1>1. CacheInv => CacheIsLRU
  <2> SUFFICES ASSUME CacheInv PROVE CacheIsLRU OBVIOUS
  <2>1. items \in Seq(Items) /\ DOMAIN items = 1..Len(items) BY DEF CacheInv
  <2>2. \A i \in DOMAIN items : items[i] \in Items BY <2>1
  <2>3. \A i \in DOMAIN items : items[i].key \in Keys /\ items[i].used \in 1..calls
    <3>1. \A i \in DOMAIN items : items[i].key \in Keys /\ items[i].used \in Nat BY <2>2 DEF Items
    <3>2. QED BY <2>1, <3>1 DEF CacheInv, InUse
  <2>4. CacheTypeOK BY <2>3 DEF CacheInv, CacheTypeOK
  <2>5. \A i \in DOMAIN items : /\ items[i].used > evicted
                                /\ \A j \in DOMAIN items : i < j => items[i].used < items[j].used
    BY <2>1, <2>3 DEF CacheInv, InUse
  <2>6. QED BY <2>4, <2>5 DEF CacheInv, CacheIsLRU
<1>2. QED BY <1>1, CacheInvInit, CacheInvStep, PTL DEF CacheSpec

-----------------------------------------------------------------------------
\* Stater.

\* Where the Starts are: one is past its start exactly when running says so.
OneStarter == /\ start \in [Starters -> {"idle", "owner", "loop"}] /\ running \in {0, 1}
              /\ running = 0 => \A p \in Starters : start[p] = "idle"
              /\ running = 1 => \E p \in Starters : /\ start[p] # "idle"
                                                    /\ \A q \in Starters \ {p} : start[q] = "idle"

\* What was measured, and what is being computed of it.
Measured == /\ amount \in 0..MaxAmount /\ count \in 0..amount /\ ss \subseteq Stats
            /\ read \in [left : SUBSET Stats, amount : 0..amount, delta : {0, 1}]

\* What the values stand for. A value that is left to compute reads no less than
\* its last one did.
Accounted == /\ last \in [Stats -> [amount : 0..amount, count : Nat]]
             /\ reported \in [Stats -> Int] /\ dropped \in [Stats -> Int]
             /\ \A s \in Stats : /\ reported[s] + dropped[s] = last[s].amount
                                 /\ s \in read.left => last[s].amount <= read.amount

StaterInv == OneStarter /\ Measured /\ Accounted

\* Initially nothing runs and nothing was measured.
LEMMA StaterInvInit == StaterInit => StaterInv
BY StaterAssumption DEF StaterInit, StaterInv, OneStarter, Measured, Accounted, NotReading

\* Every step of the Stater and of what it measures keeps StaterInv.
LEMMA StaterInvStep == StaterInv /\ [StaterNext]_staterVars => StaterInv'
<1> SUFFICES ASSUME StaterInv, [StaterNext]_staterVars PROVE StaterInv' OBVIOUS
<1> USE StaterAssumption DEF StaterInv, OneStarter, Measured, Accounted, runVars, valueVars
<1>1. CASE StaterStop BY <1>1 DEF StaterStop
<1>2. CASE Work BY <1>2 DEF Work
<1>3. CASE WorkCounted BY <1>3 DEF WorkCounted
<1>4. ASSUME NEW p \in Starters, StaterStart(p) PROVE StaterInv' BY <1>4 DEF StaterStart, Own
<1>5. ASSUME NEW p \in Starters, ResetContext(p) PROVE StaterInv' BY <1>5 DEF ResetContext
<1>6. ASSUME NEW p \in Starters, ContextDone(p) PROVE StaterInv' BY <1>6 DEF ContextDone
<1>7. ASSUME NEW p \in Starters, NEW delta \in {0, 1}, Tick(p, delta) PROVE StaterInv' BY <1>7 DEF Tick
<1>8. ASSUME NEW stats \in SUBSET Stats, RegisterStats(stats) PROVE StaterInv' BY <1>8 DEF RegisterStats
<1>9. ASSUME NEW s \in Stats, Value(s) PROVE StaterInv'
  <2>1. OneStarter' BY <1>9 DEF Value
  <2>8. read' = [read EXCEPT !.left = read.left \ {s}, !.amount = amount] BY <1>9 DEF Value
  <2>9. read' \in [left : SUBSET Stats, amount : 0..amount, delta : {0, 1}]
        /\ read'.left = read.left \ {s} /\ read'.amount = amount
    <3>1. read.left \in SUBSET Stats /\ read.amount \in 0..amount /\ read.delta \in {0, 1} /\ amount \in Nat
      OBVIOUS
    <3>2. read' = [left |-> read.left \ {s}, amount |-> amount, delta |-> read.delta] BY <2>8
    <3>3. QED BY ONLY <3>1, <3>2
  <2>2. Measured' BY <1>9, <2>9 DEF Value
  <2> DEFINE more == read.amount - last[s].amount
  <2>5. more \in Int /\ more + last[s].amount = read.amount OBVIOUS
  <2>6. last' = [last EXCEPT ![s] = LastRead(s)] /\ LastRead(s) \in [amount : 0..amount, count : Nat]
        /\ LastRead(s).amount = read.amount /\ amount' = amount
    BY <1>9 DEF Value, LastRead
  <2>7. \/ dropped' = [dropped EXCEPT ![s] = @ + more] /\ reported' = reported
        \/ reported' = [reported EXCEPT ![s] = @ + more] /\ dropped' = dropped
    BY <1>9 DEF Value
  <2> HIDE DEF more
  <2>3. Accounted'
    <3>1. reported' \in [Stats -> Int] /\ dropped' \in [Stats -> Int] /\ last' \in [Stats -> [amount : 0..amount', count : Nat]]
      BY <2>5, <2>6, <2>7
    <3>2. \A r \in Stats : reported'[r] + dropped'[r] = last'[r].amount
      BY <2>5, <2>6, <2>7
    <3>3. \A r \in Stats : r \in read'.left => last'[r].amount <= read'.amount
      BY <2>9, <2>6
    <3>4. QED BY <3>1, <3>2, <3>3
  <2>4. QED BY <2>1, <2>2, <2>3
<1>10. CASE UNCHANGED staterVars BY <1>10 DEF staterVars
<1>11. QED BY <1>1, <1>2, <1>3, <1>4, <1>5, <1>6, <1>7, <1>8, <1>9, <1>10 DEF StaterNext

\* One Start computes values at a time, and over any sequence of Starts, Stops, ticks and changes of
\* the registered stats what the values of a stat stand for, reported or reported as 0, adds up to
\* what was measured at its last value.
THEOREM StaterTelescopes == StaterSpec => []RatesTelescope
<1>1. StaterInv => RatesTelescope
  <2> SUFFICES ASSUME StaterInv PROVE RatesTelescope OBVIOUS
  <2> DEFINE past == {p \in Starters : start[p] # "idle"}
  <2>1. Cardinality(past) = running
    <3>1. CASE running = 0
      <4>1. past = {} BY <3>1 DEF StaterInv, OneStarter
      <4>2. QED BY <3>1, <4>1, FS_EmptySet
    <3>2. CASE running = 1
      <4>1. PICK p \in Starters : past = {p} BY <3>2 DEF StaterInv, OneStarter
      <4>2. QED BY <3>2, <4>1, FS_Singleton
    <3>3. QED BY <3>1, <3>2 DEF StaterInv, OneStarter
  <2>2. StaterTypeOK BY DEF StaterInv, OneStarter, Measured, StaterTypeOK
  <2>3. \A s \in Stats : reported[s] + dropped[s] = last[s].amount /\ last[s].amount <= amount
    BY DEF StaterInv, Measured, Accounted
  <2>4. QED BY <2>1, <2>2, <2>3 DEF RatesTelescope
<1>2. QED BY <1>1, StaterInvInit, StaterInvStep, PTL DEF StaterSpec

-----------------------------------------------------------------------------
\* SilenceDetector.

Marks == [n : Nat, silent : BOOLEAN]
Scans == [seen : Seq(Marks), leading : Nat, inBetween : Nat, trailing : Nat, valid : Seq(Seq(Marks))]

\* The numbers of the analyses of s follow each other, up to top.
Numbered(s, top) == \A j \in 1..Len(s) : s[j].n = top - Len(s) + j

\* What the counts of a scan say of what it has seen. The leading silence may be shorter
\* than its count (pcm.go:404), the others are exact.
Phase(x) ==
  LET len == Len(x.seen) IN
  /\ x.leading <= MinAnalyses
  /\ x.inBetween = 0 => x.trailing = 0 /\ len <= x.leading /\ SilentRun(x.seen, 1, len)
  /\ x.inBetween > 0 => /\ x.leading = MinAnalyses /\ x.trailing < MinAnalyses
                        /\ len <= MinAnalyses + x.inBetween + x.trailing
                        /\ len > x.inBetween + x.trailing
                        /\ x.seen[1].silent /\ ~x.seen[len - x.trailing].silent
                        /\ SilentRun(x.seen, len - x.trailing + 1, len)

\* The runs returned are framed and in their order, and what is kept, len analyses up to
\* number top, shares at most a silence with the last of them.
Returned(v, top, len) ==
  /\ v \in Seq(Seq(Marks))
  /\ \A i \in 1..Len(v) : Framed(v[i])
  /\ \A i \in 2..Len(v) : v[i][1].n > v[i - 1][Len(v[i - 1])].n - MinAnalyses
  /\ Len(v) > 0 => v[Len(v)][Len(v[Len(v)])].n + len <= top + MinAnalyses

\* The rest of a sequence from one of its elements on.
LEMMA FromRest ==
  ASSUME NEW S, NEW s \in Seq(S), NEW k \in 1..Len(s) + 1
  PROVE  /\ From(s, k) \in Seq(S) /\ Len(From(s, k)) = Len(s) + 1 - k
         /\ \A j \in 1..Len(s) + 1 - k : From(s, k)[j] = s[k + j - 1]
<1>1. Len(s) \in Nat /\ k \in Int /\ k <= Len(s) + 1 OBVIOUS
<1>2. \A i \in k..Len(s) : s[i] \in S OBVIOUS
<1>3. /\ SubSeq(s, k, Len(s)) \in Seq(S)
      /\ Len(SubSeq(s, k, Len(s))) = IF k <= Len(s) THEN Len(s) - k + 1 ELSE 0
      /\ \A i \in 1 .. Len(s) - k + 1 : SubSeq(s, k, Len(s))[i] = s[k + i - 1]
  BY <1>1, <1>2, SubSeqProperties
<1>4. QED BY <1>1, <1>3 DEF From

\* The last run that was returned has a last analysis, with a number.
LEMMA LastRun ==
  ASSUME NEW v, NEW top, NEW len, Returned(v, top, len), Len(v) > 0
  PROVE  v[Len(v)][Len(v[Len(v)])].n \in Nat
<1>1. v \in Seq(Seq(Marks)) BY DEF Returned
<1>2. Len(v) \in 1..Len(v) BY <1>1
<1>3. v[Len(v)] \in Seq(Marks) /\ Framed(v[Len(v)]) BY <1>1, <1>2 DEF Returned
<1>4. Len(v[Len(v)]) \in 1..Len(v[Len(v)]) BY <1>3, SilenceAssumption DEF Framed
<1>5. v[Len(v)][Len(v[Len(v)])] \in Marks BY <1>3, <1>4, ElementOfSeq
<1>6. QED BY <1>5 DEF Marks

\* Runs that were returned stay in order while one more analysis is scanned.
LEMMA ReturnedLater ==
  ASSUME NEW v, NEW top \in Int, NEW len \in Nat, Returned(v, top, len), NEW kept \in Nat, kept <= len + 1
  PROVE  Returned(v, top + 1, kept)
<1>1. ASSUME Len(v) > 0 PROVE v[Len(v)][Len(v[Len(v)])].n + kept <= top + 1 + MinAnalyses
  <2>1. v[Len(v)][Len(v[Len(v)])].n \in Nat BY <1>1, LastRun
  <2>2. v[Len(v)][Len(v[Len(v)])].n + len <= top + MinAnalyses BY <1>1 DEF Returned
  <2> DEFINE end == v[Len(v)][Len(v[Len(v)])].n
  <2>3. end \in Nat /\ end + len <= top + MinAnalyses BY <2>1, <2>2
  <2> HIDE DEF end
  <2>4. end + kept <= top + 1 + MinAnalyses
    BY ONLY <2>3, SilenceAssumption, top \in Int, len \in Nat, kept \in Nat, kept <= len + 1
  <2>5. QED BY <2>4 DEF end
<1>2. QED BY <1>1 DEF Returned

\* A run that ends with the analysis scanned, and begins with what was kept, is in order.
LEMMA ReturnedRun ==
  ASSUME NEW v, NEW top \in Int, NEW len \in Nat, Returned(v, top, len),
         NEW run \in Seq(Marks), Framed(run), run[1].n = top + 1 - len, run[Len(run)].n = top + 1,
         NEW w \in Seq(Seq(Marks)), Len(w) = Len(v) + 1, w[Len(w)] = run, \A i \in 1..Len(v) : w[i] = v[i],
         NEW kept \in Nat, kept <= MinAnalyses
  PROVE  Returned(w, top + 1, kept)
<1>1. v \in Seq(Seq(Marks)) /\ Len(v) \in Nat BY DEF Returned
<1>2. w \in Seq(Seq(Marks)) /\ Len(w) = Len(v) + 1 /\ w[Len(w)] = run /\ \A i \in 1..Len(v) : w[i] = v[i]
  OBVIOUS
<1>3. \A i \in 1..Len(w) : Framed(w[i])
  <2> TAKE i \in 1..Len(w)
  <2>1. CASE i = Len(w) BY <1>2, <2>1
  <2>2. CASE i # Len(w)
    <3>1. i \in 1..Len(v) BY <1>1, <1>2, <2>2
    <3>2. QED BY <1>2, <3>1 DEF Returned
  <2>3. QED BY <2>1, <2>2
<1>4. \A i \in 2..Len(w) : w[i][1].n > w[i - 1][Len(w[i - 1])].n - MinAnalyses
  <2> TAKE i \in 2..Len(w)
  <2>1. CASE i = Len(w)
    <3>1. i - 1 = Len(v) /\ Len(v) \in 1..Len(v) BY <1>1, <1>2, <2>1
    <3>2. w[i - 1] = v[Len(v)] BY <1>2, <3>1
    <3>5. v[Len(v)][Len(v[Len(v)])].n \in Nat BY <3>1, LastRun
    <3>6. v[Len(v)][Len(v[Len(v)])].n + len <= top + MinAnalyses BY <3>1 DEF Returned
    <3>7. v[Len(v)][Len(v[Len(v)])].n - MinAnalyses < top + 1 - len
      <4> DEFINE end == v[Len(v)][Len(v[Len(v)])].n
      <4>1. end \in Nat /\ end + len <= top + MinAnalyses BY <3>5, <3>6
      <4> HIDE DEF end
      <4>2. end - MinAnalyses < top + 1 - len BY ONLY <4>1, SilenceAssumption, top \in Int, len \in Nat
      <4>3. QED BY <4>2 DEF end
    <3>8. QED BY <1>2, <2>1, <3>2, <3>7
  <2>2. CASE i # Len(w)
    <3>1. i \in 2..Len(v) /\ i \in 1..Len(v) /\ i - 1 \in 1..Len(v)
      <4>1. Len(v) \in Nat /\ Len(w) = Len(v) + 1 BY <1>1
      <4>2. QED BY ONLY <2>2, <4>1, i \in 2..Len(w)
    <3>2. w[i] = v[i] /\ w[i - 1] = v[i - 1] BY <1>2, <3>1
    <3>3. QED BY <3>1, <3>2 DEF Returned
  <2>3. QED BY <2>1, <2>2
<1>5. w[Len(w)][Len(w[Len(w)])].n + kept <= top + 1 + MinAnalyses BY <1>2, SilenceAssumption
<1>6. QED BY <1>2, <1>3, <1>4, <1>5 DEF Returned

\* A scan, field by field.
ScanOf(seen, leading, inBetween, trailing, v) ==
  [seen |-> seen, leading |-> leading, inBetween |-> inBetween, trailing |-> trailing, valid |-> v]

IsScan(y, seen, leading, inBetween, trailing, v) ==
  /\ y.seen = seen /\ y.leading = leading /\ y.inBetween = inBetween /\ y.trailing = trailing /\ y.valid = v

\* The seven turns the loop may take.
LEMMA ScanTurns ==
  ASSUME NEW x \in Scans, NEW a \in Marks
  PROVE  LET y == Scan(x, a)
             seen == Append(x.seen, a)
         IN  /\ a.silent /\ x.inBetween = 0 /\ x.leading < MinAnalyses =>
                  y = ScanOf(seen, x.leading + 1, 0, x.trailing, x.valid)
             /\ a.silent /\ x.inBetween = 0 /\ ~(x.leading < MinAnalyses) =>
                  y = ScanOf(From(seen, x.leading + 2 - MinAnalyses), x.leading, 0, x.trailing, x.valid)
             /\ a.silent /\ x.inBetween # 0 /\ x.trailing + 1 < MinAnalyses =>
                  y = ScanOf(seen, x.leading, x.inBetween, x.trailing + 1, x.valid)
             /\ a.silent /\ x.inBetween # 0 /\ ~(x.trailing + 1 < MinAnalyses) =>
                  y = ScanOf(From(seen, x.leading + x.inBetween + 1), MinAnalyses, 0, 0, Append(x.valid, seen))
             /\ ~a.silent /\ x.seen = <<>> => y = x
             /\ ~a.silent /\ x.seen # <<>> /\ x.inBetween = 0 /\ x.leading < MinAnalyses =>
                  y = ScanOf(<<>>, x.leading, 0, x.trailing, x.valid)
             /\ ~a.silent /\ x.seen # <<>> /\ ~(x.inBetween = 0 /\ x.leading < MinAnalyses) =>
                  y = ScanOf(seen, x.leading, x.inBetween + x.trailing + 1, 0, x.valid)
<1> DEFINE y == Scan(x, a)
           seen == Append(x.seen, a)
<1>1. /\ a.silent /\ x.inBetween = 0 /\ x.leading < MinAnalyses =>
           IsScan(y, seen, x.leading + 1, 0, x.trailing, x.valid)
      /\ a.silent /\ x.inBetween = 0 /\ ~(x.leading < MinAnalyses) =>
           IsScan(y, From(seen, x.leading + 2 - MinAnalyses), x.leading, 0, x.trailing, x.valid)
      /\ a.silent /\ x.inBetween # 0 /\ x.trailing + 1 < MinAnalyses =>
           IsScan(y, seen, x.leading, x.inBetween, x.trailing + 1, x.valid)
      /\ a.silent /\ x.inBetween # 0 /\ ~(x.trailing + 1 < MinAnalyses) =>
           IsScan(y, From(seen, x.leading + x.inBetween + 1), MinAnalyses, 0, 0, Append(x.valid, seen))
      /\ ~a.silent /\ x.seen = <<>> => y = x
      /\ ~a.silent /\ x.seen # <<>> /\ x.inBetween = 0 /\ x.leading < MinAnalyses =>
           IsScan(y, <<>>, x.leading, 0, x.trailing, x.valid)
      /\ ~a.silent /\ x.seen # <<>> /\ ~(x.inBetween = 0 /\ x.leading < MinAnalyses) =>
           IsScan(y, seen, x.leading, x.inBetween + x.trailing + 1, 0, x.valid)
  BY DEF Scan, LeadingSilence, TrailingSilence, NoSilence, IsScan, Scans
<1>2. y = ScanOf(y.seen, y.leading, y.inBetween, y.trailing, y.valid)
  BY DEF Scan, LeadingSilence, TrailingSilence, NoSilence, ScanOf, Scans
<1> HIDE DEF y, seen
<1>3. \A p, l, b, tr, v : IsScan(y, p, l, b, tr, v) => y = ScanOf(p, l, b, tr, v) BY ONLY <1>2 DEF IsScan
<1>4. QED BY <1>1, <1>3 DEF y, seen

\* An analysis appended to what a scan has seen keeps the numbers and the types.
LEMMA SeenMore ==
  ASSUME NEW s \in Seq(Marks), NEW top \in Int, Numbered(s, top), NEW a \in Marks, a.n = top + 1
  PROVE  LET t == Append(s, a)
         IN  /\ t \in Seq(Marks) /\ Len(t) = Len(s) + 1 /\ t[Len(s) + 1] = a /\ Len(s) \in Nat
             /\ \A j \in 1..Len(s) : t[j] = s[j]
             /\ Numbered(t, top + 1)
<1> DEFINE t == Append(s, a)
<1>1. /\ t \in Seq(Marks) /\ Len(t) = Len(s) + 1 /\ t[Len(s) + 1] = a /\ Len(s) \in Nat
      /\ \A j \in 1..Len(s) : t[j] = s[j]
  BY AppendProperties
<1> HIDE DEF t
<1>2. ASSUME NEW j \in 1..Len(t) PROVE t[j].n = top + 1 - Len(t) + j
  <2>1. CASE j = Len(s) + 1 BY <1>1, <2>1
  <2>2. CASE j # Len(s) + 1
    <3>1. j \in 1..Len(s) BY <1>1, <2>2
    <3>2. s[j].n = top - Len(s) + j BY <3>1 DEF Numbered
    <3>3. QED BY <1>1, <3>1, <3>2
  <2>3. QED BY <2>1, <2>2
<1>3. Numbered(t, top + 1) BY <1>2 DEF Numbered
<1>4. QED BY <1>1, <1>3 DEF t

\* Nor does a cut at the beginning change the numbers of the rest.
LEMMA SeenLess ==
  ASSUME NEW s \in Seq(Marks), NEW top \in Int, Numbered(s, top), NEW k \in 1..Len(s) + 1
  PROVE  Numbered(From(s, k), top)
<1>1. /\ Len(From(s, k)) = Len(s) + 1 - k /\ Len(s) \in Nat /\ k \in Int
      /\ \A j \in 1..Len(s) + 1 - k : From(s, k)[j] = s[k + j - 1]
  BY FromRest
<1>2. ASSUME NEW j \in 1..Len(From(s, k)) PROVE From(s, k)[j].n = top - Len(From(s, k)) + j
  <2>1. k + j - 1 \in 1..Len(s) /\ From(s, k)[j] = s[k + j - 1] BY <1>1
  <2>2. s[k + j - 1].n = top - Len(s) + (k + j - 1) BY <2>1 DEF Numbered
  <2>3. QED BY <1>1, <2>1, <2>2
<1>3. QED BY <1>2 DEF Numbered

\* A scan that goes on from the runs v, up to analysis number top.
Scanning(x, top, v) == /\ x \in Scans /\ Phase(x) /\ Numbered(x.seen, top)
                       /\ Returned(v \o x.valid, top, Len(x.seen))

\* A turn of the loop keeps it.
LEMMA ScanKeeps ==
  ASSUME NEW v \in Seq(Seq(Marks)), NEW top \in Int, NEW x, Scanning(x, top, v),
         NEW a \in Marks, a.n = top + 1
  PROVE  Scanning(Scan(x, a), top + 1, v)
<1> DEFINE y == Scan(x, a)
           s == x.seen
           t == Append(s, a)
           n == Len(s)
<1>0. x \in Scans /\ Phase(x) /\ Numbered(s, top) /\ Returned(v \o x.valid, top, n) BY DEF Scanning
<1>1. /\ t \in Seq(Marks) /\ Len(t) = n + 1 /\ t[n + 1] = a /\ n \in Nat
      /\ \A j \in 1..n : t[j] = s[j]
      /\ Numbered(t, top + 1) /\ s \in Seq(Marks)
  <2>1. s \in Seq(Marks) BY <1>0 DEF Scans
  <2>2. Numbered(s, top) BY <1>0
  <2>3. QED BY ONLY <2>1, <2>2, a \in Marks, top \in Int, a.n = top + 1, SeenMore
<1>2. x.leading \in Nat /\ x.inBetween \in Nat /\ x.trailing \in Nat /\ x.valid \in Seq(Seq(Marks)) BY <1>0 DEF Scans
<1> DEFINE l == x.leading  b == x.inBetween  tr == x.trailing
<1>3. /\ l \in Nat /\ b \in Nat /\ tr \in Nat /\ MinAnalyses \in Nat /\ MinAnalyses >= 1 /\ l <= MinAnalyses
      /\ b = 0 => tr = 0 /\ n <= l /\ \A j \in 1..n : s[j].silent
      /\ b > 0 => /\ l = MinAnalyses /\ tr < MinAnalyses /\ n <= MinAnalyses + b + tr /\ n > b + tr
                  /\ s[1].silent /\ ~s[n - tr].silent /\ \A j \in (n - tr + 1)..n : s[j].silent
  BY <1>0, <1>2, SilenceAssumption DEF Phase, SilentRun
<1>4. ASSUME y.valid = x.valid, y.seen \in Seq(Marks), Len(y.seen) <= n + 1 PROVE Returned(v \o y.valid, top + 1, Len(y.seen))
  <2>1. Len(y.seen) \in Nat BY <1>4
  <2>2. QED BY <1>0, <1>1, <1>4, <2>1, ReturnedLater
<1>5. /\ a.silent /\ b = 0 /\ l < MinAnalyses => y = ScanOf(t, l + 1, 0, tr, x.valid)
      /\ a.silent /\ b = 0 /\ ~(l < MinAnalyses) => y = ScanOf(From(t, l + 2 - MinAnalyses), l, 0, tr, x.valid)
      /\ a.silent /\ b # 0 /\ tr + 1 < MinAnalyses => y = ScanOf(t, l, b, tr + 1, x.valid)
      /\ a.silent /\ b # 0 /\ ~(tr + 1 < MinAnalyses) =>
           y = ScanOf(From(t, l + b + 1), MinAnalyses, 0, 0, Append(x.valid, t))
      /\ ~a.silent /\ s = <<>> => y = x
      /\ ~a.silent /\ s # <<>> /\ b = 0 /\ l < MinAnalyses => y = ScanOf(<<>>, l, 0, tr, x.valid)
      /\ ~a.silent /\ s # <<>> /\ ~(b = 0 /\ l < MinAnalyses) => y = ScanOf(t, l, b + tr + 1, 0, x.valid)
  BY <1>0, ScanTurns
<1>6. a.silent \in BOOLEAN BY DEF Marks
<1> HIDE DEF y, t, n, l, b, tr, s
<1>7. CASE a.silent /\ b = 0 /\ l < MinAnalyses
  <2>1. /\ y \in Scans /\ y.seen = t /\ y.leading = l + 1 /\ y.inBetween = 0 /\ y.trailing = 0 /\ y.valid = x.valid
    <3>1. y = ScanOf(t, l + 1, 0, 0, x.valid) /\ l + 1 \in Nat /\ 0 \in Nat BY <1>3, <1>5, <1>7
    <3>2. t \in Seq(Marks) /\ x.valid \in Seq(Seq(Marks)) BY <1>1, <1>2
    <3>3. QED BY ONLY <3>1, <3>2 DEF ScanOf, Scans
  <2>2. \A j \in 1..(n + 1) : t[j].silent
    <3>1. \A j \in 1..(n + 1) : j \in 1..n \/ j = n + 1 BY <1>1
    <3>2. QED BY <1>1, <1>3, <1>7, <3>1
  <2>3. Phase(y) BY <1>1, <1>3, <1>7, <2>1, <2>2 DEF Phase, SilentRun
  <2>4. Returned(v \o y.valid, top + 1, Len(y.seen)) BY <1>1, <1>4, <2>1
  <2>5. QED BY <1>1, <2>1, <2>3, <2>4 DEF Scanning, y
<1>8. CASE a.silent /\ b = 0 /\ ~(l < MinAnalyses)
  <2>1. l + 2 - MinAnalyses = 2 /\ 2 \in 1..Len(t) + 1 BY <1>1, <1>3, <1>8
  <2>2. From(t, 2) \in Seq(Marks) /\ Len(From(t, 2)) = n /\ \A j \in 1..n : From(t, 2)[j] = t[j + 1]
    <3>1. /\ From(t, 2) \in Seq(Marks) /\ Len(From(t, 2)) = Len(t) + 1 - 2
          /\ \A j \in 1..(Len(t) + 1 - 2) : From(t, 2)[j] = t[2 + j - 1]
      <4>1. t \in Seq(Marks) /\ 2 \in 1..Len(t) + 1 BY ONLY <1>1, <2>1
      <4>2. QED BY ONLY <4>1, FromRest
    <3>2. QED BY <1>1, <3>1
  <2>3. Numbered(From(t, 2), top + 1)
    <3>1. top + 1 \in Int OBVIOUS
    <3>2. QED BY <1>1, <2>1, <3>1, SeenLess
  <2>4. /\ y \in Scans /\ y.seen = From(t, 2) /\ y.leading = l /\ y.inBetween = 0 /\ y.trailing = 0 /\ y.valid = x.valid
    <3>1. y = ScanOf(From(t, 2), l, 0, 0, x.valid) /\ l \in Nat /\ 0 \in Nat BY <1>3, <1>5, <1>8, <2>1
    <3>2. From(t, 2) \in Seq(Marks) /\ x.valid \in Seq(Seq(Marks)) BY <1>2, <2>2
    <3>3. QED BY ONLY <3>1, <3>2 DEF ScanOf, Scans
  <2>5. \A j \in 1..n : From(t, 2)[j].silent
    <3> TAKE j \in 1..n
    <3>1. CASE j + 1 \in 1..n BY <1>1, <1>3, <1>8, <2>2, <3>1
    <3>2. CASE j + 1 = n + 1 BY <1>1, <1>8, <2>2, <3>2
    <3>3. QED BY <1>1, <3>1, <3>2
  <2>6. Phase(y) BY <1>1, <1>3, <1>8, <2>2, <2>4, <2>5 DEF Phase, SilentRun
  <2>7. Returned(v \o y.valid, top + 1, Len(y.seen)) BY <1>1, <1>4, <2>2, <2>4
  <2>8. QED BY <2>3, <2>4, <2>6, <2>7 DEF Scanning, y
<1>9. CASE a.silent /\ b # 0 /\ tr + 1 < MinAnalyses
  <2>1. /\ y \in Scans /\ y.seen = t /\ y.leading = l /\ y.inBetween = b /\ y.trailing = tr + 1 /\ y.valid = x.valid
    <3>1. y = ScanOf(t, l, b, tr + 1, x.valid) /\ l \in Nat /\ b \in Nat /\ tr + 1 \in Nat BY <1>3, <1>5, <1>9
    <3>2. t \in Seq(Marks) /\ x.valid \in Seq(Seq(Marks)) BY <1>1, <1>2
    <3>3. QED BY ONLY <3>1, <3>2 DEF ScanOf, Scans
  <2>0. b \in Nat /\ b > 0 /\ n \in Nat /\ tr \in Nat /\ n > b + tr BY <1>1, <1>3, <1>9
  <2>2. b > 0 /\ n - tr \in 1..n /\ 1 \in 1..n BY ONLY <2>0
  <2>3. t[1].silent /\ ~t[(n + 1) - (tr + 1)].silent
    <3>1. (n + 1) - (tr + 1) = n - tr BY ONLY <2>0
    <3>2. t[1] = s[1] /\ t[n - tr] = s[n - tr] BY <1>1, <2>2
    <3>3. QED BY <1>3, <2>2, <3>1, <3>2
  <2>4. ASSUME NEW j \in ((n + 1) - (tr + 1) + 1)..(n + 1) PROVE t[j].silent
    <3>1. j \in Int /\ n \in Nat /\ tr \in Nat /\ n - tr \in 1..n BY <1>1, <1>3, <2>2
    <3>2. (j \in (n - tr + 1)..n /\ j \in 1..n) \/ j = n + 1 BY ONLY <3>1, j \in ((n + 1) - (tr + 1) + 1)..(n + 1)
    <3>3. QED BY <1>1, <1>3, <1>9, <2>2, <3>2
  <2>5. Phase(y)
    <3>1. Len(t) = n + 1 /\ n \in Nat /\ b \in Nat /\ b > 0 /\ tr \in Nat /\ l = MinAnalyses /\ tr + 1 < MinAnalyses
          /\ n + 1 <= MinAnalyses + b + (tr + 1) /\ n + 1 > b + (tr + 1) /\ MinAnalyses \in Nat
      BY <1>1, <1>3, <1>9, <2>2
    <3>2. SilentRun(t, (n + 1) - (tr + 1) + 1, n + 1) BY <2>4 DEF SilentRun
    <3>3. QED BY ONLY <2>1, <2>3, <3>1, <3>2 DEF Phase
  <2>6. Returned(v \o y.valid, top + 1, Len(y.seen)) BY <1>1, <1>4, <2>1
  <2>7. QED BY <1>1, <2>1, <2>5, <2>6 DEF Scanning, y
<1>10. CASE a.silent /\ b # 0 /\ ~(tr + 1 < MinAnalyses)
  <2> DEFINE k == l + b + 1
             r == From(t, k)
  <2>1. b > 0 /\ tr + 1 = MinAnalyses /\ l = MinAnalyses /\ k = MinAnalyses + b + 1 /\ k \in 1..Len(t) + 1 /\ k \in Nat
        /\ n - tr \in 2..n
    <3>1. b > 0 /\ tr + 1 = MinAnalyses /\ l = MinAnalyses /\ k = MinAnalyses + b + 1 BY <1>3, <1>10
    <3>2. b \in Nat /\ tr \in Nat /\ MinAnalyses \in Nat /\ n \in Nat /\ Len(t) = n + 1 /\ n <= MinAnalyses + b + tr /\ n > b + tr
      BY <1>1, <1>3, <3>1
    <3> HIDE DEF k
    <3>3. k \in 1..Len(t) + 1 /\ k \in Nat /\ n - tr \in 2..n BY ONLY <3>1, <3>2
    <3>4. QED BY <3>1, <3>3
  <2> HIDE DEF k
  <2>2. r \in Seq(Marks) /\ Len(r) = n + 2 - k /\ \A j \in 1..(n + 2 - k) : r[j] = t[k + j - 1]
    <3>1. r \in Seq(Marks) /\ Len(r) = Len(t) + 1 - k /\ \A j \in 1..(Len(t) + 1 - k) : r[j] = t[k + j - 1]
      <4>1. t \in Seq(Marks) /\ k \in 1..Len(t) + 1 BY <1>1, <2>1
      <4>2. QED BY ONLY <4>1, FromRest
    <3>2. Len(t) + 1 - k = n + 2 - k BY <1>1, <2>1
    <3>3. QED BY <3>1, <3>2
  <2>3. Numbered(r, top + 1)
    <3>1. top + 1 \in Int OBVIOUS
    <3>2. QED BY <1>1, <2>1, <3>1, SeenLess
  <2> HIDE DEF r
  <2>4. \A j \in (n - tr + 1)..(n + 1) : t[j].silent
    <3> TAKE j \in (n - tr + 1)..(n + 1)
    <3>1. (j \in (n - tr + 1)..n /\ j \in 1..n) \/ j = n + 1
      <4>1. n \in Nat /\ tr \in Nat /\ n - tr \in 2..n BY <1>1, <1>3, <2>1
      <4>2. QED BY ONLY <4>1, j \in (n - tr + 1)..(n + 1)
    <3>2. QED BY <1>1, <1>3, <1>10, <2>1, <3>1
  <2>5. Append(x.valid, t) \in Seq(Seq(Marks)) BY <1>1, <1>2
  <2>6. /\ y \in Scans /\ y.seen = r /\ y.leading = MinAnalyses /\ y.inBetween = 0 /\ y.trailing = 0
        /\ y.valid = Append(x.valid, t)
    <3>1. y = ScanOf(r, MinAnalyses, 0, 0, Append(x.valid, t)) /\ MinAnalyses \in Nat /\ 0 \in Nat
      BY <1>3, <1>5, <1>10 DEF r, k
    <3>2. r \in Seq(Marks) BY <2>2
    <3>3. QED BY ONLY <2>5, <3>1, <3>2 DEF ScanOf, Scans
  <2>7. \A j \in 1..(n + 2 - k) : r[j].silent
    <3> TAKE j \in 1..(n + 2 - k)
    <3>1. k + j - 1 \in (n - tr + 1)..(n + 1)
      <4>1. b \in Nat /\ tr \in Nat /\ MinAnalyses \in Nat /\ n \in Nat /\ n <= MinAnalyses + b + tr /\ b > 0
        BY <1>1, <1>3, <2>1
      <4>2. QED BY ONLY <2>1, <4>1, j \in 1..(n + 2 - k)
    <3>2. QED BY <2>2, <2>4, <3>1
  <2>8. Phase(y) BY <1>1, <1>3, <2>1, <2>2, <2>6, <2>7 DEF Phase, SilentRun
  <2>9. Framed(t)
    <3>1. Len(t) - MinAnalyses = n - tr BY <1>1, <1>3, <2>1
    <3>2. \A j \in 2..Len(t) : t[j].n = t[j - 1].n + 1
      <4> TAKE j \in 2..Len(t)
      <4>1. j \in 1..Len(t) /\ j - 1 \in 1..Len(t) BY <1>1
      <4>2. t[j].n = top + 1 - Len(t) + j /\ t[j - 1].n = top + 1 - Len(t) + (j - 1) BY <1>1, <4>1 DEF Numbered
      <4>3. QED BY <1>1, <4>2
    <3>3. t[1].silent /\ ~t[n - tr].silent BY <1>1, <1>3, <2>1
    <3>4. SilentRun(t, n - tr + 1, Len(t)) BY <1>1, <2>4 DEF SilentRun
    <3>5. n - tr >= 2 BY <1>1, <2>1
    <3>6. QED BY ONLY <3>1, <3>2, <3>3, <3>4, <3>5 DEF Framed
  <2>10. t[1].n = top + 1 - n /\ t[Len(t)].n = top + 1
    <3>1. 1 \in 1..Len(t) /\ Len(t) \in 1..Len(t) BY <1>1
    <3>2. t[1].n = top + 1 - Len(t) + 1 BY <1>1, <3>1 DEF Numbered
    <3>3. QED BY <1>1, <3>2
  <2>11. Len(r) \in Nat /\ Len(r) <= MinAnalyses BY <1>1, <1>3, <2>1, <2>2
  <2>12. /\ v \o y.valid \in Seq(Seq(Marks)) /\ Len(v \o y.valid) = Len(v \o x.valid) + 1
         /\ (v \o y.valid)[Len(v \o y.valid)] = t
         /\ \A i \in 1..Len(v \o x.valid) : (v \o y.valid)[i] = (v \o x.valid)[i]
    <3> DEFINE w == x.valid  u == y.valid  len == Len(w)
    <3>1. w \in Seq(Seq(Marks)) /\ u \in Seq(Seq(Marks)) /\ len \in Nat /\ Len(u) = len + 1 /\ u[len + 1] = t
          /\ \A i \in 1..len : u[i] = w[i]
      BY <1>1, <1>2, <2>5, <2>6, AppendProperties
    <3> HIDE DEF w, u, len
    <3>2. Len(v) \in Nat OBVIOUS
    <3>3. v \o u \in Seq(Seq(Marks)) /\ Len(v \o u) = Len(v) + (len + 1)
          /\ \A i \in 1..Len(v) + (len + 1) : (v \o u)[i] = IF i <= Len(v) THEN v[i] ELSE u[i - Len(v)]
      <4>1. /\ v \o u \in Seq(Seq(Marks)) /\ Len(v \o u) = Len(v) + Len(u)
            /\ \A i \in 1..Len(v) + Len(u) : (v \o u)[i] = IF i <= Len(v) THEN v[i] ELSE u[i - Len(v)]
        BY ONLY <3>1, v \in Seq(Seq(Marks)), ConcatProperties
      <4>2. QED BY <3>1, <4>1
    <3>4. Len(v \o w) = Len(v) + len /\ \A i \in 1..Len(v) + len : (v \o w)[i] = IF i <= Len(v) THEN v[i] ELSE w[i - Len(v)]
      BY <3>1, ConcatProperties DEF len
    <3>5. (v \o u)[Len(v) + (len + 1)] = t BY <3>1, <3>2, <3>3
    <3>6. ASSUME NEW i \in 1..Len(v) + len PROVE (v \o u)[i] = (v \o w)[i]
      <4>1. Len(v) \in Nat /\ len \in Nat BY <3>1
      <4>2. i \in 1..Len(v) + (len + 1) /\ (~(i <= Len(v)) => i - Len(v) \in 1..len) BY ONLY <4>1, i \in 1..Len(v) + len
      <4>3. ~(i <= Len(v)) => u[i - Len(v)] = w[i - Len(v)] BY <3>1, <3>2, <4>2
      <4>4. QED BY ONLY <3>3, <3>4, <4>2, <4>3, i \in 1..Len(v) + len
    <3>7. Len(v \o u) = Len(v \o w) + 1 /\ Len(v \o u) = Len(v) + (len + 1) BY <3>1, <3>2, <3>3, <3>4
    <3>8. QED BY ONLY <3>3, <3>4, <3>5, <3>6, <3>7 DEF w, u
  <2>13. Returned(v \o y.valid, top + 1, Len(r))
    <3>1. Returned(v \o x.valid, top, n) /\ n \in Nat BY <1>0, <1>1 DEF n, s
    <3>2. t \in Seq(Marks) BY <1>1
    <3>3. QED BY ONLY <2>9, <2>10, <2>11, <2>12, <3>1, <3>2, top \in Int, ReturnedRun
  <2>14. QED BY <2>3, <2>6, <2>8, <2>13 DEF Scanning, y
<1>11. CASE ~a.silent /\ s = <<>>
  <2>1. y = x /\ n = 0 BY <1>5, <1>11 DEF n
  <2>2. Numbered(x.seen, top + 1) BY <2>1 DEF Numbered, n, s
  <2>3. Returned(v \o y.valid, top + 1, Len(y.seen)) BY <1>1, <1>4, <2>1 DEF n, s
  <2>4. QED BY <1>0, <2>1, <2>2, <2>3 DEF Scanning, y
<1>12. CASE ~a.silent /\ s # <<>> /\ b = 0 /\ l < MinAnalyses
  <2>1. <<>> \in Seq(Marks) /\ Len(<<>>) = 0 BY EmptySeq
  <2>2. /\ y \in Scans /\ y.seen = <<>> /\ y.leading = l /\ y.inBetween = 0 /\ y.trailing = 0 /\ y.valid = x.valid
    <3>1. y = ScanOf(<<>>, l, 0, 0, x.valid) /\ l \in Nat /\ 0 \in Nat BY <1>3, <1>5, <1>12
    <3>2. <<>> \in Seq(Marks) /\ x.valid \in Seq(Seq(Marks)) BY <1>2, <2>1
    <3>3. QED BY ONLY <3>1, <3>2 DEF ScanOf, Scans
  <2>3. Phase(y) BY <1>3, <2>1, <2>2 DEF Phase, SilentRun
  <2>4. Numbered(y.seen, top + 1) BY <2>1, <2>2 DEF Numbered
  <2>5. Returned(v \o y.valid, top + 1, Len(y.seen)) BY <1>1, <1>4, <2>1, <2>2
  <2>6. QED BY <2>2, <2>3, <2>4, <2>5 DEF Scanning, y
<1>13. CASE ~a.silent /\ s # <<>> /\ ~(b = 0 /\ l < MinAnalyses)
  <2>1. b + tr + 1 \in Nat /\ b + tr + 1 > 0 BY <1>3
  <2>2. /\ y \in Scans /\ y.seen = t /\ y.leading = l /\ y.inBetween = b + tr + 1 /\ y.trailing = 0 /\ y.valid = x.valid
    <3>1. y = ScanOf(t, l, b + tr + 1, 0, x.valid) /\ l \in Nat /\ 0 \in Nat BY <1>3, <1>5, <1>13
    <3>2. t \in Seq(Marks) /\ x.valid \in Seq(Seq(Marks)) BY <1>1, <1>2
    <3>3. QED BY ONLY <2>1, <3>1, <3>2 DEF ScanOf, Scans
  <2>3. n >= 1 /\ l = MinAnalyses
    <3>1. n >= 1 BY <1>1, <1>13 DEF n
    <3>2. QED BY <1>3, <1>13, <3>1
  <2>4. t[1].silent
    <3>1. s[1].silent BY <1>1, <1>3, <2>3
    <3>2. QED BY <1>1, <2>3, <3>1
  <2>5. ~t[(n + 1) - 0].silent BY <1>1, <1>13
  <2>6. Phase(y) BY <1>1, <1>3, <2>1, <2>2, <2>3, <2>4, <2>5 DEF Phase, SilentRun
  <2>7. Returned(v \o y.valid, top + 1, Len(y.seen)) BY <1>1, <1>4, <2>2
  <2>8. QED BY <1>1, <2>2, <2>6, <2>7 DEF Scanning, y
<1>14. QED BY <1>6, <1>7, <1>8, <1>9, <1>10, <1>11, <1>12, <1>13

\* What holds of 0, and of each number after one of which it holds, holds up to any bound.
LEMMA UpTo ==
  ASSUME NEW N \in Nat, NEW T, 0 \in T, \A i \in 0..N : i < N /\ i \in T => i + 1 \in T
  PROVE  \A i \in 0..N : i \in T
<1> DEFINE bad == {i \in 0..N : i \notin T}
<1> SUFFICES ASSUME bad # {} PROVE FALSE OBVIOUS
<1>1. bad \in SUBSET Nat OBVIOUS
<1>2. PICK n \in bad : \A q \in bad : ~(<<q, n>> \in OpToRel(<, Nat))
  BY <1>1, NatLessThanWellFounded, WFMin
<1>3. n \in 0..N /\ n \notin T BY <1>2
<1>4. n # 0 BY <1>3
<1>5. n - 1 \in 0..N /\ n - 1 < N /\ (n - 1) + 1 = n BY <1>3, <1>4
<1>6. n - 1 \notin T BY <1>3, <1>5
<1>7. n - 1 \in bad BY <1>5, <1>6
<1>8. <<n - 1, n>> \in OpToRel(<, Nat)
  <2>1. n \in Nat /\ n - 1 \in Nat /\ n - 1 < n BY <1>3, <1>5
  <2>2. QED BY <2>1 DEF OpToRel
<1>9. QED BY <1>2, <1>7, <1>8

\* The states of a loop that goes through the first len of s.
IsLoop(g, s, len) == g = [i \in 0..len |-> IF i = 0 THEN NewScan ELSE Scan(g[i - 1], s[i])]

\* Such a loop exists, for it exists up to 0 and goes on by a turn.
LEMMA LoopExists == ASSUME NEW s, NEW N \in Nat PROVE \E g : IsLoop(g, s, N)
<1> DEFINE T == {len \in Nat : \E g : IsLoop(g, s, len)}
<1>1. 0 \in T
  <2> DEFINE g == [i \in 0..0 |-> NewScan]
  <2>1. \A i \in 0..0 : i = 0 OBVIOUS
  <2>2. g = [i \in 0..0 |-> IF i = 0 THEN NewScan ELSE Scan(g[i - 1], s[i])] BY <2>1
  <2>3. QED BY <2>2 DEF IsLoop
<1>2. ASSUME NEW len \in 0..N, len < N, len \in T PROVE len + 1 \in T
  <2>1. PICK g : IsLoop(g, s, len) BY <1>2
  <2> DEFINE h == [i \in 0..len + 1 |-> IF i = len + 1 THEN Scan(g[len], s[len + 1]) ELSE g[i]]
  <2>2. ASSUME NEW i \in 0..len + 1 PROVE h[i] = IF i = 0 THEN NewScan ELSE Scan(h[i - 1], s[i])
    <3>1. CASE i = len + 1
      <4>1. i # 0 /\ i - 1 = len /\ len \in 0..len + 1 /\ len # len + 1 BY <3>1
      <4>2. h[i] = Scan(g[len], s[len + 1]) /\ h[len] = g[len] BY <3>1, <4>1
      <4>3. QED BY <3>1, <4>1, <4>2
    <3>2. CASE i # len + 1
      <4>1. i \in 0..len /\ h[i] = g[i] BY <3>2
      <4>2. g[i] = IF i = 0 THEN NewScan ELSE Scan(g[i - 1], s[i]) BY <2>1, <4>1 DEF IsLoop
      <4>3. CASE i = 0 BY <4>1, <4>2, <4>3
      <4>4. CASE i # 0
        <5>1. i - 1 \in 0..len + 1 /\ i - 1 # len + 1 BY <4>1, <4>4
        <5>2. h[i - 1] = g[i - 1] BY <5>1
        <5>3. QED BY <4>1, <4>2, <4>4, <5>2
      <4>5. QED BY <4>3, <4>4
    <3>3. QED BY <3>1, <3>2
  <2>3. h = [i \in 0..len + 1 |-> h[i]] OBVIOUS
  <2> HIDE DEF h
  <2>4. h = [i \in 0..len + 1 |-> IF i = 0 THEN NewScan ELSE Scan(h[i - 1], s[i])] BY <2>2, <2>3
  <2>5. QED BY <2>4 DEF IsLoop
<1> HIDE DEF T
<1>3. \A i \in 0..N : i \in T BY <1>1, <1>2, UpTo
<1>4. N \in T BY <1>3
<1>5. QED BY <1>4 DEF T

\* What Scanned computes are the states of a loop.
LEMMA LoopOf ==
  ASSUME NEW s, Len(s) \in Nat
  PROVE  \E g : /\ Scanned(s) = g[Len(s)] /\ g[0] = NewScan
                /\ \A i \in 1..Len(s) : g[i] = Scan(g[i - 1], s[i])
<1> DEFINE g == CHOOSE g : g = [i \in 0..Len(s) |-> IF i = 0 THEN NewScan ELSE Scan(g[i - 1], s[i])]
<1>1. g = [i \in 0..Len(s) |-> IF i = 0 THEN NewScan ELSE Scan(g[i - 1], s[i])] BY LoopExists DEF IsLoop
<1>2. Scanned(s) = g[Len(s)] BY DEF Scanned
<1> HIDE DEF g
<1>3. g[0] = NewScan
  <2>1. 0 \in 0..Len(s) OBVIOUS
  <2>2. QED BY <1>1, <2>1
<1>4. ASSUME NEW i \in 1..Len(s) PROVE g[i] = Scan(g[i - 1], s[i])
  <2>1. i \in 0..Len(s) /\ i # 0 OBVIOUS
  <2>2. QED BY <1>1, <2>1
<1>5. QED BY <1>2, <1>3, <1>4

\* What is kept while each Add finishes one step at most: the first len of s are at most the
\* silence that counts, or that silence, something else, and no such silence after it.
Exact(s, len) ==
  \/ len <= MinAnalyses /\ SilentRun(s, 1, len)
  \/ /\ len > MinAnalyses /\ SilentRun(s, 1, MinAnalyses) /\ ~s[MinAnalyses + 1].silent
     /\ \A p \in MinAnalyses + 1..len + 1 - MinAnalyses : ~SilentRun(s, p, p + MinAnalyses - 1)

\* The counts of a scan that has removed nothing are those of what it has seen.
Counted(x) == /\ x.inBetween = 0 => x.leading = Len(x.seen)
              /\ x.inBetween > 0 => Len(x.seen) = MinAnalyses + x.inBetween + x.trailing

\* Exact looks at the first analyses only, and what is exact is exact from its beginning on.
LEMMA ExactPrefix ==
  ASSUME NEW s, NEW len \in Nat, Exact(s, len), NEW k \in 0..len, NEW t, \A j \in 1..k : t[j] = s[j]
  PROVE  Exact(t, k)
<1>1. MinAnalyses \in Nat /\ MinAnalyses >= 1 BY SilenceAssumption
<1>2. CASE k <= MinAnalyses
  <2>1. \A j \in 1..k : s[j].silent
    <3>1. CASE len <= MinAnalyses /\ SilentRun(s, 1, len) BY <3>1 DEF SilentRun
    <3>2. CASE len > MinAnalyses /\ SilentRun(s, 1, MinAnalyses) BY <1>1, <1>2, <3>2 DEF SilentRun
    <3>3. QED BY <3>1, <3>2 DEF Exact
  <2>2. SilentRun(t, 1, k) BY <2>1 DEF SilentRun
  <2>3. QED BY <1>2, <2>2 DEF Exact
<1>3. CASE k > MinAnalyses
  <2>1. /\ len > MinAnalyses /\ SilentRun(s, 1, MinAnalyses) /\ ~s[MinAnalyses + 1].silent
        /\ \A p \in MinAnalyses + 1..len + 1 - MinAnalyses : ~SilentRun(s, p, p + MinAnalyses - 1)
    BY <1>1, <1>3 DEF Exact
  <2>2. SilentRun(t, 1, MinAnalyses) BY <1>1, <1>3, <2>1 DEF SilentRun
  <2>3. ~t[MinAnalyses + 1].silent BY <1>1, <1>3, <2>1
  <2>4. ASSUME NEW p \in MinAnalyses + 1..k + 1 - MinAnalyses PROVE ~SilentRun(t, p, p + MinAnalyses - 1)
    <3>1. p \in MinAnalyses + 1..len + 1 - MinAnalyses BY <1>1
    <3>2. \A j \in p..p + MinAnalyses - 1 : j \in 1..k BY <1>1
    <3>3. QED BY <2>1, <3>1, <3>2 DEF SilentRun
  <2>5. QED BY <1>3, <2>2, <2>3, <2>4 DEF Exact
<1>4. QED BY <1>1, <1>2, <1>3

\* The counts of a scan, and what it has seen with one more analysis, as numbers.
LEMMA ScanCounts ==
  ASSUME NEW x \in Scans, Phase(x), Counted(x), NEW a \in Marks
  PROVE  LET s == x.seen
             t == Append(s, a)
             n == Len(s)
         IN  /\ n \in Nat /\ s \in Seq(Marks) /\ t \in Seq(Marks) /\ Len(t) = n + 1 /\ t[n + 1] = a
             /\ \A j \in 1..n : t[j] = s[j]
             /\ x.leading \in Nat /\ x.inBetween \in Nat /\ x.trailing \in Nat /\ x.leading <= MinAnalyses
             /\ MinAnalyses \in Nat /\ MinAnalyses >= 1 /\ a.silent \in BOOLEAN
             /\ x.inBetween = 0 => x.trailing = 0 /\ n = x.leading /\ \A j \in 1..n : s[j].silent
             /\ x.inBetween > 0 => /\ x.leading = MinAnalyses /\ x.trailing < MinAnalyses
                                   /\ n = MinAnalyses + x.inBetween + x.trailing
                                   /\ ~s[n - x.trailing].silent
                                   /\ \A j \in (n - x.trailing + 1)..n : s[j].silent
<1>1. x.seen \in Seq(Marks) /\ Len(x.seen) \in Nat BY DEF Scans
<1>2. /\ Append(x.seen, a) \in Seq(Marks) /\ Len(Append(x.seen, a)) = Len(x.seen) + 1
      /\ Append(x.seen, a)[Len(x.seen) + 1] = a /\ \A j \in 1..Len(x.seen) : Append(x.seen, a)[j] = x.seen[j]
  BY <1>1, AppendProperties
<1>3. x.leading \in Nat /\ x.inBetween \in Nat /\ x.trailing \in Nat /\ a.silent \in BOOLEAN BY DEF Scans, Marks
<1>4. QED BY <1>1, <1>2, <1>3, SilenceAssumption DEF Phase, Counted, SilentRun

\* The loop goes through what was kept exactly and removes nothing.
LEMMA ExactKept ==
  ASSUME NEW x \in Scans, Phase(x), Counted(x), NEW a \in Marks,
         Exact(Append(x.seen, a), Len(x.seen) + 1)
  PROVE  LET y == Scan(x, a)
         IN  y.seen = Append(x.seen, a) /\ y.valid = x.valid /\ Counted(y)
<1> DEFINE y == Scan(x, a)  s == x.seen  t == Append(s, a)  n == Len(s)
           l == x.leading  b == x.inBetween  tr == x.trailing
<1>1. /\ n \in Nat /\ s \in Seq(Marks) /\ t \in Seq(Marks) /\ Len(t) = n + 1 /\ t[n + 1] = a
      /\ \A j \in 1..n : t[j] = s[j]
      /\ l \in Nat /\ b \in Nat /\ tr \in Nat /\ l <= MinAnalyses
      /\ MinAnalyses \in Nat /\ MinAnalyses >= 1 /\ a.silent \in BOOLEAN
      /\ b = 0 => tr = 0 /\ n = l /\ \A j \in 1..n : s[j].silent
      /\ b > 0 => /\ l = MinAnalyses /\ tr < MinAnalyses
                  /\ n = MinAnalyses + b + tr
                  /\ ~s[n - tr].silent
                  /\ \A j \in (n - tr + 1)..n : s[j].silent
  BY ScanCounts
<1>2. /\ a.silent /\ b = 0 /\ l < MinAnalyses => y = ScanOf(t, l + 1, 0, tr, x.valid)
      /\ a.silent /\ b # 0 /\ tr + 1 < MinAnalyses => y = ScanOf(t, l, b, tr + 1, x.valid)
      /\ ~a.silent /\ s # <<>> /\ ~(b = 0 /\ l < MinAnalyses) => y = ScanOf(t, l, b + tr + 1, 0, x.valid)
  BY ScanTurns
<1>3. \/ n + 1 <= MinAnalyses /\ \A j \in 1..n + 1 : t[j].silent
      \/ /\ n + 1 > MinAnalyses /\ ~t[MinAnalyses + 1].silent
         /\ \A p \in MinAnalyses + 1..n + 2 - MinAnalyses : ~SilentRun(t, p, p + MinAnalyses - 1)
  <2>1. n + 1 + 1 - MinAnalyses = n + 2 - MinAnalyses BY <1>1
  <2>2. QED BY <2>1 DEF Exact, SilentRun
<1>4. s = <<>> => n = 0 BY <1>1
<1> HIDE DEF y, s, t, n, l, b, tr
<1>5. CASE a.silent /\ b = 0
  <2>1. l < MinAnalyses
    <3> SUFFICES ASSUME ~(l < MinAnalyses) PROVE FALSE OBVIOUS
    <3>1. n = MinAnalyses /\ n + 1 > MinAnalyses BY <1>1, <1>5
    <3>2. ~t[n + 1].silent BY <1>1, <1>3, <3>1
    <3>3. QED BY <1>1, <1>5, <3>2
  <2>2. y = ScanOf(t, n + 1, 0, 0, x.valid) BY <1>1, <1>2, <1>5, <2>1
  <2>3. QED BY <1>1, <2>2 DEF ScanOf, Counted, y, t, s
<1>6. CASE a.silent /\ b # 0
  <2>0. b > 0 BY <1>1, <1>6
  <2>1. tr + 1 < MinAnalyses
    <3> SUFFICES ASSUME ~(tr + 1 < MinAnalyses) PROVE FALSE OBVIOUS
    <3>1. tr + 1 = MinAnalyses /\ n = MinAnalyses + b + tr BY <1>1, <2>0
    <3>2. n + 1 > MinAnalyses /\ n + 2 - MinAnalyses \in MinAnalyses + 1..n + 2 - MinAnalyses
          /\ (n + 2 - MinAnalyses) + MinAnalyses - 1 = n + 1 /\ n + 2 - MinAnalyses = n - tr + 1
      BY <1>1, <2>0, <3>1
    <3>3. ~SilentRun(t, n + 2 - MinAnalyses, (n + 2 - MinAnalyses) + MinAnalyses - 1) BY <1>1, <1>3, <3>2
    <3>3a. ~SilentRun(t, n - tr + 1, n + 1) BY <3>2, <3>3
    <3>4. ASSUME NEW j \in n - tr + 1..n + 1 PROVE t[j].silent
      <4>1. j = n + 1 \/ (j \in n - tr + 1..n /\ j \in 1..n) BY <1>1, <3>1
      <4>2. QED BY <1>1, <1>6, <2>0, <4>1
    <3>5. QED BY <3>3a, <3>4 DEF SilentRun
  <2>2. y = ScanOf(t, l, b, tr + 1, x.valid) BY <1>1, <1>2, <1>6, <2>1
  <2>3. n + 1 = MinAnalyses + b + (tr + 1) BY <1>1, <2>0
  <2>4. Len(t) = MinAnalyses + b + (tr + 1) /\ b # 0 BY <1>1, <2>0, <2>3
  <2>5. QED BY ONLY <2>0, <2>2, <2>4 DEF ScanOf, Counted, y, t, s
<1>7. CASE ~a.silent
  <2>1. n + 1 > MinAnalyses
    <3>1. n + 1 \in 1..n + 1 BY <1>1
    <3>2. QED BY <1>1, <1>3, <1>7, <3>1
  <2>2. n > 0 /\ s # <<>> BY <1>1, <1>4, <2>1
  <2>3. ~(b = 0 /\ l < MinAnalyses) BY <1>1, <2>1
  <2>4. y = ScanOf(t, l, b + tr + 1, 0, x.valid) BY <1>2, <1>7, <2>2, <2>3
  <2>5. n + 1 = MinAnalyses + (b + tr + 1) + 0 /\ b + tr + 1 > 0 /\ b + tr + 1 # 0 BY <1>1, <2>1, <2>3
  <2>6. QED BY <1>1, <2>4, <2>5 DEF ScanOf, Counted, y, t, s
<1>8. QED BY <1>1, <1>5, <1>6, <1>7

\* From what was kept exactly, one more analysis keeps it exact, and what it returns begins
\* with a silence that counts.
LEMMA ExactTurn ==
  ASSUME NEW x \in Scans, Phase(x), Counted(x), NEW a \in Marks, Exact(x.seen, Len(x.seen))
  PROVE  LET y == Scan(x, a)
         IN  /\ Exact(y.seen, Len(y.seen))
             /\ y.valid = x.valid \/ (y.valid = Append(x.valid, Append(x.seen, a)) /\ Leads(Append(x.seen, a)))
<1> DEFINE y == Scan(x, a)  s == x.seen  t == Append(s, a)  n == Len(s)
           l == x.leading  b == x.inBetween  tr == x.trailing
<1>1. /\ n \in Nat /\ s \in Seq(Marks) /\ t \in Seq(Marks) /\ Len(t) = n + 1 /\ t[n + 1] = a
      /\ \A j \in 1..n : t[j] = s[j]
      /\ l \in Nat /\ b \in Nat /\ tr \in Nat /\ l <= MinAnalyses
      /\ MinAnalyses \in Nat /\ MinAnalyses >= 1 /\ a.silent \in BOOLEAN
      /\ b = 0 => tr = 0 /\ n = l /\ \A j \in 1..n : s[j].silent
      /\ b > 0 => /\ l = MinAnalyses /\ tr < MinAnalyses
                  /\ n = MinAnalyses + b + tr
                  /\ ~s[n - tr].silent
                  /\ \A j \in (n - tr + 1)..n : s[j].silent
  BY ScanCounts
<1>2. /\ a.silent /\ b = 0 /\ l < MinAnalyses => y = ScanOf(t, l + 1, 0, tr, x.valid)
      /\ a.silent /\ b = 0 /\ ~(l < MinAnalyses) => y = ScanOf(From(t, l + 2 - MinAnalyses), l, 0, tr, x.valid)
      /\ a.silent /\ b # 0 /\ tr + 1 < MinAnalyses => y = ScanOf(t, l, b, tr + 1, x.valid)
      /\ a.silent /\ b # 0 /\ ~(tr + 1 < MinAnalyses) =>
           y = ScanOf(From(t, l + b + 1), MinAnalyses, 0, 0, Append(x.valid, t))
      /\ ~a.silent /\ s = <<>> => y = x
      /\ ~a.silent /\ s # <<>> /\ b = 0 /\ l < MinAnalyses => y = ScanOf(<<>>, l, 0, tr, x.valid)
      /\ ~a.silent /\ s # <<>> /\ ~(b = 0 /\ l < MinAnalyses) => y = ScanOf(t, l, b + tr + 1, 0, x.valid)
  BY ScanTurns
<1>4. s # <<>> => n > 0 BY <1>1
<1>0. Exact(s, n) OBVIOUS
<1> HIDE DEF y, s, t, n, l, b, tr
<1>3. b > 0 => /\ n > MinAnalyses /\ \A j \in 1..MinAnalyses : s[j].silent
               /\ ~s[MinAnalyses + 1].silent
               /\ \A p \in MinAnalyses + 1..n + 1 - MinAnalyses : ~SilentRun(s, p, p + MinAnalyses - 1)
  <2> SUFFICES ASSUME b > 0
               PROVE  /\ n > MinAnalyses /\ \A j \in 1..MinAnalyses : s[j].silent
                      /\ ~s[MinAnalyses + 1].silent
                      /\ \A p \in MinAnalyses + 1..n + 1 - MinAnalyses : ~SilentRun(s, p, p + MinAnalyses - 1)
    OBVIOUS
  <2>1. n > MinAnalyses /\ ~(n <= MinAnalyses) BY <1>1
  <2>2. SilentRun(s, 1, MinAnalyses) => \A j \in 1..MinAnalyses : s[j].silent BY DEF SilentRun
  <2>3. QED BY ONLY <1>0, <2>1, <2>2 DEF Exact
\* The silences of t that s has not: the one that ends with a.
<1>5. ASSUME b > 0, \E j \in n + 2 - MinAnalyses..n + 1 : ~t[j].silent PROVE Exact(t, n + 1)
  <2>1. \A j \in 1..MinAnalyses : t[j].silent
    <3>1. n \in Nat /\ MinAnalyses \in Nat /\ \A j \in 1..n : t[j] = s[j] BY ONLY <1>1
    <3>2. n > MinAnalyses /\ \A j \in 1..MinAnalyses : s[j].silent BY ONLY <1>3, <1>5
    <3>3. \A j \in 1..MinAnalyses : j \in 1..n BY ONLY <3>1, <3>2
    <3>4. QED BY ONLY <3>1, <3>2, <3>3
  <2>2. ~t[MinAnalyses + 1].silent /\ n > MinAnalyses BY <1>1, <1>3, <1>5
  <2>3. ASSUME NEW p \in MinAnalyses + 1..(n + 1) + 1 - MinAnalyses PROVE ~SilentRun(t, p, p + MinAnalyses - 1)
    <3>1. CASE p = n + 2 - MinAnalyses
      <4>1. p + MinAnalyses - 1 = n + 1 BY <1>1, <3>1
      <4>2. QED BY <1>5, <3>1, <4>1 DEF SilentRun
    <3>2. CASE p # n + 2 - MinAnalyses
      <4>1. p \in MinAnalyses + 1..n + 1 - MinAnalyses BY <1>1, <3>2
      <4>2. ~SilentRun(s, p, p + MinAnalyses - 1) BY <1>3, <1>5, <4>1
      <4>3. \A j \in p..p + MinAnalyses - 1 : j \in 1..n BY <1>1, <4>1
      <4>4. QED BY <1>1, <4>2, <4>3 DEF SilentRun
    <3>3. QED BY <3>1, <3>2
  <2>4. n + 1 > MinAnalyses BY <1>1, <2>2
  <2>5. SilentRun(t, 1, MinAnalyses) BY <2>1 DEF SilentRun
  <2>6. QED BY <2>2, <2>3, <2>4, <2>5 DEF Exact
<1>6. CASE a.silent /\ b = 0 /\ l < MinAnalyses
  <2>1. y.seen = t /\ y.valid = x.valid BY <1>2, <1>6 DEF ScanOf
  <2>2. n + 1 <= MinAnalyses BY <1>1, <1>6
  <2>3. \A j \in 1..n + 1 : t[j].silent
    <3>1. \A j \in 1..n + 1 : j \in 1..n \/ j = n + 1 BY <1>1
    <3>2. QED BY <1>1, <1>6, <3>1
  <2>4. QED BY <1>1, <2>1, <2>2, <2>3 DEF Exact, SilentRun, y
<1>7. CASE a.silent /\ b = 0 /\ ~(l < MinAnalyses)
  <2>1. l + 2 - MinAnalyses = 2 /\ 2 \in 1..Len(t) + 1 /\ n = MinAnalyses BY <1>1, <1>7
  <2>2. Len(From(t, 2)) = n /\ \A j \in 1..n : From(t, 2)[j] = t[j + 1]
    <3>1. /\ Len(From(t, 2)) = Len(t) + 1 - 2
          /\ \A j \in 1..(Len(t) + 1 - 2) : From(t, 2)[j] = t[2 + j - 1]
      <4>1. t \in Seq(Marks) /\ 2 \in 1..Len(t) + 1 BY <1>1, <2>1
      <4>2. QED BY ONLY <4>1, FromRest
    <3>2. Len(t) + 1 - 2 = n /\ \A j \in 1..n : 2 + j - 1 = j + 1
      <4>1. n \in Nat /\ Len(t) = n + 1 BY <1>1
      <4>2. QED BY ONLY <4>1
    <3>3. QED BY ONLY <3>1, <3>2
  <2>3. y.seen = From(t, 2) /\ y.valid = x.valid BY <1>2, <1>7, <2>1 DEF ScanOf
  <2>4. \A j \in 1..n : From(t, 2)[j].silent
    <3> TAKE j \in 1..n
    <3>1. CASE j + 1 \in 1..n BY <1>1, <1>7, <2>2, <3>1
    <3>2. CASE j + 1 = n + 1 BY <1>1, <1>7, <2>2, <3>2
    <3>3. QED BY <1>1, <3>1, <3>2
  <2>5. QED BY <1>1, <2>1, <2>2, <2>3, <2>4 DEF Exact, SilentRun, y
<1>8. CASE a.silent /\ b # 0 /\ tr + 1 < MinAnalyses
  <2>1. y.seen = t /\ y.valid = x.valid BY <1>2, <1>8 DEF ScanOf
  <2>2. b > 0 /\ n - tr \in 1..n /\ n - tr \in n + 2 - MinAnalyses..n + 1 BY <1>1, <1>8
  <2>3. ~t[n - tr].silent BY <1>1, <2>2
  <2>4. Exact(t, n + 1) BY <1>5, <2>2, <2>3
  <2>5. QED BY <1>1, <2>1, <2>4 DEF y
<1>9. CASE a.silent /\ b # 0 /\ ~(tr + 1 < MinAnalyses)
  <2>1. b > 0 /\ tr + 1 = MinAnalyses /\ l = MinAnalyses /\ n = MinAnalyses + b + tr BY <1>1, <1>9
  <2> DEFINE k == l + b + 1
  <2>2. k \in 1..Len(t) + 1 /\ Len(t) + 1 - k = MinAnalyses /\ k \in Nat /\ k = n - tr + 1 BY <1>1, <2>1
  <2>3. y.seen = From(t, k) /\ y.valid = Append(x.valid, t) BY <1>2, <1>9 DEF ScanOf
  <2> HIDE DEF k
  <2>4. Len(From(t, k)) = MinAnalyses /\ \A j \in 1..MinAnalyses : From(t, k)[j] = t[k + j - 1]
    <3>1. /\ Len(From(t, k)) = Len(t) + 1 - k
          /\ \A j \in 1..(Len(t) + 1 - k) : From(t, k)[j] = t[k + j - 1]
      <4>1. t \in Seq(Marks) /\ k \in 1..Len(t) + 1 BY <1>1, <2>2
      <4>2. QED BY ONLY <4>1, FromRest
    <3>2. QED BY <2>2, <3>1
  <2>5. ASSUME NEW j \in 1..MinAnalyses PROVE From(t, k)[j].silent
    <3>1. k + j - 1 = n + 1 \/ (k + j - 1 \in 1..n /\ k + j - 1 \in n - tr + 1..n)
      <4>1. n \in Nat /\ tr \in Nat /\ b \in Nat /\ MinAnalyses \in Nat BY <1>1
      <4>2. QED BY ONLY <2>1, <2>2, <4>1, j \in 1..MinAnalyses
    <3>2. QED BY <1>1, <1>9, <2>1, <2>4, <3>1
  <2>6. Exact(y.seen, Len(y.seen)) BY <1>1, <2>3, <2>4, <2>5 DEF Exact, SilentRun
  <2>7. Leads(t)
    <3>1. Len(t) > 2 * MinAnalyses
      <4>1. Len(t) = n + 1 /\ b \in Nat /\ n \in Nat /\ tr \in Nat /\ MinAnalyses \in Nat BY <1>1
      <4>2. QED BY ONLY <4>1, <2>1
    <3>2. SilentRun(t, 1, MinAnalyses) BY <1>1, <1>3, <2>1 DEF SilentRun
    <3>3. ~t[MinAnalyses + 1].silent BY <1>1, <1>3, <2>1
    <3>4. QED BY <3>1, <3>2, <3>3 DEF Leads
  <2>8. QED BY <2>3, <2>6, <2>7 DEF y, t, s
<1>10. CASE ~a.silent /\ s = <<>>
  <2>1. y = x BY <1>2, <1>10
  <2>2. QED BY <1>0, <2>1 DEF y, n, s
<1>11. CASE ~a.silent /\ s # <<>> /\ b = 0 /\ l < MinAnalyses
  <2>1. y.seen = <<>> /\ y.valid = x.valid BY <1>2, <1>11 DEF ScanOf
  <2>2. Len(y.seen) = 0 BY <2>1
  <2>3. Exact(y.seen, 0) BY <1>1 DEF Exact, SilentRun
  <2>4. QED BY <2>1, <2>2, <2>3 DEF y
<1>12. CASE ~a.silent /\ s # <<>> /\ ~(b = 0 /\ l < MinAnalyses)
  <2>1. y.seen = t /\ y.valid = x.valid BY <1>2, <1>12 DEF ScanOf
  <2>2. Exact(t, n + 1)
    <3>1. CASE b > 0
      <4>1. n + 1 \in n + 2 - MinAnalyses..n + 1 BY <1>1
      <4>2. QED BY <1>1, <1>5, <1>12, <3>1, <4>1
    <3>2. CASE b = 0
      <4>1. n = MinAnalyses BY <1>1, <1>12, <3>2
      <4>2. SilentRun(t, 1, MinAnalyses) BY <1>1, <3>2, <4>1 DEF SilentRun
      <4>3. ~t[MinAnalyses + 1].silent BY <1>1, <1>12, <4>1
      <4>4. ASSUME NEW p \in MinAnalyses + 1..(n + 1) + 1 - MinAnalyses PROVE ~SilentRun(t, p, p + MinAnalyses - 1)
        <5>1. p = MinAnalyses + 1 /\ p \in p..p + MinAnalyses - 1 BY <1>1, <4>1
        <5>2. QED BY <4>3, <5>1 DEF SilentRun
      <4>5. n + 1 > MinAnalyses BY <1>1, <4>1
      <4>6. QED BY <4>2, <4>3, <4>4, <4>5 DEF Exact
    <3>3. QED BY <1>1, <3>1, <3>2
  <2>3. QED BY <1>1, <2>1, <2>2 DEF y
<1>13. QED BY <1>1, <1>6, <1>7, <1>8, <1>9, <1>10, <1>11, <1>12

\* g holds the states of the loop over s.
Looped(g, s) == g[0] = NewScan /\ \A i \in 1..Len(s) : g[i] = Scan(g[i - 1], s[i])

\* Every turn of the loop, over analyses that follow those before.
LEMMA LoopScans ==
  ASSUME NEW s \in Seq(Marks), NEW top \in Int, Numbered(s, top + Len(s)),
         NEW v, Returned(v, top, 0), NEW g, Looped(g, s)
  PROVE  \A i \in 0..Len(s) : Scanning(g[i], top + i, v)
<1> DEFINE T == {i \in 0..Len(s) : Scanning(g[i], top + i, v)}
<1>0. Len(s) \in Nat /\ v \in Seq(Seq(Marks)) BY DEF Returned
<1>1. 0 \in T
  <2> DEFINE x == NewScan
  <2>1. <<>> \in Seq(Marks) /\ <<>> \in Seq(Seq(Marks)) /\ Len(<<>>) = 0 BY EmptySeq
  <2>2. x.seen = <<>> /\ x.leading = 0 /\ x.inBetween = 0 /\ x.trailing = 0 /\ x.valid = <<>> BY DEF NewScan
  <2>3. x \in Scans BY <2>1 DEF NewScan, Scans
  <2> HIDE DEF x
  <2>4. Phase(x) BY <2>1, <2>2, SilenceAssumption DEF Phase, SilentRun
  <2>5. Numbered(x.seen, top + 0) BY <2>1, <2>2 DEF Numbered
  <2>6. v \o x.valid = v BY <1>0, <2>2, ConcatEmptySeq
  <2>7. Returned(v \o x.valid, top + 0, Len(x.seen))
    <3>1. top + 0 = top BY top \in Int
    <3>2. QED BY <2>1, <2>2, <2>6, <3>1
  <2>8. Scanning(x, top + 0, v) BY <2>3, <2>4, <2>5, <2>7 DEF Scanning
  <2>9. 0 \in 0..Len(s) BY <1>0
  <2>10. QED BY <2>8, <2>9 DEF Looped, x
<1>2. ASSUME NEW i \in 0..Len(s), i < Len(s), i \in T PROVE i + 1 \in T
  <2>1. i + 1 \in 1..Len(s) /\ i + 1 \in 0..Len(s) /\ (i + 1) - 1 = i /\ top + i \in Int
        /\ top + (i + 1) = (top + i) + 1
    BY <1>0, <1>2
  <2>2. s[i + 1] \in Marks BY <2>1, ElementOfSeq
  <2>3. s[i + 1].n = (top + i) + 1
    <3>1. s[i + 1].n = top + Len(s) - Len(s) + (i + 1) BY <2>1 DEF Numbered
    <3>2. QED BY <1>0, <2>1, <3>1
  <2>4. Scanning(g[i], top + i, v) BY <1>2
  <2>5. g[i + 1] = Scan(g[i], s[i + 1]) BY <2>1 DEF Looped
  <2>6. Scanning(Scan(g[i], s[i + 1]), (top + i) + 1, v) BY ONLY <1>0, <2>1, <2>2, <2>3, <2>4, ScanKeeps
  <2>7. QED BY <2>1, <2>5, <2>6
<1> HIDE DEF T
<1>3. \A i \in 0..Len(s) : i \in T BY <1>0, <1>1, <1>2, UpTo
<1>4. QED BY <1>3 DEF T

\* The loop over what was kept exactly, and one analysis more at most.
LEMMA LoopExact ==
  ASSUME NEW s \in Seq(Marks), NEW len \in Nat, len <= Len(s), Len(s) <= len + 1, Exact(s, len),
         NEW g, Looped(g, s), \A i \in 0..Len(s) : g[i] \in Scans /\ Phase(g[i])
  PROVE  /\ Exact(g[Len(s)].seen, Len(g[Len(s)].seen))
         /\ \A i \in 1..Len(g[Len(s)].valid) : Leads(g[Len(s)].valid[i])
<1> DEFINE Same(x, i) == Len(x.seen) = i /\ (\A j \in 1..i : x.seen[j] = s[j]) /\ Counted(x) /\ x.valid = <<>>
           T == {i \in 0..len : Same(g[i], i)}
<1>0. Len(s) \in Nat OBVIOUS
<1>1. 0 \in T
  <2>1. Same(NewScan, 0) BY DEF NewScan, Counted
  <2>2. 0 \in 0..len OBVIOUS
  <2>3. QED BY <2>1, <2>2 DEF Looped
<1>2. ASSUME NEW i \in 0..len, i < len, i \in T PROVE i + 1 \in T
  <2>1. i + 1 \in 1..Len(s) /\ i + 1 \in 0..len /\ (i + 1) - 1 = i /\ i \in 0..Len(s) /\ i \in Nat
    BY <1>0, <1>2
  <2> DEFINE x == g[i]  a == s[i + 1]  t == Append(x.seen, a)
  <2>2. a \in Marks BY <2>1, ElementOfSeq
  <2>3. x \in Scans /\ Phase(x) /\ Same(x, i) BY <1>2, <2>1
  <2>4. x.seen \in Seq(Marks) BY <2>3 DEF Scans
  <2>5. Len(t) = i + 1 /\ \A j \in 1..i + 1 : t[j] = s[j]
    <3>1. Len(t) = Len(x.seen) + 1 /\ t[Len(x.seen) + 1] = a /\ \A j \in 1..Len(x.seen) : t[j] = x.seen[j]
      BY <2>2, <2>4, AppendProperties
    <3>2. \A j \in 1..i + 1 : j \in 1..i \/ j = i + 1 BY <2>1
    <3>3. QED BY <2>3, <3>1, <3>2
  <2>6. g[i + 1] = Scan(x, a) BY <2>1 DEF Looped
  <2> HIDE DEF x, a
  <2>7. Exact(t, Len(x.seen) + 1)
    <3>1. Exact(t, i + 1) BY <2>1, <2>5, ExactPrefix
    <3>2. QED BY <2>3, <3>1
  <2>8. Scan(x, a).seen = t /\ Scan(x, a).valid = x.valid /\ Counted(Scan(x, a))
    BY <2>2, <2>3, <2>7, ExactKept
  <2>9. Same(g[i + 1], i + 1) BY <2>3, <2>5, <2>6, <2>8
  <2>10. QED BY <2>1, <2>9
<1> HIDE DEF T
<1>3. len \in T
  <2>1. \A i \in 0..len : i \in T BY <1>1, <1>2, UpTo
  <2>2. QED BY <2>1
<1> DEFINE x == g[len]
<1>4. Same(x, len) /\ x \in Scans /\ Phase(x)
  <2>1. len \in 0..Len(s) BY <1>0
  <2>2. QED BY <1>3, <2>1 DEF T
<1> HIDE DEF x
<1>5. Exact(x.seen, Len(x.seen))
  <2>1. len \in 0..len /\ Exact(s, len) OBVIOUS
  <2>2. Exact(x.seen, len) BY <1>4, <2>1, ExactPrefix
  <2>3. QED BY <1>4, <2>2
<1>6. CASE Len(s) = len
  <2>1. g[Len(s)] = x BY <1>6 DEF x
  <2>2. Len(x.valid) = 0 BY <1>4
  <2>3. QED BY <1>5, <2>1, <2>2
<1>7. CASE Len(s) = len + 1
  <2> DEFINE a == s[len + 1]  t == Append(x.seen, a)
  <2>1. len + 1 \in 1..Len(s) /\ (len + 1) - 1 = len BY <1>7
  <2>2. a \in Marks BY <2>1, ElementOfSeq
  <2>3. g[Len(s)] = Scan(x, a) BY <1>7, <2>1 DEF Looped, x
  <2> HIDE DEF a
  <2>4. /\ Exact(Scan(x, a).seen, Len(Scan(x, a).seen))
        /\ (Scan(x, a).valid = x.valid \/ (Scan(x, a).valid = Append(x.valid, t) /\ Leads(t)))
    BY <1>4, <1>5, <2>2, ExactTurn
  <2>5. Append(<<>>, t) = <<t>> OBVIOUS
  <2>6. \A i \in 1..Len(Scan(x, a).valid) : Leads(Scan(x, a).valid[i])
    <3>1. CASE Scan(x, a).valid = <<>> BY <3>1
    <3>2. CASE Scan(x, a).valid = <<t>> /\ Leads(t)
      <4> DEFINE w == Scan(x, a).valid
      <4>1. w = <<t>> /\ Leads(t) BY <3>2
      <4> HIDE DEF w, t
      <4>2. Len(w) = 1 /\ w[1] = t BY <4>1
      <4>3. \A i \in 1..Len(w) : Leads(w[i]) BY <4>1, <4>2
      <4>4. QED BY <4>3 DEF w
    <3>3. QED BY <1>4, <2>4, <2>5, <3>1, <3>2
  <2>7. QED BY <2>3, <2>4, <2>6
<1>8. QED BY <1>0, <1>6, <1>7

-----------------------------------------------------------------------------
\* What holds between two calls of the detector.
SilenceInv ==
  /\ buf \in Seq(BOOLEAN) /\ analyses \in Seq(Marks) /\ analysed \in Nat /\ oneByOne \in BOOLEAN
  /\ Numbered(analyses, analysed)
  /\ Returned(valid, analysed, Len(analyses))
  /\ oneByOne => Exact(analyses, Len(analyses)) /\ \A i \in 1..Len(valid) : Leads(valid[i])

\* The whole steps of a buffer are analysed, in their order, and what is left is a buffer.
LEMMA WholeSteps ==
  ASSUME NEW b \in Seq(BOOLEAN), analysed \in Nat
  PROVE  LET q == Len(b) \div SamplesPerAnalysis
         IN  /\ q \in Nat /\ Analysed(b) \in Seq(Marks) /\ Len(Analysed(b)) = q
             /\ \A j \in 1..q : Analysed(b)[j].n = analysed + j
             /\ From(b, q * SamplesPerAnalysis + 1) \in Seq(BOOLEAN)
<1> DEFINE P == SamplesPerAnalysis  len == Len(b)  q == len \div P
<1>1. P \in Nat /\ P > 0 /\ len \in Nat BY SilenceAssumption
<1> HIDE DEF P, len
<1>2. q \in Nat /\ q * P <= len
  <2>1. q \in Int /\ len - P * q = len % P /\ len % P >= 0 BY <1>1, Z3
  <2>2. q \in Nat BY <1>1, Z3
  <2> HIDE DEF q
  <2>3. q * P = P * q BY <1>1, <2>1, Z3
  <2>4. P * q \in Int BY <1>1, <2>1, Z3
  <2> DEFINE z == P * q  r == len % P
  <2>5. z \in Int /\ len - z = r /\ r >= 0 /\ q * P = z BY <2>1, <2>3, <2>4
  <2>6. r \in Int BY <1>1
  <2> HIDE DEF z, r
  <2>7. z <= len BY <1>1, <2>5, <2>6
  <2>8. QED BY <2>2, <2>5, <2>7 DEF q
<1> DEFINE mark == [n \in 1..q |-> [n |-> analysed + n, silent |-> Silent(StepOf(b, n))]]
<1>3. Analysed(b) = mark BY DEF Analysed, q, len, P
<1> HIDE DEF q
<1>4. \A n \in 1..q : mark[n] \in Marks /\ mark[n].n = analysed + n
  <2> TAKE n \in 1..q
  <2>1. mark[n] = [n |-> analysed + n, silent |-> Silent(StepOf(b, n))] OBVIOUS
  <2>2. analysed + n \in Nat BY <1>2
  <2>3. Silent(StepOf(b, n)) \in BOOLEAN BY DEF Silent
  <2>4. QED BY <2>1, <2>2, <2>3 DEF Marks
<1>5. mark \in Seq(Marks) /\ Len(mark) = q
  <2>1. mark \in [1..q -> Marks] BY <1>4
  <2> HIDE DEF mark
  <2>2. QED BY <1>2, <2>1
<1>6. From(b, q * P + 1) \in Seq(BOOLEAN)
  <2>1. q * P \in Nat BY <1>1, <1>2, Z3
  <2> DEFINE z == q * P
  <2>2. z \in Nat /\ z <= len BY <1>2, <2>1
  <2> HIDE DEF z
  <2>3. z + 1 \in 1..Len(b) + 1 BY <1>1, <2>2 DEF len
  <2>4. From(b, z + 1) \in Seq(BOOLEAN) BY <2>3, FromRest
  <2>5. QED BY <2>4 DEF z
<1>7. QED BY <1>2, <1>3, <1>4, <1>5, <1>6 DEF q, len, P

\* At first nothing was analysed.
LEMMA SilenceStarts == SilenceInit => SilenceInv
<1> SUFFICES ASSUME SilenceInit PROVE SilenceInv OBVIOUS
<1>1. <<>> \in Seq(BOOLEAN) /\ <<>> \in Seq(Marks) /\ <<>> \in Seq(Seq(Marks)) /\ Len(<<>>) = 0 BY EmptySeq
<1>2. Returned(<<>>, 0, 0) BY <1>1 DEF Returned
<1>3. Numbered(<<>>, 0) BY <1>1 DEF Numbered
<1>4. Exact(<<>>, 0) BY SilenceAssumption DEF Exact, SilentRun
<1>5. QED BY <1>1, <1>2, <1>3, <1>4 DEF SilenceInit, SilenceInv

\* An Add keeps it: the loop goes on from what was kept with what is new.
LEMMA SilenceAddKeeps ==
  ASSUME SilenceInv, NEW samples \in Chunks, SilenceAdd(samples)
  PROVE  SilenceInv'
<1> DEFINE b == buf \o samples  new == Analysed(b)  s == analyses \o new  x == Scanned(s)
           len == Len(analyses)  q == Len(new)  top == analysed - len
<1>0. /\ buf \in Seq(BOOLEAN) /\ analyses \in Seq(Marks) /\ analysed \in Nat /\ oneByOne \in BOOLEAN
      /\ Numbered(analyses, analysed)
      /\ Returned(valid, analysed, len)
      /\ oneByOne => Exact(analyses, len) /\ \A i \in 1..Len(valid) : Leads(valid[i])
  BY DEF SilenceInv
<1>1. /\ buf' = From(b, q * SamplesPerAnalysis + 1) /\ analyses' = x.seen /\ analysed' = analysed + q
      /\ valid' = valid \o x.valid /\ oneByOne' = (oneByOne /\ q <= 1)
  BY DEF SilenceAdd
<1>2. samples \in Seq(BOOLEAN)
  <2>1. PICK n \in 1..MaxChunk : samples \in [1..n -> BOOLEAN] BY DEF Chunks
  <2>2. n \in Nat BY SilenceAssumption
  <2>3. QED BY <2>1, <2>2
<1>3. b \in Seq(BOOLEAN) BY <1>0, <1>2, ConcatProperties
<1> HIDE DEF b
<1>4. /\ new \in Seq(Marks) /\ q \in Nat /\ q = Len(b) \div SamplesPerAnalysis
      /\ \A j \in 1..q : new[j].n = analysed + j
      /\ From(b, q * SamplesPerAnalysis + 1) \in Seq(BOOLEAN)
  BY <1>0, <1>3, WholeSteps
<1> HIDE DEF new
<1>5. /\ s \in Seq(Marks) /\ Len(s) = len + q /\ len \in Nat
      /\ \A j \in 1..len + q : s[j] = IF j <= len THEN analyses[j] ELSE new[j - len]
  <2>1. analyses \in Seq(Marks) /\ new \in Seq(Marks) BY <1>0, <1>4
  <2>2. QED BY ONLY <2>1, ConcatProperties
<1>6. top \in Int /\ top + Len(s) = analysed + q /\ analysed = top + len BY <1>0, <1>4, <1>5
<1> HIDE DEF s, len, q, top
<1>7. Numbered(s, top + Len(s))
  <2>1. ASSUME NEW j \in 1..Len(s) PROVE s[j].n = (top + Len(s)) - Len(s) + j
    <3>1. CASE j <= len
      <4>1. j \in 1..len /\ s[j] = analyses[j] BY <1>5, <3>1
      <4>2. analyses[j].n = analysed - len + j BY <1>0, <4>1 DEF Numbered, len
      <4>3. analysed - len + j = (top + Len(s)) - Len(s) + j
        <5>1. analysed \in Nat /\ len \in Nat /\ q \in Nat /\ j \in Int /\ Len(s) = len + q BY <1>0, <1>4, <1>5
        <5>2. QED BY ONLY <1>6, <5>1
      <4>4. QED BY <4>1, <4>2, <4>3
    <3>2. CASE ~(j <= len)
      <4>1. j - len \in 1..q /\ s[j] = new[j - len] BY <1>4, <1>5, <3>2
      <4>2. new[j - len].n = analysed + (j - len) BY <1>4, <4>1
      <4>3. analysed + (j - len) = (top + Len(s)) - Len(s) + j
        <5>1. analysed \in Nat /\ len \in Nat /\ q \in Nat /\ j \in Int /\ Len(s) = len + q BY <1>0, <1>4, <1>5
        <5>2. QED BY ONLY <1>6, <5>1
      <4>4. QED BY <4>1, <4>2, <4>3
    <3>3. QED BY <3>1, <3>2
  <2>2. QED BY <2>1 DEF Numbered
<1>8. Returned(valid, top, 0)
  <2>1. ASSUME Len(valid) > 0 PROVE valid[Len(valid)][Len(valid[Len(valid)])].n + 0 <= top + MinAnalyses
    <3> DEFINE end == valid[Len(valid)][Len(valid[Len(valid)])].n
    <3>1. end \in Nat BY <1>0, <2>1, LastRun
    <3>2. end + len <= analysed + MinAnalyses BY <1>0, <2>1 DEF Returned
    <3> HIDE DEF end
    <3>3. end + 0 <= top + MinAnalyses BY <1>0, <1>5, <1>6, <3>1, <3>2, SilenceAssumption
    <3>4. QED BY <3>3 DEF end
  <2>2. QED BY <1>0, <2>1 DEF Returned
<1>9. PICK g : x = g[Len(s)] /\ Looped(g, s)
  <2>1. Len(s) \in Nat BY <1>5
  <2>2. QED BY <2>1, LoopOf DEF Looped
<1> HIDE DEF x
<1>10. \A i \in 0..Len(s) : Scanning(g[i], top + i, valid) BY <1>5, <1>6, <1>7, <1>8, <1>9, LoopScans
<1>11. /\ x \in Scans /\ Numbered(x.seen, analysed + q)
       /\ Returned(valid \o x.valid, analysed + q, Len(x.seen))
  <2>1. Len(s) \in 0..Len(s) BY <1>5
  <2>2. Scanning(x, analysed + q, valid) BY <1>6, <1>9, <1>10, <2>1
  <2>3. QED BY <2>2 DEF Scanning
<1>12. ASSUME oneByOne, q <= 1
       PROVE  Exact(x.seen, Len(x.seen)) /\ \A i \in 1..Len(valid \o x.valid) : Leads((valid \o x.valid)[i])
  <2>1. len <= Len(s) /\ Len(s) <= len + 1 BY <1>4, <1>5, <1>12
  <2>2. Exact(s, len)
    <3>1. len \in 0..len /\ \A j \in 1..len : s[j] = analyses[j] BY <1>4, <1>5
    <3>2. QED BY <1>0, <1>5, <1>12, <3>1, ExactPrefix
  <2>3. \A i \in 0..Len(s) : g[i] \in Scans /\ Phase(g[i]) BY <1>10 DEF Scanning
  <2>4. Exact(x.seen, Len(x.seen)) /\ \A i \in 1..Len(x.valid) : Leads(x.valid[i])
    BY <1>5, <1>9, <2>1, <2>2, <2>3, LoopExact
  <2>5. valid \in Seq(Seq(Marks)) /\ x.valid \in Seq(Seq(Marks)) BY <1>0, <1>11 DEF Returned, Scans
  <2> DEFINE w == valid  u == x.valid
  <2> HIDE DEF w, u
  <2>6. w \in Seq(Seq(Marks)) /\ u \in Seq(Seq(Marks)) /\ (\A i \in 1..Len(w) : Leads(w[i]))
        /\ \A i \in 1..Len(u) : Leads(u[i])
    BY <1>0, <1>12, <2>4, <2>5 DEF w, u
  <2>7. Len(w) \in Nat /\ Len(u) \in Nat /\ Len(w \o u) = Len(w) + Len(u)
        /\ \A i \in 1..Len(w) + Len(u) : (w \o u)[i] = IF i <= Len(w) THEN w[i] ELSE u[i - Len(w)]
    BY ONLY <2>6, ConcatProperties
  <2>8. ASSUME NEW i \in 1..Len(w \o u) PROVE Leads((w \o u)[i])
    <3>1. CASE i <= Len(w)
      <4>1. i \in 1..Len(w) /\ (w \o u)[i] = w[i] BY <2>7, <3>1
      <4>2. QED BY <2>6, <4>1
    <3>2. CASE ~(i <= Len(w))
      <4>1. i - Len(w) \in 1..Len(u) /\ (w \o u)[i] = u[i - Len(w)] BY <2>7, <3>2
      <4>2. QED BY <2>6, <4>1
    <3>3. QED BY <3>1, <3>2
  <2>9. QED BY <2>4, <2>8 DEF w, u
<1>13. /\ buf' \in Seq(BOOLEAN) /\ analyses' \in Seq(Marks) /\ analysed' \in Nat /\ oneByOne' \in BOOLEAN
       /\ Numbered(analyses', analysed') /\ Returned(valid', analysed', Len(analyses'))
  <2>1. x.seen \in Seq(Marks) BY <1>11 DEF Scans
  <2>2. QED BY <1>0, <1>1, <1>4, <1>11, <2>1
<1>14. oneByOne' => Exact(analyses', Len(analyses')) /\ \A i \in 1..Len(valid') : Leads(valid'[i])
  BY <1>1, <1>12
<1>15. QED BY <1>13, <1>14 DEF SilenceInv, Exact, SilentRun, Leads, Numbered, Returned, Framed

\* A reset keeps it: what was returned stays, and nothing is kept that could overlap it.
LEMMA SilenceResetKeeps == ASSUME SilenceInv, SilenceReset PROVE SilenceInv'
<1>1. <<>> \in Seq(BOOLEAN) /\ <<>> \in Seq(Marks) /\ Len(<<>>) = 0 BY EmptySeq
<1>2. buf' = <<>> /\ analyses' = <<>> /\ analysed' = analysed /\ valid' = valid /\ oneByOne' = oneByOne
  BY DEF SilenceReset
<1>3. Returned(valid, analysed, 0)
  <2>1. ASSUME Len(valid) > 0 PROVE valid[Len(valid)][Len(valid[Len(valid)])].n + 0 <= analysed + MinAnalyses
    <3> DEFINE end == valid[Len(valid)][Len(valid[Len(valid)])].n  len == Len(analyses)
    <3>1. end \in Nat BY <2>1, LastRun DEF SilenceInv
    <3>2. end + len <= analysed + MinAnalyses BY <2>1 DEF Returned, SilenceInv
    <3>3. len \in Nat /\ analysed \in Nat BY DEF SilenceInv
    <3> HIDE DEF end, len
    <3>4. end + 0 <= analysed + MinAnalyses BY <3>1, <3>2, <3>3, SilenceAssumption
    <3>5. QED BY <3>4 DEF end
  <2>2. QED BY <2>1 DEF Returned, SilenceInv
<1>4. Numbered(<<>>, analysed) BY <1>1 DEF Numbered
<1>5. Exact(<<>>, 0) BY SilenceAssumption DEF Exact, SilentRun
<1>6. /\ buf' \in Seq(BOOLEAN) /\ analyses' \in Seq(Marks) /\ analysed' \in Nat /\ oneByOne' \in BOOLEAN
      /\ Numbered(analyses', analysed') /\ Returned(valid', analysed', Len(analyses'))
  BY <1>1, <1>2, <1>3, <1>4 DEF SilenceInv
<1>7. oneByOne' => Exact(analyses', Len(analyses')) /\ \A i \in 1..Len(valid') : Leads(valid'[i])
  BY <1>1, <1>2, <1>5 DEF SilenceInv
<1>8. QED BY <1>6, <1>7 DEF SilenceInv, Exact, SilentRun, Leads, Numbered, Returned, Framed

\* RunsFramed (src/pcm.go:327-426): what Add returns are pieces of what was added, in their
\* order and overlapping by less than the silence that counts, each with a silence that
\* counts at its end and, when no Add finishes several steps, at its beginning.
THEOREM SilencesFrame == SilenceSpec => []RunsFramed
<1>1. SilenceInit => SilenceInv BY SilenceStarts
<1>2. SilenceInv /\ [SilenceNext]_silenceVars => SilenceInv'
  <2> SUFFICES ASSUME SilenceInv, [SilenceNext]_silenceVars PROVE SilenceInv' OBVIOUS
  <2>1. CASE SilenceReset BY <2>1, SilenceResetKeeps
  <2>2. CASE \E samples \in Chunks : SilenceAdd(samples) BY <2>2, SilenceAddKeeps
  <2>3. CASE UNCHANGED silenceVars
    BY <2>3 DEF silenceVars, SilenceInv, Exact, SilentRun, Leads, Numbered, Returned, Framed
  <2>4. QED BY <2>1, <2>2, <2>3 DEF SilenceNext
<1>3. SilenceInv => RunsFramed
  <2> SUFFICES ASSUME SilenceInv PROVE RunsFramed OBVIOUS
  <2>1. valid \in Seq(Seq(Marks)) BY DEF SilenceInv, Returned
  <2>2. DOMAIN valid = 1..Len(valid) BY <2>1
  <2>3. QED BY <2>2 DEF RunsFramed, SilenceInv, Returned
<1>4. QED BY <1>1, <1>2, <1>3, PTL DEF SilenceSpec

-----------------------------------------------------------------------------
\* BitsWriter: that the writer was given the bits asked for (Sent) is inductive.

\* A function that goes on from w by F, up to N.
Iteration(g, W, w, N, F) == g \in [0..N -> W] /\ g[0] = w /\ \A i \in 1..N : g[i] = F[<<g[i - 1], i>>]

\* There is one: it exists up to 0, and goes on by a value.
LEMMA Iterates ==
  ASSUME NEW W, NEW w \in W, NEW N \in Nat, NEW F \in [W \X (1..N) -> W]
  PROVE  \E g : Iteration(g, W, w, N, F)
<1> DEFINE Upto(g, k) == g \in [0..k -> W] /\ g[0] = w /\ \A i \in 1..k : g[i] = F[<<g[i - 1], i>>]
           T == {k \in 0..N : \E g : Upto(g, k)}
<1>1. 0 \in T
  <2> DEFINE g == [i \in 0..0 |-> w]
  <2>1. Upto(g, 0) OBVIOUS
  <2>2. 0 \in 0..N OBVIOUS
  <2>3. QED BY <2>1, <2>2
<1>2. ASSUME NEW k \in 0..N, k < N, k \in T PROVE k + 1 \in T
  <2>1. PICK g : Upto(g, k) BY <1>2
  <2>2. k \in 0..k /\ k + 1 \in 1..N /\ k + 1 \in 0..N BY <1>2
  <2>3. g[k] \in W /\ F[<<g[k], k + 1>>] \in W BY <2>1, <2>2
  <2> DEFINE h == [i \in 0..k + 1 |-> IF i = k + 1 THEN F[<<g[k], k + 1>>] ELSE g[i]]
  <2>4. \A i \in 0..k + 1 : i # k + 1 => i \in 0..k /\ h[i] = g[i] OBVIOUS
  <2>5. h \in [0..k + 1 -> W] BY <2>1, <2>3, <2>4
  <2>6. h[0] = w BY <2>1, <2>4
  <2>7. ASSUME NEW i \in 1..k + 1 PROVE h[i] = F[<<h[i - 1], i>>]
    <3>1. i - 1 \in 0..k + 1 /\ i - 1 # k + 1 /\ h[i - 1] = g[i - 1] BY <2>4
    <3>2. CASE i = k + 1 BY <3>1, <3>2
    <3>3. CASE i # k + 1
      <4>1. i \in 1..k /\ i \in 0..k + 1 /\ h[i] = g[i] BY <3>3
      <4>2. QED BY <2>1, <3>1, <4>1
    <3>4. QED BY <3>2, <3>3
  <2> HIDE DEF h
  <2>8. Upto(h, k + 1) BY <2>5, <2>6, <2>7
  <2>9. QED BY <2>2, <2>8
<1> HIDE DEF T
<1>3. \A i \in 0..N : i \in T BY <1>1, <1>2, UpTo
<1>4. N \in T BY <1>3
<1>5. QED BY <1>4 DEF T, Iteration

\* The powers of 2 up to a bound, and that they do not depend on it.
IsPowers(p, n) == p = [i \in 0..n |-> IF i = 0 THEN 1 ELSE 2 * p[i - 1]]

\* There are powers up to any bound.
LEMMA PowersExist == ASSUME NEW n \in Nat PROVE \E p : IsPowers(p, n) /\ p \in [0..n -> Nat]
<1> DEFINE F == [q \in Nat \X (1..n) |-> 2 * q[1]]
<1>1. F \in [Nat \X (1..n) -> Nat] OBVIOUS
<1>2. \A a \in Nat, i \in 1..n : F[<<a, i>>] = 2 * a OBVIOUS
<1> HIDE DEF F
<1>3. PICK p : p \in [0..n -> Nat] /\ p[0] = 1 /\ \A i \in 1..n : p[i] = F[<<p[i - 1], i>>]
  <2>1. 1 \in Nat OBVIOUS
  <2>2. \E p : Iteration(p, Nat, 1, n, F) BY <1>1, <2>1, Iterates
  <2>3. QED BY <2>2 DEF Iteration
<1>4. ASSUME NEW i \in 0..n PROVE p[i] = IF i = 0 THEN 1 ELSE 2 * p[i - 1]
  <2>1. CASE i = 0 BY <1>3, <2>1
  <2>2. CASE i # 0
    <3>1. i \in 1..n /\ i - 1 \in 0..n BY <2>2
    <3>2. QED BY <1>2, <1>3, <2>2, <3>1
  <2>3. QED BY <2>1, <2>2
<1>5. p = [i \in 0..n |-> p[i]] BY <1>3
<1>6. IsPowers(p, n) BY ONLY <1>4, <1>5 DEF IsPowers
<1>7. QED BY <1>3, <1>6

\* Two functions of powers agree where both are defined.
LEMMA PowersAgree ==
  ASSUME NEW n \in Nat, NEW k \in 0..n, NEW p, IsPowers(p, n), NEW q, IsPowers(q, k)
  PROVE  p[k] = q[k]
<1> DEFINE T == {i \in 0..k : p[i] = q[i]}
<1>0. k \in Nat OBVIOUS
<1>1. 0 \in T
  <2>1. 0 \in 0..n /\ 0 \in 0..k OBVIOUS
  <2>2. p[0] = 1 /\ q[0] = 1 BY <2>1 DEF IsPowers
  <2>3. QED BY <2>1, <2>2
<1>2. ASSUME NEW i \in 0..k, i < k, i \in T PROVE i + 1 \in T
  <2>1. i + 1 \in 0..n /\ i + 1 \in 0..k /\ i + 1 # 0 /\ (i + 1) - 1 = i BY <1>2
  <2>2. p[i + 1] = 2 * p[i] BY <2>1 DEF IsPowers
  <2>3. q[i + 1] = 2 * q[i] BY <2>1 DEF IsPowers
  <2>4. QED BY <1>2, <2>1, <2>2, <2>3
<1> HIDE DEF T
<1>3. \A i \in 0..k : i \in T BY <1>0, <1>1, <1>2, UpTo
<1>4. k \in T BY <1>3
<1>5. QED BY <1>4 DEF T

\* What Pow2 returns is one of those powers.
LEMMA Pow2Powers == ASSUME NEW n \in Nat PROVE \E p : IsPowers(p, n) /\ p \in [0..n -> Nat] /\ Pow2(n) = p[n]
<1> DEFINE p == CHOOSE p : p = [i \in 0..n |-> IF i = 0 THEN 1 ELSE 2 * p[i - 1]]
<1>1. IsPowers(p, n) BY PowersExist DEF IsPowers
<1>2. Pow2(n) = p[n] BY DEF Pow2
<1> HIDE DEF p
<1>3. PICK q : IsPowers(q, n) /\ q \in [0..n -> Nat] BY PowersExist
<1>4. p[n] = q[n] BY <1>1, <1>3, PowersAgree
<1>5. QED BY <1>2, <1>3, <1>4

\* The powers of 2, each from the one before.
LEMMA Pow2Next == Pow2(0) = 1 /\ \A n \in Nat : Pow2(n) \in Nat /\ Pow2(n + 1) = 2 * Pow2(n)
<1>1. Pow2(0) = 1
  <2>1. 0 \in Nat /\ 0 \in 0..0 OBVIOUS
  <2>2. PICK p : IsPowers(p, 0) /\ Pow2(0) = p[0] BY <2>1, Pow2Powers
  <2>3. QED BY <2>1, <2>2 DEF IsPowers
<1>2. ASSUME NEW n \in Nat PROVE Pow2(n) \in Nat /\ Pow2(n + 1) = 2 * Pow2(n)
  <2>1. PICK q : IsPowers(q, n) /\ q \in [0..n -> Nat] /\ Pow2(n) = q[n] BY Pow2Powers
  <2>2. n + 1 \in Nat /\ n \in 0..n + 1 /\ n + 1 \in 0..n + 1 /\ n + 1 # 0 /\ (n + 1) - 1 = n /\ n \in 0..n OBVIOUS
  <2>3. PICK p : IsPowers(p, n + 1) /\ Pow2(n + 1) = p[n + 1] BY <2>2, Pow2Powers
  <2>4. p[n + 1] = 2 * p[n] BY <2>2, <2>3 DEF IsPowers
  <2>5. p[n] = q[n] BY <2>1, <2>2, <2>3, PowersAgree
  <2>6. QED BY <2>1, <2>2, <2>3, <2>4, <2>5
<1>3. QED BY <1>1, <1>2

\* A power of 2 is positive.
LEMMA Pow2Positive == ASSUME NEW n \in Nat PROVE Pow2(n) \in Nat /\ Pow2(n) > 0
<1> DEFINE T == {i \in 0..n : Pow2(i) > 0}
<1>1. 0 \in T BY Pow2Next
<1>2. ASSUME NEW i \in 0..n, i < n, i \in T PROVE i + 1 \in T
  <2>1. i \in Nat /\ i + 1 \in 0..n /\ Pow2(i) \in Nat /\ Pow2(i + 1) = 2 * Pow2(i) BY <1>2, Pow2Next
  <2> DEFINE a == Pow2(i)  b == Pow2(i + 1)
  <2>2. a \in Nat /\ a > 0 /\ b = 2 * a BY <1>2, <2>1
  <2> HIDE DEF a, b
  <2>3. b > 0 BY <2>2
  <2>4. QED BY <2>1, <2>3 DEF b
<1> HIDE DEF T
<1>3. \A i \in 0..n : i \in T BY <1>1, <1>2, UpTo
<1>4. n \in T BY <1>3
<1>5. QED BY <1>4, Pow2Next DEF T

\* The power of a sum is the product of the powers.
LEMMA Pow2Sum == ASSUME NEW a \in Nat, NEW n \in Nat PROVE Pow2(a + n) = Pow2(a) * Pow2(n)
<1> DEFINE T == {i \in 0..n : Pow2(a + i) = Pow2(a) * Pow2(i)}
<1>0. Pow2(a) \in Nat BY Pow2Next
<1>1. 0 \in T
  <2>1. a + 0 = a /\ 0 \in 0..n OBVIOUS
  <2>2. QED BY <1>0, <2>1, Pow2Next
<1>2. ASSUME NEW i \in 0..n, i < n, i \in T PROVE i + 1 \in T
  <2>1. i \in Nat /\ i + 1 \in 0..n /\ a + i \in Nat /\ a + (i + 1) = (a + i) + 1 BY <1>2
  <2>2. Pow2(i) \in Nat /\ Pow2(i + 1) = 2 * Pow2(i) /\ Pow2((a + i) + 1) = 2 * Pow2(a + i) BY <2>1, Pow2Next
  <2>3. Pow2(a + i) = Pow2(a) * Pow2(i) BY <1>2
  <2> DEFINE x == Pow2(a)  y == Pow2(i)
  <2>4. x \in Nat /\ y \in Nat BY <1>0, <2>2
  <2>5. Pow2(a + (i + 1)) = 2 * (x * y) /\ Pow2(i + 1) = 2 * y BY <2>1, <2>2, <2>3
  <2> HIDE DEF x, y
  <2>6. 2 * (x * y) = x * (2 * y) BY <2>4, Z3
  <2>7. Pow2(a + (i + 1)) = x * Pow2(i + 1) BY <2>5, <2>6
  <2>8. QED BY <2>1, <2>7 DEF x
<1> HIDE DEF T
<1>3. \A i \in 0..n : i \in T BY <1>1, <1>2, UpTo
<1>4. n \in T BY <1>3
<1>5. QED BY <1>4 DEF T

\* Division and rest are what they are defined to be.
LEMMA DivOf ==
  ASSUME NEW v \in Nat, NEW d \in Nat, d > 0
  PROVE  v \div d \in Nat /\ v % d \in Nat /\ v % d < d /\ v = (v \div d) * d + (v % d)
<1>1. v \div d \in Nat BY Z3
<1>2. v % d \in Nat /\ v % d < d BY Z3
<1>3. v - d * (v \div d) = v % d BY Z3
<1> DEFINE q == v \div d  r == v % d
<1>4. q \in Nat /\ r \in Nat /\ v - d * q = r BY <1>1, <1>2, <1>3
<1> HIDE DEF q, r
<1>5. v = q * d + r BY <1>4, Z3
<1>6. QED BY <1>1, <1>2, <1>5 DEF q, r

\* A quotient and a rest that fit are those of the division.
LEMMA DivIs ==
  ASSUME NEW v \in Nat, NEW d \in Nat, d > 0, NEW q \in Nat, NEW r \in Nat, r < d, v = q * d + r
  PROVE  v \div d = q /\ v % d = r
<1>1. v \div d \in Nat /\ v % d \in Nat /\ v % d < d /\ v = (v \div d) * d + (v % d) BY DivOf
<1> DEFINE p == v \div d  s == v % d
<1>2. p \in Nat /\ s \in Nat /\ s < d /\ p * d + s = q * d + r BY <1>1
<1> HIDE DEF p, s
<1>3. (p - q) * d = r - s BY <1>2, Z3
<1>4. p = q
  <2>1. CASE p > q
    <3>1. p - q >= 1 BY <1>2, <2>1
    <3>2. (p - q) * d >= d BY <1>2, <3>1, Z3
    <3>3. QED BY <1>2, <1>3, <3>2, Z3
  <2>2. CASE p < q
    <3>1. q - p >= 1 BY <1>2, <2>2
    <3>2. (q - p) * d >= d BY <1>2, <3>1, Z3
    <3>3. QED BY <1>2, <1>3, <3>2, Z3
  <2>3. QED BY <1>2, <2>1, <2>2
<1>5. s = r BY <1>2, <1>4, Z3
<1>6. QED BY <1>4, <1>5 DEF p, s

\* To divide twice is to divide by the product.
LEMMA DivDiv ==
  ASSUME NEW v \in Nat, NEW a \in Nat, a > 0, NEW b \in Nat, b > 0
  PROVE  (v \div a) \div b = v \div (a * b)
<1> DEFINE q == v \div a  r == v % a
<1>1. q \in Nat /\ r \in Nat /\ r < a /\ v = q * a + r BY DivOf
<1> HIDE DEF q, r
<1> DEFINE p == q \div b  s == q % b
<1>2. p \in Nat /\ s \in Nat /\ s < b /\ q = p * b + s BY <1>1, DivOf
<1> HIDE DEF p, s
<1>3. v = p * (a * b) + (s * a + r) BY <1>1, <1>2, Z3
<1>4. s * a + r < a * b
  <2>1. s + 1 <= b BY <1>2
  <2>2. (s + 1) * a <= b * a BY <1>2, <2>1, Z3
  <2>3. (s + 1) * a = s * a + a /\ b * a = a * b BY <1>2, Z3
  <2>4. s * a \in Nat /\ a * b \in Nat BY <1>2, Z3
  <2>5. QED BY <1>1, <2>2, <2>3, <2>4, Z3
<1>5. a * b \in Nat /\ a * b > 0 /\ s * a + r \in Nat BY <1>1, <1>2, Z3
<1>6. v \div (a * b) = p
  <2> DEFINE d == a * b  t == s * a + r
  <2>1. d \in Nat /\ d > 0 /\ t \in Nat /\ t < d /\ v = p * d + t BY <1>3, <1>4, <1>5
  <2> HIDE DEF d, t
  <2>2. v \div d = p BY <1>2, <2>1, DivIs
  <2>3. QED BY <2>2 DEF d
<1>7. QED BY <1>6 DEF p, q

-----------------------------------------------------------------------------
\* The bits of a number.
Bits == {0, 1}

\* BitsOf gives n bits, each a rest of a division.
LEMMA BitsAre ==
  ASSUME NEW v \in Nat, NEW n \in Nat
  PROVE  /\ BitsOf(v, n) \in Seq(Bits) /\ Len(BitsOf(v, n)) = n
         /\ \A i \in 1..n : BitsOf(v, n)[i] = (v \div Pow2(n - i)) % 2
<1>1. ASSUME NEW i \in 1..n PROVE (v \div Pow2(n - i)) % 2 \in Bits
  <2>1. n - i \in Nat OBVIOUS
  <2> DEFINE d == Pow2(n - i)
  <2>2. d \in Nat /\ d > 0 BY <2>1, Pow2Positive
  <2> HIDE DEF d
  <2> DEFINE q == v \div d
  <2>3. q \in Nat BY <2>2, DivOf
  <2> HIDE DEF q
  <2>4. q % 2 \in {0, 1} BY <2>3
  <2>5. QED BY <2>4 DEF q, d, Bits
<1> DEFINE b == [i \in 1..n |-> (v \div Pow2(n - i)) % 2]
<1>2. b \in [1..n -> Bits] BY <1>1
<1>3. b \in Seq(Bits) /\ Len(b) = n
  <2> HIDE DEF b
  <2>1. QED BY <1>2
<1>4. QED BY <1>3 DEF BitsOf

\* The first mid of n bits are those of the number without its n - mid last bits.
LEMMA BitsSplit ==
  ASSUME NEW v \in Nat, NEW n \in Nat, NEW mid \in 0..n
  PROVE  BitsOf(v, n) = BitsOf(v \div Pow2(n - mid), mid) \o BitsOf(v, n - mid)
<1> DEFINE d == Pow2(n - mid)  q == v \div d
<1>1. mid \in Nat /\ n - mid \in Nat OBVIOUS
<1>2. d \in Nat /\ d > 0 BY <1>1, Pow2Positive
<1> HIDE DEF d
<1>3. q \in Nat BY <1>2, DivOf
<1> HIDE DEF q
<1> DEFINE a == BitsOf(v, n)  b == BitsOf(q, mid)  c == BitsOf(v, n - mid)
<1>4. /\ a \in Seq(Bits) /\ Len(a) = n /\ \A i \in 1..n : a[i] = (v \div Pow2(n - i)) % 2
      /\ b \in Seq(Bits) /\ Len(b) = mid /\ \A i \in 1..mid : b[i] = (q \div Pow2(mid - i)) % 2
      /\ c \in Seq(Bits) /\ Len(c) = n - mid /\ \A i \in 1..n - mid : c[i] = (v \div Pow2((n - mid) - i)) % 2
  BY <1>1, <1>3, BitsAre
<1> HIDE DEF a, b, c
<1>5. /\ b \o c \in Seq(Bits) /\ Len(b \o c) = n
      /\ \A i \in 1..n : (b \o c)[i] = IF i <= mid THEN b[i] ELSE c[i - mid]
  <2>1. /\ b \o c \in Seq(Bits) /\ Len(b \o c) = Len(b) + Len(c)
        /\ \A i \in 1..Len(b) + Len(c) : (b \o c)[i] = IF i <= Len(b) THEN b[i] ELSE c[i - Len(b)]
    <3>1. b \in Seq(Bits) /\ c \in Seq(Bits) BY ONLY <1>4
    <3>2. QED BY ONLY <3>1, ConcatProperties
  <2>2. Len(b) + Len(c) = n BY <1>1, <1>4
  <2>3. QED BY <1>4, <2>1, <2>2
<1>6. ASSUME NEW i \in 1..n PROVE a[i] = (b \o c)[i]
  <2>1. CASE i <= mid
    <3>1. i \in 1..mid /\ mid - i \in Nat /\ n - i = (n - mid) + (mid - i) BY <1>1, <2>1
    <3> DEFINE e == Pow2(mid - i)
    <3>2. e \in Nat /\ e > 0 BY <3>1, Pow2Positive
    <3>3. Pow2(n - i) = d * e BY <1>1, <3>1, Pow2Sum DEF d
    <3>4. (v \div d) \div e = v \div (d * e) BY <1>2, <3>2, DivDiv
    <3>5. b[i] = (q \div e) % 2 /\ a[i] = (v \div Pow2(n - i)) % 2 BY <1>4, <3>1
    <3>6. q \div e = v \div Pow2(n - i) BY <3>3, <3>4 DEF q
    <3>7. QED BY <1>5, <2>1, <3>5, <3>6
  <2>2. CASE ~(i <= mid)
    <3>1. i - mid \in 1..n - mid /\ (n - mid) - (i - mid) = n - i BY <1>1, <2>2
    <3>2. c[i - mid] = (v \div Pow2(n - i)) % 2 BY <1>4, <3>1
    <3>3. QED BY <1>4, <1>5, <2>2, <3>2
  <2>3. QED BY <2>1, <2>2
<1>7. a = b \o c BY <1>4, <1>5, <1>6, SeqEqual
<1>8. QED BY <1>7 DEF a, b, c, d, q

\* The last n bits of a number are those of its rest.
LEMMA BitsLow ==
  ASSUME NEW v \in Nat, NEW n \in Nat
  PROVE  BitsOf(v % Pow2(n), n) = BitsOf(v, n)
<1> DEFINE d == Pow2(n)  q == v \div d  r == v % d
<1>1. d \in Nat /\ d > 0 BY Pow2Positive
<1> HIDE DEF d
<1>2. q \in Nat /\ r \in Nat /\ r < d /\ v = q * d + r BY <1>1, DivOf
<1> HIDE DEF q, r
<1> DEFINE a == BitsOf(r, n)  b == BitsOf(v, n)
<1>3. /\ a \in Seq(Bits) /\ Len(a) = n /\ \A i \in 1..n : a[i] = (r \div Pow2(n - i)) % 2
      /\ b \in Seq(Bits) /\ Len(b) = n /\ \A i \in 1..n : b[i] = (v \div Pow2(n - i)) % 2
  BY <1>2, BitsAre
<1> HIDE DEF a, b
<1>4. ASSUME NEW i \in 1..n PROVE a[i] = b[i]
  <2>1. n - i \in Nat /\ i - 1 \in Nat /\ n = (n - i) + ((i - 1) + 1) /\ (i - 1) + 1 \in Nat OBVIOUS
  <2> DEFINE e == Pow2(n - i)  f == Pow2(i - 1)
  <2>2. e \in Nat /\ e > 0 /\ f \in Nat BY <2>1, Pow2Positive
  <2>3. d = e * (2 * f)
    <3>1. Pow2((n - i) + ((i - 1) + 1)) = Pow2(n - i) * Pow2((i - 1) + 1) BY <2>1, Pow2Sum
    <3>2. Pow2((i - 1) + 1) = 2 * f BY <2>1, Pow2Next
    <3>3. QED BY <2>1, <3>1, <3>2 DEF d
  <2> HIDE DEF e, f
  <2> DEFINE x == r \div e  y == r % e
  <2>4. x \in Nat /\ y \in Nat /\ y < e /\ r = x * e + y BY <1>2, <2>2, DivOf
  <2> HIDE DEF x, y
  <2>5. v = (2 * (q * f) + x) * e + y BY <1>2, <2>2, <2>3, <2>4, Z3
  <2> DEFINE z == q * f
  <2>6. z \in Nat BY <1>2, <2>2, Z3
  <2> HIDE DEF z
  <2>7. v \div e = 2 * z + x
    <3> DEFINE p == 2 * z + x
    <3>1. p \in Nat /\ v = p * e + y BY <2>4, <2>5, <2>6 DEF z
    <3> HIDE DEF p
    <3>2. v \div e = p BY <2>2, <2>4, <3>1, DivIs
    <3>3. QED BY <3>2 DEF p
  <2>8. (2 * z + x) % 2 = x % 2 BY <2>4, <2>6
  <2>9. a[i] = x % 2 /\ b[i] = (v \div e) % 2 BY <1>3 DEF e, x
  <2>10. QED BY <2>7, <2>8, <2>9
<1>5. a = b BY <1>3, <1>4, SeqEqual
<1>6. QED BY <1>5 DEF a, b, r, d

\* The bits of g are those of h, put before the mid bits of p.
Joined(g, n, h, k, p, mid) == BitsOf(g, n) = BitsOf(h, k) \o BitsOf(p, mid)

\* A number made of h and of p has the bits of h, then those of p.
LEMMA BitsJoin ==
  ASSUME NEW h \in Nat, NEW k \in Nat, NEW p \in Nat, NEW mid \in Nat, p < Pow2(mid),
         NEW g, g = h * Pow2(mid) + p, NEW n, n = k + mid
  PROVE  Joined(g, n, h, k, p, mid)
<1> DEFINE d == Pow2(mid)  v == h * d + p
<1>1. d \in Nat /\ d > 0 BY Pow2Positive
<1>2. p < d OBVIOUS
<1> HIDE DEF d
<1>3. v \in Nat BY <1>1, Z3
<1>4. v = h * d + p OBVIOUS
<1> HIDE DEF v
<1>5. v \div d = h /\ v % d = p BY <1>1, <1>2, <1>3, <1>4, DivIs
<1>6. k \in 0..k + mid /\ (k + mid) - k = mid /\ k + mid \in Nat OBVIOUS
<1>7. BitsOf(v, k + mid) = BitsOf(v \div Pow2((k + mid) - k), k) \o BitsOf(v, (k + mid) - k) BY <1>3, <1>6, BitsSplit
<1>8. BitsOf(v % d, mid) = BitsOf(v, mid) BY <1>3, BitsLow DEF d
<1>9. BitsOf(v, k + mid) = BitsOf(h, k) \o BitsOf(p, mid) BY <1>5, <1>6, <1>7, <1>8 DEF d
<1>10. QED BY <1>9 DEF v, d, Joined

-----------------------------------------------------------------------------
\* The bits of bytes.
Bytes == 0..255

\* Concatenation of bits is associative.
LEMMA BitsAssoc ==
  ASSUME NEW a \in Seq(Bits), NEW b \in Seq(Bits), NEW c \in Seq(Bits)
  PROVE  (a \o b) \o c = a \o (b \o c) /\ (a \o b) \o c \in Seq(Bits)
<1>1. /\ a \o b \in Seq(Bits) /\ Len(a \o b) = Len(a) + Len(b)
      /\ \A i \in 1..Len(a) + Len(b) : (a \o b)[i] = IF i <= Len(a) THEN a[i] ELSE b[i - Len(a)]
  BY ConcatProperties
<1>2. /\ b \o c \in Seq(Bits) /\ Len(b \o c) = Len(b) + Len(c)
      /\ \A i \in 1..Len(b) + Len(c) : (b \o c)[i] = IF i <= Len(b) THEN b[i] ELSE c[i - Len(b)]
  BY ConcatProperties
<1> DEFINE ab == a \o b  bc == b \o c
<1>3. ab \in Seq(Bits) /\ bc \in Seq(Bits) BY <1>1, <1>2
<1> HIDE DEF ab, bc
<1>4. /\ ab \o c \in Seq(Bits) /\ Len(ab \o c) = Len(ab) + Len(c)
      /\ \A i \in 1..Len(ab) + Len(c) : (ab \o c)[i] = IF i <= Len(ab) THEN ab[i] ELSE c[i - Len(ab)]
  BY <1>3, ConcatProperties
<1>5. /\ a \o bc \in Seq(Bits) /\ Len(a \o bc) = Len(a) + Len(bc)
      /\ \A i \in 1..Len(a) + Len(bc) : (a \o bc)[i] = IF i <= Len(a) THEN a[i] ELSE bc[i - Len(a)]
  BY <1>3, ConcatProperties
<1> DEFINE s == ab \o c  u == a \o bc  la == Len(a)  lb == Len(b)  lc == Len(c)
<1>6. la \in Nat /\ lb \in Nat /\ lc \in Nat OBVIOUS
<1>7. /\ s \in Seq(Bits) /\ u \in Seq(Bits) /\ Len(s) = la + lb + lc /\ Len(u) = la + lb + lc
      /\ \A i \in 1..la + lb + lc : s[i] = IF i <= la + lb THEN ab[i] ELSE c[i - (la + lb)]
      /\ \A i \in 1..la + lb + lc : u[i] = IF i <= la THEN a[i] ELSE bc[i - la]
      /\ \A i \in 1..la + lb : ab[i] = IF i <= la THEN a[i] ELSE b[i - la]
      /\ \A i \in 1..lb + lc : bc[i] = IF i <= lb THEN b[i] ELSE c[i - lb]
  <2>1. la + lb + lc = la + (lb + lc) BY <1>6
  <2>2. QED BY <1>1, <1>2, <1>4, <1>5, <2>1 DEF ab, bc
<1> HIDE DEF s, u, la, lb, lc
<1>8. ASSUME NEW i \in 1..la + lb + lc PROVE s[i] = u[i]
  <2>1. CASE i <= la
    <3>1. i \in 1..la + lb /\ i <= la + lb BY <1>6, <2>1
    <3>2. s[i] = ab[i] /\ u[i] = a[i] BY <1>7, <2>1, <3>1
    <3>3. ab[i] = a[i] BY <1>7, <2>1, <3>1
    <3>4. QED BY <3>2, <3>3
  <2>2. CASE ~(i <= la) /\ i <= la + lb
    <3>1. i \in 1..la + lb /\ i - la \in 1..lb + lc /\ i - la <= lb BY <1>6, <2>2
    <3>2. s[i] = ab[i] /\ u[i] = bc[i - la] BY <1>7, <2>2
    <3>3. ab[i] = b[i - la] /\ bc[i - la] = b[i - la] BY <1>7, <2>2, <3>1
    <3>4. QED BY <3>2, <3>3
  <2>3. CASE ~(i <= la + lb)
    <3>1. i - la \in 1..lb + lc /\ ~(i - la <= lb) /\ (i - la) - lb = i - (la + lb) /\ ~(i <= la) BY <1>6, <2>3
    <3>2. s[i] = c[i - (la + lb)] /\ u[i] = bc[i - la] BY <1>7, <2>3, <3>1
    <3>3. bc[i - la] = c[(i - la) - lb] BY <1>7, <3>1
    <3>4. QED BY <3>1, <3>2, <3>3
  <2>4. QED BY <2>1, <2>2, <2>3
<1>9. s = u BY <1>6, <1>7, <1>8, SeqEqual
<1>10. QED BY <1>7, <1>9 DEF s, u, ab, bc

\* The bits of bytes are eight for each.
LEMMA BytesBitsAre ==
  ASSUME NEW bs \in Seq(Bytes)
  PROVE  /\ BytesBits(bs) \in Seq(Bits) /\ Len(BytesBits(bs)) = 8 * Len(bs)
         /\ \A i \in 1..8 * Len(bs) : BytesBits(bs)[i] = BitsOf(bs[(i - 1) \div 8 + 1], 8)[((i - 1) % 8) + 1]
<1> DEFINE bits == [i \in 1..8 * Len(bs) |-> BitsOf(bs[(i - 1) \div 8 + 1], 8)[((i - 1) % 8) + 1]]
<1>0. Len(bs) \in Nat OBVIOUS
<1>1. ASSUME NEW i \in 1..8 * Len(bs)
      PROVE  BitsOf(bs[(i - 1) \div 8 + 1], 8)[((i - 1) % 8) + 1] \in Bits
  <2>1. (i - 1) \div 8 + 1 \in 1..Len(bs) /\ ((i - 1) % 8) + 1 \in 1..8 BY <1>0
  <2> DEFINE b == bs[(i - 1) \div 8 + 1]  j == ((i - 1) % 8) + 1
  <2>2. b \in Bytes /\ j \in 1..8 BY <2>1
  <2> HIDE DEF b, j
  <2>3. b \in Nat /\ 8 \in Nat BY <2>2 DEF Bytes
  <2>4. BitsOf(b, 8) \in Seq(Bits) /\ Len(BitsOf(b, 8)) = 8 BY <2>3, BitsAre
  <2>5. BitsOf(b, 8)[j] \in Bits BY <2>2, <2>4
  <2>6. QED BY <2>5 DEF b, j
<1>2. bits \in [1..8 * Len(bs) -> Bits] BY <1>1
<1> DEFINE n == 8 * Len(bs)
<1>3. n \in Nat BY <1>0
<1>4. bits \in Seq(Bits) /\ Len(bits) = n
  <2>1. bits \in [1..n -> Bits] BY <1>2
  <2> HIDE DEF bits, n
  <2>2. QED BY <1>3, <2>1
<1>5. QED BY <1>4 DEF BytesBits

\* The bits of two slices, one after the other.
LEMMA BytesBitsJoin ==
  ASSUME NEW a \in Seq(Bytes), NEW b \in Seq(Bytes)
  PROVE  BytesBits(a \o b) = BytesBits(a) \o BytesBits(b)
<1> DEFINE ab == a \o b  la == Len(a)  lb == Len(b)
<1>1. ab \in Seq(Bytes) /\ Len(ab) = la + lb /\ la \in Nat /\ lb \in Nat
      /\ \A i \in 1..la + lb : ab[i] = IF i <= la THEN a[i] ELSE b[i - la]
  BY ConcatProperties
<1> HIDE DEF ab
<1> DEFINE s == BytesBits(ab)  x == BytesBits(a)  y == BytesBits(b)
<1>2. /\ s \in Seq(Bits) /\ Len(s) = 8 * (la + lb)
      /\ \A i \in 1..8 * (la + lb) : s[i] = BitsOf(ab[(i - 1) \div 8 + 1], 8)[((i - 1) % 8) + 1]
      /\ x \in Seq(Bits) /\ Len(x) = 8 * la
      /\ \A i \in 1..8 * la : x[i] = BitsOf(a[(i - 1) \div 8 + 1], 8)[((i - 1) % 8) + 1]
      /\ y \in Seq(Bits) /\ Len(y) = 8 * lb
      /\ \A i \in 1..8 * lb : y[i] = BitsOf(b[(i - 1) \div 8 + 1], 8)[((i - 1) % 8) + 1]
  BY <1>1, BytesBitsAre
<1> HIDE DEF s, x, y, la, lb
<1>3. /\ x \o y \in Seq(Bits) /\ Len(x \o y) = 8 * (la + lb)
      /\ \A i \in 1..8 * (la + lb) : (x \o y)[i] = IF i <= 8 * la THEN x[i] ELSE y[i - 8 * la]
  <2>1. /\ x \o y \in Seq(Bits) /\ Len(x \o y) = Len(x) + Len(y)
        /\ \A i \in 1..Len(x) + Len(y) : (x \o y)[i] = IF i <= Len(x) THEN x[i] ELSE y[i - Len(x)]
    BY ONLY <1>2, ConcatProperties
  <2>2. Len(x) + Len(y) = 8 * (la + lb)
    <3>1. la \in Nat /\ lb \in Nat BY ONLY <1>1
    <3>2. Len(x) = 8 * la /\ Len(y) = 8 * lb BY ONLY <1>2
    <3>3. QED BY ONLY <3>1, <3>2
  <2>3. QED BY <1>2, <2>1, <2>2
<1>4. ASSUME NEW i \in 1..8 * (la + lb) PROVE s[i] = (x \o y)[i]
  <2> DEFINE q == (i - 1) \div 8 + 1
  <2>1. q \in 1..la + lb /\ (i <= 8 * la <=> q <= la) BY <1>1
  <2>2. CASE i <= 8 * la
    <3>1. i \in 1..8 * la /\ ab[q] = a[q] BY <1>1, <2>1, <2>2
    <3>2. QED BY <1>2, <1>3, <2>2, <3>1
  <2>3. CASE ~(i <= 8 * la)
    <3>1. i - 8 * la \in 1..8 * lb BY <1>1, <2>3
    <3>2. ((i - 8 * la) - 1) \div 8 + 1 = q - la /\ ((i - 8 * la) - 1) % 8 = (i - 1) % 8 BY <1>1, <2>3
    <3>3. y[i - 8 * la] = BitsOf(b[q - la], 8)[((i - 1) % 8) + 1] BY <1>2, <3>1, <3>2
    <3>4. ab[q] = b[q - la] BY <1>1, <2>1, <2>3
    <3>5. s[i] = BitsOf(ab[q], 8)[((i - 1) % 8) + 1] BY <1>2
    <3>6. QED BY <1>3, <2>3, <3>3, <3>4, <3>5
  <2>4. QED BY <2>2, <2>3
<1>5. 8 * (la + lb) \in Nat BY <1>1
<1>6. s = x \o y BY <1>2, <1>3, <1>4, <1>5, SeqEqual
<1>7. QED BY <1>6 DEF s, x, y, ab

\* The bits of no byte, and of one.
LEMMA BytesBitsOne ==
  /\ BytesBits(<<>>) = <<>>
  /\ \A b \in Bytes : <<b>> \in Seq(Bytes) /\ BytesBits(<<b>>) = BitsOf(b, 8)
<1>1. BytesBits(<<>>) = <<>>
  <2> DEFINE s == <<>>
  <2>1. s \in Seq(Bytes) /\ Len(s) = 0 /\ 8 * Len(s) = 0 BY EmptySeq
  <2> HIDE DEF s
  <2>2. BytesBits(s) \in Seq(Bits) /\ Len(BytesBits(s)) = 0 BY <2>1, BytesBitsAre
  <2>3. BytesBits(s) = <<>> BY <2>2, EmptySeq
  <2>4. QED BY <2>3 DEF s
<1>2. ASSUME NEW b \in Bytes PROVE <<b>> \in Seq(Bytes) /\ BytesBits(<<b>>) = BitsOf(b, 8)
  <2>1. <<b>> \in Seq(Bytes) /\ Len(<<b>>) = 1 /\ <<b>>[1] = b OBVIOUS
  <2> DEFINE s == <<b>>  x == BytesBits(s)  y == BitsOf(b, 8)
  <2>2. s \in Seq(Bytes) /\ Len(s) = 1 /\ s[1] = b BY <2>1
  <2> HIDE DEF s
  <2>3. /\ x \in Seq(Bits) /\ Len(x) = 8
        /\ \A i \in 1..8 : x[i] = BitsOf(s[(i - 1) \div 8 + 1], 8)[((i - 1) % 8) + 1]
    <3>1. 8 * Len(s) = 8 BY <2>2
    <3>2. QED BY <2>2, <3>1, BytesBitsAre
  <2>4. y \in Seq(Bits) /\ Len(y) = 8
    <3>1. b \in Nat /\ 8 \in Nat BY DEF Bytes
    <3>2. QED BY <3>1, BitsAre
  <2>5. ASSUME NEW i \in 1..8 PROVE x[i] = y[i]
    <3>1. (i - 1) \div 8 + 1 = 1 /\ ((i - 1) % 8) + 1 = i OBVIOUS
    <3>2. x[i] = BitsOf(s[1], 8)[i] BY <2>3, <3>1
    <3>3. QED BY <2>2, <3>2
  <2> HIDE DEF x, y
  <2>6. x = y BY <2>3, <2>4, <2>5, SeqEqual
  <2>7. QED BY <2>1, <2>6 DEF x, y, s
<1>3. QED BY <1>1, <1>2

-----------------------------------------------------------------------------
\* The writer.
Writers == [cache : Bytes, cacheLen : 0..8, out : Seq(Bytes), err : BOOLEAN]
WriterOf(cache, cacheLen, out, err) == [cache |-> cache, cacheLen |-> cacheLen, out |-> out, err |-> err]

\* The first bits of the cache are h, and the bits a are those of the bytes out and of h.
Holds(w, a, h) ==
  /\ h \in Nat /\ h < Pow2(w.cacheLen)
  /\ w.cache = h * Pow2(8 - w.cacheLen)
  /\ a = BytesBits(w.out) \o BitsOf(h, w.cacheLen)

\* The writer was given the bits a.
Sent(w, a) ==
  /\ w \in Writers /\ a \in Seq(Bits)
  /\ w.err => \E r \in Seq(Bits) : a = BytesBits(w.out) \o r
  /\ ~w.err => w.cacheLen \in 0..7 /\ \E h : Holds(w, a, h)

\* The powers of 2 of a byte.
LEMMA Pow2Byte == Pow2(0) = 1 /\ Pow2(1) = 2 /\ Pow2(8) = 256
<1>1. Pow2(0 + 1) = 2 * Pow2(0) /\ Pow2(1 + 1) = 2 * Pow2(1) /\ Pow2(2 + 1) = 2 * Pow2(2)
      /\ Pow2(3 + 1) = 2 * Pow2(3) /\ Pow2(4 + 1) = 2 * Pow2(4) /\ Pow2(5 + 1) = 2 * Pow2(5)
      /\ Pow2(6 + 1) = 2 * Pow2(6) /\ Pow2(7 + 1) = 2 * Pow2(7)
  BY Pow2Next
<1>2. 0 + 1 = 1 /\ 1 + 1 = 2 /\ 2 + 1 = 3 /\ 3 + 1 = 4 /\ 4 + 1 = 5 /\ 5 + 1 = 6 /\ 6 + 1 = 7 /\ 7 + 1 = 8
  OBVIOUS
<1>3. Pow2(0) = 1 BY Pow2Next
<1>4. Pow2(1) = 2 * Pow2(0) /\ Pow2(2) = 2 * Pow2(1) /\ Pow2(3) = 2 * Pow2(2) /\ Pow2(4) = 2 * Pow2(3)
      /\ Pow2(5) = 2 * Pow2(4) /\ Pow2(6) = 2 * Pow2(5) /\ Pow2(7) = 2 * Pow2(6) /\ Pow2(8) = 2 * Pow2(7)
  BY <1>1, <1>2
<1>5. QED BY <1>3, <1>4

\* A product grows with its factors.
LEMMA Times ==
  ASSUME NEW x \in Nat, NEW y \in Nat, NEW z \in Nat, x < y
  PROVE  (x + 1) * z <= y * z
<1>1. PICK r \in Nat : y = (x + 1) + r
  <2>1. y - (x + 1) \in Nat /\ y = (x + 1) + (y - (x + 1)) OBVIOUS
  <2>2. QED BY <2>1
<1>2. ((x + 1) + r) * z = (x + 1) * z + r * z BY Z3
<1>3. r * z \in Nat /\ (x + 1) * z \in Nat BY Z3
<1>4. QED BY ONLY <1>1, <1>2, <1>3

\* The cache and the rest of the byte make a byte.
LEMMA Pow2Rest ==
  ASSUME NEW k \in 0..8
  PROVE  /\ Pow2(k) \in Nat /\ Pow2(k) > 0 /\ Pow2(8 - k) \in Nat /\ Pow2(8 - k) > 0
         /\ Pow2(k) * Pow2(8 - k) = 256
<1>1. k \in Nat /\ 8 - k \in Nat /\ k + (8 - k) = 8 OBVIOUS
<1>2. Pow2(k + (8 - k)) = Pow2(k) * Pow2(8 - k) BY <1>1, Pow2Sum
<1>3. QED BY <1>1, <1>2, Pow2Byte, Pow2Positive

\* No bits are those of any number.
LEMMA NoBits == \A h \in Nat : BitsOf(h, 0) = <<>> /\ BitsOf(h, 0) \in Seq(Bits)
<1> TAKE h \in Nat
<1>1. 0 \in Nat OBVIOUS
<1>2. BitsOf(h, 0) \in Seq(Bits) /\ Len(BitsOf(h, 0)) = 0 BY <1>1, BitsAre
<1>3. QED BY <1>2, EmptySeq

\* What a flush of bytes makes of a writer.
LEMMA FlushIs ==
  ASSUME NEW w \in Writers, NEW bs \in Seq(Bytes)
  PROVE  \/ Flush(w, bs) = WriterOf(w.cache, w.cacheLen, w.out, TRUE)
         \/ Flush(w, bs) = WriterOf(w.cache, w.cacheLen, w.out \o bs, w.err)
<1> DEFINE f == Flush(w, bs)
<1>1. \/ f.cache = w.cache /\ f.cacheLen = w.cacheLen /\ f.out = w.out /\ f.err = TRUE
      \/ f.cache = w.cache /\ f.cacheLen = w.cacheLen /\ f.out = w.out \o bs /\ f.err = w.err
  BY DEF Flush, Writers
<1>2. f = WriterOf(f.cache, f.cacheLen, f.out, f.err) BY DEF Flush, Writers, WriterOf
<1> HIDE DEF f
<1>3. f = WriterOf(w.cache, w.cacheLen, w.out, TRUE) \/ f = WriterOf(w.cache, w.cacheLen, w.out \o bs, w.err)
  <2>1. CASE f.cache = w.cache /\ f.cacheLen = w.cacheLen /\ f.out = w.out /\ f.err = TRUE BY <1>2, <2>1
  <2>2. CASE f.cache = w.cache /\ f.cacheLen = w.cacheLen /\ f.out = w.out \o bs /\ f.err = w.err BY <1>2, <2>2
  <2>3. QED BY <1>1, <2>1, <2>2
<1>4. QED BY <1>3 DEF f

\* A writer, by its fields.
LEMMA WriterFields ==
  ASSUME NEW cache \in Bytes, NEW cacheLen \in 0..8, NEW out \in Seq(Bytes), NEW err \in BOOLEAN
  PROVE  LET w == WriterOf(cache, cacheLen, out, err)
         IN  w \in Writers /\ w.cache = cache /\ w.cacheLen = cacheLen /\ w.out = out /\ w.err = err
BY DEF WriterOf, Writers

\* A writer that fails has written a beginning of what it was given.
LEMMA SentFailing ==
  ASSUME NEW cache \in Bytes, NEW cacheLen \in 0..8, NEW out \in Seq(Bytes), NEW r \in Seq(Bits), NEW a,
         a = BytesBits(out) \o r
  PROVE  Sent(WriterOf(cache, cacheLen, out, TRUE), a)
<1> DEFINE w == WriterOf(cache, cacheLen, out, TRUE)
<1>1. w \in Writers /\ w.out = out /\ w.err = TRUE BY WriterFields
<1> HIDE DEF w
<1>2. BytesBits(out) \in Seq(Bits) BY BytesBitsAre
<1>3. a \in Seq(Bits) BY <1>2, ConcatProperties
<1>4. Sent(w, a) BY <1>1, <1>3 DEF Sent
<1>5. QED BY <1>4 DEF w

\* A writer whose cache has cacheLen bits of what it was given, h.
LEMMA SentHolding ==
  ASSUME NEW cacheLen \in 0..7, NEW out \in Seq(Bytes), NEW h \in Nat, h < Pow2(cacheLen),
         NEW a, a = BytesBits(out) \o BitsOf(h, cacheLen)
  PROVE  /\ h * Pow2(8 - cacheLen) \in Bytes
         /\ Sent(WriterOf(h * Pow2(8 - cacheLen), cacheLen, out, FALSE), a)
<1> DEFINE K == Pow2(cacheLen)  E == Pow2(8 - cacheLen)  cache == h * E
           w == WriterOf(cache, cacheLen, out, FALSE)
<1>0. cacheLen \in 0..8 /\ cacheLen \in Nat OBVIOUS
<1>1. K \in Nat /\ K > 0 /\ E \in Nat /\ E > 0 /\ K * E = 256 /\ h < K BY <1>0, Pow2Rest
<1> HIDE DEF K, E
<1>2. cache \in Bytes
  <2>1. cache \in Nat BY <1>1, Z3
  <2>2. h < K /\ K \in Nat /\ E \in Nat BY <1>1
  <2>3. (h + 1) * E <= K * E BY <2>2, Times
  <2>4. (h + 1) * E = h * E + E BY <1>1, Z3
  <2>5. cache < 256
    <3>1. cache + E <= 256 BY <1>1, <2>3, <2>4
    <3> HIDE DEF cache
    <3>2. QED BY <1>1, <2>1, <3>1
  <2> HIDE DEF cache
  <2>6. QED BY <2>1, <2>5 DEF Bytes
<1>3. w \in Writers /\ w.cache = cache /\ w.cacheLen = cacheLen /\ w.out = out /\ w.err = FALSE
  <2>1. cacheLen \in 0..8 BY ONLY <1>0
  <2> HIDE DEF cache
  <2>2. /\ WriterOf(cache, cacheLen, out, FALSE) \in Writers
        /\ WriterOf(cache, cacheLen, out, FALSE).cache = cache
        /\ WriterOf(cache, cacheLen, out, FALSE).cacheLen = cacheLen
        /\ WriterOf(cache, cacheLen, out, FALSE).out = out
        /\ WriterOf(cache, cacheLen, out, FALSE).err = FALSE
    BY ONLY <1>2, <2>1, out \in Seq(Bytes) DEF WriterOf, Writers
  <2>3. QED BY ONLY <2>2
<1> HIDE DEF w
<1>4. a \in Seq(Bits)
  <2>1. BytesBits(out) \in Seq(Bits) BY BytesBitsAre
  <2>2. BitsOf(h, cacheLen) \in Seq(Bits) BY <1>0, BitsAre
  <2>3. QED BY <2>1, <2>2, ConcatProperties
<1>5. Holds(w, a, h) BY <1>3 DEF Holds, K, E
<1>6. Sent(w, a) BY <1>3, <1>4, <1>5 DEF Sent
<1>7. QED BY <1>2, <1>6 DEF w, cache, E

\* Whole bytes at once, when there is no bit in the cache.
LEMMA FlushSends ==
  ASSUME NEW w, NEW a, Sent(w, a), ~w.err, w.cacheLen = 0, NEW bs \in Seq(Bytes)
  PROVE  Sent(Flush(w, bs), a \o BytesBits(bs))
<1>1. w \in Writers /\ w.out \in Seq(Bytes) /\ w.cache \in Bytes /\ w.err = FALSE BY DEF Sent, Writers
<1>2. w.cache = 0 /\ a = BytesBits(w.out)
  <2>1. PICK h : Holds(w, a, h) BY DEF Sent
  <2>2. h \in Nat /\ h < 1 /\ w.cache = h * Pow2(8) /\ a = BytesBits(w.out) \o BitsOf(h, 0)
    <3>1. 8 - 0 = 8 OBVIOUS
    <3>2. QED BY <2>1, <3>1, Pow2Byte DEF Holds
  <2>3. h = 0 BY <2>2
  <2>4. BytesBits(w.out) \in Seq(Bits) BY <1>1, BytesBitsAre
  <2>5. BytesBits(w.out) \o <<>> = BytesBits(w.out) BY <2>4, ConcatEmptySeq
  <2>6. BitsOf(h, 0) = <<>> BY <2>2, NoBits
  <2>7. w.cache = h * 256 /\ a = BytesBits(w.out) \o <<>> BY <2>2, <2>6, Pow2Byte
  <2>8. QED BY <2>3, <2>5, <2>7
<1>3. BytesBits(bs) \in Seq(Bits) BY BytesBitsAre
<1>4. CASE Flush(w, bs) = WriterOf(w.cache, w.cacheLen, w.out, TRUE)
  <2>1. 0 \in 0..8 OBVIOUS
  <2>2. QED BY <1>1, <1>2, <1>3, <1>4, <2>1, SentFailing
<1>5. CASE Flush(w, bs) = WriterOf(w.cache, w.cacheLen, w.out \o bs, w.err)
  <2> DEFINE out == w.out \o bs  b == a \o BytesBits(bs)
  <2>1. out \in Seq(Bytes) BY <1>1, ConcatProperties
  <2>2. b = BytesBits(out) BY <1>1, <1>2, BytesBitsJoin
  <2> HIDE DEF out, b
  <2>3. BytesBits(out) \in Seq(Bits) BY <2>1, BytesBitsAre
  <2>4. BytesBits(out) \o BitsOf(0, 0) = BytesBits(out)
    <3>1. BitsOf(0, 0) = <<>> BY NoBits
    <3>2. QED BY <2>3, <3>1, ConcatEmptySeq
  <2>5. 0 \in 0..7 /\ 0 \in Nat /\ 0 < Pow2(0) /\ 0 * Pow2(8 - 0) = 0
    <3>1. 8 - 0 = 8 OBVIOUS
    <3>2. QED BY <3>1, Pow2Byte
  <2>6. Sent(WriterOf(0 * Pow2(8 - 0), 0, out, FALSE), b) BY <2>1, <2>2, <2>4, <2>5, SentHolding
  <2>7. Flush(w, bs) = WriterOf(0, 0, out, FALSE) BY <1>1, <1>2, <1>5 DEF out
  <2>8. QED BY <2>5, <2>6, <2>7 DEF b
<1>6. QED BY <1>1, <1>4, <1>5, FlushIs

\* A byte that is complete is written, with the bits h of all of it.
LEMMA FlushCacheSends ==
  ASSUME NEW out \in Seq(Bytes), NEW h \in Bytes, NEW a, a = BytesBits(out) \o BitsOf(h, 8)
  PROVE  Sent(FlushCache(WriterOf(h, 8, out, FALSE)), a)
<1> DEFINE u == WriterOf(h, 8, out, FALSE)  f == Flush(u, <<h>>)  more == out \o <<h>>
<1>0. 8 \in 0..8 /\ 0 \in 0..8 /\ 0 \in 0..7 /\ 8 \in Nat /\ h \in Nat /\ 0 \in Nat /\ 0 \in Bytes BY DEF Bytes
<1>1. u \in Writers /\ u.cache = h /\ u.cacheLen = 8 /\ u.out = out /\ u.err = FALSE
  BY <1>0 DEF WriterOf, Writers
<1>2. <<h>> \in Seq(Bytes) /\ BytesBits(<<h>>) = BitsOf(h, 8) BY BytesBitsOne
<1>3. BitsOf(h, 8) \in Seq(Bits) BY <1>0, BitsAre
<1>4. more \in Seq(Bytes) /\ BytesBits(more) = a
  <2>1. more \in Seq(Bytes) BY <1>2, ConcatProperties
  <2>2. BytesBits(more) = BytesBits(out) \o BytesBits(<<h>>) BY <1>2, BytesBitsJoin
  <2>3. QED BY <1>2, <2>1, <2>2
<1>5. f = WriterOf(h, 8, out, TRUE) \/ f = WriterOf(h, 8, more, FALSE) BY <1>1, <1>2, FlushIs
<1>6. FlushCache(u) = IF f.err THEN f ELSE [f EXCEPT !.cache = 0, !.cacheLen = 0] BY <1>1 DEF FlushCache
<1> HIDE DEF u, f, more
<1>7. CASE f = WriterOf(h, 8, out, TRUE)
  <2>1. f.err = TRUE BY <1>7 DEF WriterOf
  <2>2. FlushCache(u) = WriterOf(h, 8, out, TRUE) BY <1>6, <1>7, <2>1
  <2>3. Sent(WriterOf(h, 8, out, TRUE), a) BY <1>0, <1>3, SentFailing
  <2>4. QED BY <2>2, <2>3 DEF u
<1>8. CASE f = WriterOf(h, 8, more, FALSE)
  <2>1. f.err = FALSE BY <1>8 DEF WriterOf
  <2>2. FlushCache(u) = WriterOf(0, 0, more, FALSE) BY <1>6, <1>8, <2>1 DEF WriterOf
  <2>3. 0 < Pow2(0) /\ 0 * Pow2(8 - 0) = 0
    <3>1. 8 - 0 = 8 OBVIOUS
    <3>2. QED BY <3>1, Pow2Byte
  <2>4. a = BytesBits(more) \o BitsOf(0, 0)
    <3>1. BytesBits(more) \in Seq(Bits) BY <1>4, BytesBitsAre
    <3>2. BitsOf(0, 0) = <<>> BY <1>0, NoBits
    <3>3. BytesBits(more) \o <<>> = BytesBits(more) BY <3>1, ConcatEmptySeq
    <3>4. QED BY <1>4, <3>2, <3>3
  <2>5. Sent(WriterOf(0 * Pow2(8 - 0), 0, more, FALSE), a) BY <1>0, <1>4, <2>3, <2>4, SentHolding
  <2>6. QED BY <2>2, <2>3, <2>5 DEF u
<1>9. QED BY <1>5, <1>7, <1>8

\* Up to the rest of the byte is put behind the bits of the cache.
PutBits(w, p, n) == [w EXCEPT !.cache = @ + p * Pow2(8 - w.cacheLen - n), !.cacheLen = @ + n]
PutAndFlush(w, p, n) == IF PutBits(w, p, n).cacheLen = 8 THEN FlushCache(PutBits(w, p, n)) ELSE PutBits(w, p, n)

\* The fields of the writer when p is put.
LEMMA PutIs ==
  ASSUME NEW w \in Writers, NEW p, NEW n
  PROVE  PutBits(w, p, n) = WriterOf(w.cache + p * Pow2(8 - w.cacheLen - n), w.cacheLen + n, w.out, w.err)
<1> DEFINE x == w.cache + p * Pow2(8 - w.cacheLen - n)  y == w.cacheLen + n
           u == [w EXCEPT !.cache = x, !.cacheLen = y]
<1>1. PutBits(w, p, n) = u BY DEF PutBits
<1> HIDE DEF x, y
<1>3. u = WriterOf(x, y, w.out, w.err)
  <2> DEFINE t == [w EXCEPT !.cache = x]
  <2>1. t = WriterOf(x, w.cacheLen, w.out, w.err)
    <3>1. t.cache = x /\ t.cacheLen = w.cacheLen /\ t.out = w.out /\ t.err = w.err BY DEF Writers
    <3>2. t = WriterOf(t.cache, t.cacheLen, t.out, t.err) BY DEF Writers, WriterOf
    <3> HIDE DEF t
    <3>3. QED BY <3>1, <3>2
  <2>2. u = [t EXCEPT !.cacheLen = y] OBVIOUS
  <2> HIDE DEF t, u
  <2>3. [WriterOf(x, w.cacheLen, w.out, w.err) EXCEPT !.cacheLen = y] = WriterOf(x, y, w.out, w.err) BY DEF WriterOf
  <2>4. QED BY <2>1, <2>2, <2>3
<1> HIDE DEF u
<1>4. QED BY <1>1, <1>3 DEF x, y

\* What is put is sent, a byte that is completed being written.
LEMMA PutSends ==
  ASSUME NEW w, NEW a, Sent(w, a), ~w.err, NEW p \in Nat, NEW n \in Nat, n <= 8 - w.cacheLen, p < Pow2(n)
  PROVE  Sent(PutAndFlush(w, p, n), a \o BitsOf(p, n))
<1> DEFINE k == w.cacheLen  out == w.out  b == a \o BitsOf(p, n)
<1>1. w \in Writers /\ k \in 0..7 /\ out \in Seq(Bytes) /\ w.cache \in Bytes /\ w.err = FALSE BY DEF Sent, Writers
<1>2. PICK h : Holds(w, a, h) BY DEF Sent
<1>3. h \in Nat /\ h < Pow2(k) /\ w.cache = h * Pow2(8 - k) /\ a = BytesBits(out) \o BitsOf(h, k)
  BY <1>2 DEF Holds
<1>4. n <= 8 - k OBVIOUS
<1> HIDE DEF k, out
<1>5. k + n \in 0..8 /\ k + n \in Nat /\ k \in Nat /\ 8 - k - n \in Nat /\ 8 - k - n = 8 - (k + n)
      /\ 8 - k = n + (8 - k - n)
  BY <1>1, <1>4
<1> DEFINE N == Pow2(n)  E == Pow2(8 - k - n)  g == h * N + p
<1>6. N \in Nat /\ N > 0 /\ E \in Nat /\ E > 0 BY <1>5, Pow2Positive
<1>7. Pow2(8 - k) = N * E /\ Pow2(k + n) = Pow2(k) * N BY <1>5, Pow2Sum
<1>8. g \in Nat BY <1>3, <1>6, Z3
<1>9. g < Pow2(k + n)
  <2> DEFINE K == Pow2(k)
  <2>1. K \in Nat /\ h < K BY <1>3, <1>5, Pow2Positive
  <2>2. p < N OBVIOUS
  <2> HIDE DEF K, N
  <2>3. h + 1 <= K BY <1>3, <2>1
  <2>4. (h + 1) * N <= K * N BY <1>3, <1>6, <2>1, <2>3, Z3
  <2>5. (h + 1) * N = h * N + N BY <1>3, <1>6, Z3
  <2> DEFINE x == h * N  z == K * N
  <2>6. x \in Nat /\ z \in Nat BY <1>3, <1>6, <2>1, Z3
  <2>7. x + N <= z BY <2>4, <2>5
  <2> HIDE DEF x, z
  <2>8. x + p < z BY <1>6, <2>2, <2>6, <2>7
  <2>9. QED BY <1>7, <2>8 DEF x, z, K
<1>10. w.cache + p * E = g * E
  <2> HIDE DEF N, E
  <2>1. h * (N * E) + p * E = (h * N + p) * E BY <1>3, <1>6, Z3
  <2>2. w.cache = h * (N * E) BY <1>3, <1>7
  <2>3. QED BY <2>1, <2>2
<1>11. b = BytesBits(out) \o BitsOf(g, k + n)
  <2>0. h \in Nat /\ k \in Nat /\ p \in Nat /\ n \in Nat /\ p < Pow2(n) /\ g = h * Pow2(n) + p BY <1>3, <1>5
  <2>1. BitsOf(g, k + n) = BitsOf(h, k) \o BitsOf(p, n)
    <3> DEFINE kn == k + n
    <3> HIDE DEF g
    <3>1. kn = k + n OBVIOUS
    <3> HIDE DEF kn
    <3>2. Joined(g, kn, h, k, p, n) BY ONLY <2>0, <3>1, BitsJoin
    <3>3. QED BY <3>2 DEF kn, Joined
  <2>2. BytesBits(out) \in Seq(Bits) /\ BitsOf(h, k) \in Seq(Bits) /\ BitsOf(p, n) \in Seq(Bits)
    BY <1>1, <1>3, <1>5, BytesBitsAre, BitsAre
  <2>3. (BytesBits(out) \o BitsOf(h, k)) \o BitsOf(p, n) = BytesBits(out) \o (BitsOf(h, k) \o BitsOf(p, n))
    BY ONLY <2>2, BitsAssoc
  <2>4. QED BY <1>3, <2>1, <2>3
<1>12. PutBits(w, p, n) = WriterOf(g * E, k + n, out, FALSE)
  <2>1. PutBits(w, p, n) = WriterOf(w.cache + p * E, k + n, out, w.err) BY <1>1, PutIs DEF k, out
  <2> HIDE DEF E, g
  <2>2. QED BY <1>1, <1>10, <2>1
<1> HIDE DEF g, b, N
<1>13. CASE k + n = 8
  <2>1. E = 1 /\ g < 256 /\ g * E = g
    <3>1. 8 - k - n = 0 BY <1>5, <1>13
    <3>2. E = 1 BY <3>1, Pow2Byte
    <3>3. QED BY <1>8, <1>9, <1>13, <3>2, Pow2Byte
  <2>2. g \in Bytes BY <1>8, <2>1 DEF Bytes
  <2>3. PutBits(w, p, n) = WriterOf(g, 8, out, FALSE) BY <1>12, <1>13, <2>1
  <2>4. PutBits(w, p, n).cacheLen = 8 BY <2>3 DEF WriterOf
  <2>5. b = BytesBits(out) \o BitsOf(g, 8) BY <1>11, <1>13
  <2>6. Sent(FlushCache(WriterOf(g, 8, out, FALSE)), b) BY <1>1, <2>2, <2>5, FlushCacheSends
  <2>7. QED BY <2>3, <2>4, <2>6 DEF PutAndFlush, b
<1>14. CASE k + n # 8
  <2>1. k + n \in 0..7 BY <1>5, <1>14
  <2>2. E = Pow2(8 - (k + n)) BY <1>5
  <2>3. Sent(WriterOf(g * E, k + n, out, FALSE), b) BY <1>1, <1>8, <1>9, <1>11, <2>1, <2>2, SentHolding
  <2>4. PutBits(w, p, n).cacheLen # 8 BY <1>12, <1>14 DEF WriterOf
  <2>5. QED BY <1>12, <2>3, <2>4 DEF PutAndFlush, b
<1>15. QED BY <1>13, <1>14

\* A bit is put behind the cache.
LEMMA WriteBitSends ==
  ASSUME NEW w, NEW a, Sent(w, a), ~w.err, NEW bit \in Bits
  PROVE  Sent(WriteBit(w, bit), a \o <<bit>>)
<1>1. w.cacheLen \in 0..7 /\ w \in Writers BY DEF Sent
<1>2. bit \in Nat /\ 1 \in Nat /\ bit < Pow2(1) /\ 1 <= 8 - w.cacheLen BY <1>1, Pow2Byte DEF Bits
<1>3. WriteBit(w, bit) = PutAndFlush(w, bit, 1)
  <2>1. 8 - w.cacheLen - 1 = 7 - w.cacheLen BY <1>1
  <2>2. QED BY <2>1 DEF WriteBit, PutAndFlush, PutBits
<1>4. BitsOf(bit, 1) = <<bit>>
  <2> DEFINE b == BitsOf(bit, 1)
  <2>1. b \in Seq(Bits) /\ Len(b) = 1 /\ b[1] = (bit \div Pow2(1 - 1)) % 2
    <3>1. 1 \in 1..1 OBVIOUS
    <3>2. QED BY <1>2, <3>1, BitsAre
  <2>2. b[1] = bit
    <3>1. 1 - 1 = 0 /\ Pow2(0) = 1 BY Pow2Byte
    <3>2. (bit \div 1) % 2 = bit BY DEF Bits
    <3>3. QED BY <2>1, <3>1, <3>2
  <2> HIDE DEF b
  <2>3. <<bit>> \in Seq(Bits) /\ Len(<<bit>>) = 1 /\ <<bit>>[1] = bit OBVIOUS
  <2>4. \A i \in 1..1 : b[i] = <<bit>>[i] BY <2>2, <2>3
  <2>5. b = <<bit>> BY <2>1, <2>3, <2>4, SeqEqual
  <2>6. QED BY <2>5 DEF b
<1>5. Sent(PutAndFlush(w, bit, 1), a \o BitsOf(bit, 1)) BY <1>2, PutSends
<1>6. QED BY <1>3, <1>4, <1>5

\* A byte completes the one in the cache, which keeps its last bits.
LEMMA WriteFullByteSends ==
  ASSUME NEW w, NEW a, Sent(w, a), ~w.err, NEW v \in Bytes
  PROVE  Sent(WriteFullByte(w, v), a \o BitsOf(v, 8))
<1> DEFINE k == w.cacheLen  out == w.out  b == a \o BitsOf(v, 8)
<1>1. w \in Writers /\ k \in 0..7 /\ out \in Seq(Bytes) /\ w.cache \in Bytes /\ w.err = FALSE BY DEF Sent, Writers
<1>2. <<v>> \in Seq(Bytes) /\ BytesBits(<<v>>) = BitsOf(v, 8) BY BytesBitsOne
<1>3. CASE k = 0
  <2>1. Sent(Flush(w, <<v>>), a \o BytesBits(<<v>>)) BY <1>2, <1>3, FlushSends
  <2>2. QED BY <1>2, <1>3, <2>1 DEF WriteFullByte
<1>4. CASE k # 0
  <2>1. PICK h : Holds(w, a, h) BY DEF Sent
  <2>2. h \in Nat /\ h < Pow2(k) /\ w.cache = h * Pow2(8 - k) /\ a = BytesBits(out) \o BitsOf(h, k)
    BY <2>1 DEF Holds
  <2> DEFINE K == Pow2(k)  E == Pow2(8 - k)  hi == v \div K  lo == v % K  g == h * E + hi
             cache == Byte(v * E)  u == [w EXCEPT !.cache = cache]
  <2>3. WriteFullByte(w, v) = Flush(u, <<w.cache + hi>>) BY <1>4 DEF WriteFullByte
  <2>4. u.cache = cache /\ u.cacheLen = k /\ u.out = out /\ u.err = FALSE
        /\ u = WriterOf(u.cache, u.cacheLen, u.out, u.err)
    BY <1>1 DEF Writers, WriterOf
  <2> HIDE DEF u
  <2>5. k \in 0..8 /\ k \in Nat /\ 8 - k \in Nat /\ k + (8 - k) = 8 /\ v \in Nat /\ v < 256 /\ 8 \in Nat
        /\ 8 - k \in 0..8 /\ 8 - (8 - k) = k
    BY <1>1 DEF Bytes
  <2> HIDE DEF k, out
  <2>6. K \in Nat /\ K > 0 /\ E \in Nat /\ E > 0 /\ K * E = 256 BY <2>5, Pow2Rest
  <2>7. h < K BY <2>2
  <2>8. w.cache = h * E BY <2>2
  <2> HIDE DEF K, E
  <2>9. hi \in Nat /\ lo \in Nat /\ lo < K /\ v = hi * K + lo BY <2>5, <2>6, DivOf
  <2> HIDE DEF hi, lo
  <2>10. hi < E
    <3> SUFFICES ASSUME hi >= E PROVE FALSE BY <2>6, <2>9
    <3>1. hi * K >= E * K BY <2>6, <2>9, Z3
    <3>2. E * K = 256 BY <2>6, Z3
    <3> DEFINE x == hi * K
    <3>3. x >= 256 /\ v = x + lo /\ x \in Int BY <2>6, <2>9, <3>1, <3>2, Z3
    <3> HIDE DEF x
    <3>4. QED BY <2>5, <2>9, <3>3
  <2>11. g \in Nat /\ g < 256
    <3>1. h + 1 <= K BY <2>2, <2>6, <2>7
    <3>2. (h + 1) * E <= K * E BY ONLY <2>2, <2>6, <2>7, Times
    <3>3. (h + 1) * E = h * E + E BY <2>2, <2>6, Z3
    <3> DEFINE x == h * E
    <3>4. x \in Nat /\ x + E <= 256 BY <2>2, <2>6, <3>2, <3>3, Z3
    <3> HIDE DEF x
    <3>5. x + hi \in Nat /\ x + hi < 256 BY <2>6, <2>9, <2>10, <3>4
    <3>6. QED BY <3>5 DEF x
  <2>12. cache = lo * E
    <3> DEFINE x == lo * E
    <3>1. v * E = hi * 256 + lo * E
      <4>1. (hi * K + lo) * E = hi * (K * E) + lo * E BY <2>6, <2>9, Z3
      <4>2. QED BY <2>6, <2>9, <4>1
    <3>2. x \in Nat /\ x < 256
      <4>1. lo + 1 <= K BY <2>6, <2>9
      <4>2. (lo + 1) * E <= K * E BY <2>6, <2>9, <4>1, Z3
      <4>3. (lo + 1) * E = x + E BY <2>6, <2>9, Z3
      <4>4. x \in Nat BY <2>6, <2>9, Z3
      <4> HIDE DEF x
      <4>5. QED BY <2>6, <4>2, <4>3, <4>4
    <3> HIDE DEF x
    <3> DEFINE z == v * E
    <3>3. z = hi * 256 + x BY <3>1 DEF x
    <3>4. z \in Nat BY <2>5, <2>6, Z3
    <3> HIDE DEF z
    <3>5. z % 256 = x BY <2>9, <3>2, <3>3, <3>4, DivIs
    <3>6. QED BY <3>5 DEF z, x, Byte
  <2> HIDE DEF g
  <2>13. g \in Bytes /\ w.cache + hi = g BY <2>8, <2>11 DEF Bytes, g
  <2>14. BitsOf(v, 8) = BitsOf(hi, 8 - k) \o BitsOf(lo, k)
    <3>1. BitsOf(v, 8) = BitsOf(v \div Pow2(8 - (8 - k)), 8 - k) \o BitsOf(v, 8 - (8 - k)) BY <2>5, BitsSplit
    <3>2. BitsOf(v % Pow2(k), k) = BitsOf(v, k) BY <2>5, BitsLow
    <3>3. QED BY <2>5, <3>1, <3>2 DEF hi, lo, K
  <2>15. BitsOf(g, 8) = BitsOf(h, k) \o BitsOf(hi, 8 - k)
    <3> DEFINE n == 8 - k
    <3>1. h \in Nat /\ k \in Nat /\ hi \in Nat /\ n \in Nat /\ hi < Pow2(n) /\ g = h * Pow2(n) + hi /\ 8 = k + n
      BY <2>2, <2>5, <2>9, <2>10 DEF E, g
    <3> HIDE DEF n
    <3>2. Joined(g, 8, h, k, hi, n) BY ONLY <3>1, BitsJoin
    <3>3. QED BY <3>2 DEF n, Joined
  <2>16. /\ BytesBits(out) \in Seq(Bits) /\ BitsOf(h, k) \in Seq(Bits) /\ BitsOf(v, 8) \in Seq(Bits)
         /\ BitsOf(hi, 8 - k) \in Seq(Bits) /\ BitsOf(lo, k) \in Seq(Bits) /\ BitsOf(g, 8) \in Seq(Bits)
    <3>1. g \in Nat BY <2>11
    <3>2. QED BY <1>1, <2>2, <2>5, <2>9, <3>1, BytesBitsAre, BitsAre
  <2> DEFINE bh == BitsOf(h, k)  bv == BitsOf(v, 8)  bhi == BitsOf(hi, 8 - k)  blo == BitsOf(lo, k)
             bg == BitsOf(g, 8)  o == BytesBits(out)  more == out \o <<g>>
  <2>17. b = o \o (bh \o bv) /\ bh \o bv \in Seq(Bits) /\ b = (o \o bg) \o blo
    <3>1. /\ o \in Seq(Bits) /\ bh \in Seq(Bits) /\ bv \in Seq(Bits) /\ bhi \in Seq(Bits) /\ blo \in Seq(Bits)
          /\ bg \in Seq(Bits) /\ bv = bhi \o blo /\ bg = bh \o bhi /\ b = (o \o bh) \o bv
      BY <2>2, <2>14, <2>15, <2>16
    <3> HIDE DEF bh, bv, bhi, blo, bg, o, b
    <3>1a. o \in Seq(Bits) /\ bh \in Seq(Bits) /\ bv \in Seq(Bits) BY <3>1
    <3>1b. o \in Seq(Bits) /\ bg \in Seq(Bits) /\ blo \in Seq(Bits) BY <3>1
    <3>2. (o \o bh) \o bv = o \o (bh \o bv) BY ONLY <3>1a, BitsAssoc
    <3>3. bh \o bv \in Seq(Bits) BY <3>1, ConcatProperties
    <3>1c. bh \in Seq(Bits) /\ bhi \in Seq(Bits) /\ blo \in Seq(Bits) BY ONLY <3>1
    <3>4. (bh \o bhi) \o blo = bh \o (bhi \o blo) BY ONLY <3>1c, BitsAssoc
    <3>5. (o \o bg) \o blo = o \o (bg \o blo) BY ONLY <3>1b, BitsAssoc
    <3>6. QED BY <3>1, <3>2, <3>3, <3>4, <3>5
  <2>18. <<g>> \in Seq(Bytes) /\ BytesBits(<<g>>) = bg BY <2>13, BytesBitsOne
  <2>19. more \in Seq(Bytes) /\ BytesBits(more) = o \o bg
    <3>1. more \in Seq(Bytes) BY <1>1, <2>18, ConcatProperties
    <3>2. BytesBits(more) = BytesBits(out) \o BytesBits(<<g>>) BY <1>1, <2>18, BytesBitsJoin
    <3>3. QED BY <2>18, <3>1, <3>2
  <2>20. /\ lo * Pow2(8 - k) \in Bytes
         /\ Sent(WriterOf(lo * Pow2(8 - k), k, more, FALSE), b)
    <3>1. k \in 0..7 /\ lo < Pow2(k) BY <1>1, <2>9 DEF K
    <3>2. b = BytesBits(more) \o BitsOf(lo, k) BY <2>17, <2>19
    <3> HIDE DEF more, b
    <3>3. QED BY <2>9, <2>19, <3>1, <3>2, SentHolding
  <2>21. cache \in Bytes /\ cache = lo * Pow2(8 - k) BY <2>12, <2>20 DEF E
  <2>22. u = WriterOf(cache, k, out, FALSE) BY <2>4 DEF k, out
  <2> HIDE DEF cache, more, b
  <2>23. u \in Writers /\ u.cache = cache /\ u.cacheLen = k /\ u.out = out /\ u.err = FALSE
    BY <1>1, <2>5, <2>21, <2>22 DEF WriterOf, Writers
  <2>24. Flush(u, <<g>>) = WriterOf(cache, k, out, TRUE) \/ Flush(u, <<g>>) = WriterOf(cache, k, more, FALSE)
    BY <2>18, <2>23, FlushIs DEF more
  <2>25. Sent(WriterOf(cache, k, out, TRUE), b) BY <1>1, <2>5, <2>17, <2>21, SentFailing
  <2>26. Sent(WriterOf(cache, k, more, FALSE), b) BY <2>20, <2>21
  <2>27. WriteFullByte(w, v) = Flush(u, <<g>>) BY <2>3, <2>13
  <2>28. QED BY <2>24, <2>25, <2>26, <2>27 DEF b
<1>5. QED BY <1>3, <1>4

-----------------------------------------------------------------------------
\* After an error, what is written behind is lost.
LEMMA SentErr ==
  ASSUME NEW w, NEW a, Sent(w, a), w.err, NEW b \in Seq(Bits)
  PROVE  Sent(w, a \o b)
<1>1. w \in Writers /\ w.out \in Seq(Bytes) /\ a \in Seq(Bits) BY DEF Sent, Writers
<1>2. PICK r \in Seq(Bits) : a = BytesBits(w.out) \o r BY DEF Sent
<1>3. BytesBits(w.out) \in Seq(Bits) BY <1>1, BytesBitsAre
<1>4. (BytesBits(w.out) \o r) \o b = BytesBits(w.out) \o (r \o b) BY <1>3, BitsAssoc
<1>5. r \o b \in Seq(Bits) /\ a \o b \in Seq(Bits) BY <1>1, ConcatProperties
<1>6. a \o b = BytesBits(w.out) \o (r \o b) BY <1>2, <1>4
<1>7. QED BY <1>1, <1>5, <1>6 DEF Sent

\* The writers that were given some bits: those a loop goes through.
Given == {w \in Writers : \E a \in Seq(Bits) : Sent(w, a)}

\* A prefix, and the next element.
LEMMA PrefixNext ==
  ASSUME NEW S, NEW s \in Seq(S), NEW i \in 1..Len(s)
  PROVE  /\ SubSeq(s, 1, i - 1) \in Seq(S) /\ s[i] \in S /\ <<s[i]>> \in Seq(S)
         /\ SubSeq(s, 1, i) = SubSeq(s, 1, i - 1) \o <<s[i]>>
<1> DEFINE p == SubSeq(s, 1, i - 1)  q == SubSeq(s, 1, i)  e == <<s[i]>>
<1>0. Len(s) \in Nat /\ i \in Nat /\ i - 1 \in Nat OBVIOUS
<1>1. s[i] \in S BY ElementOfSeq
<1>2. /\ p \in Seq(S) /\ Len(p) = i - 1 /\ \A j \in 1..i - 1 : p[j] = s[j]
      /\ q \in Seq(S) /\ Len(q) = i /\ \A j \in 1..i : q[j] = s[j]
  BY <1>0, SubSeqProperties
<1>3. e \in Seq(S) /\ Len(e) = 1 /\ e[1] = s[i] BY <1>1
<1> HIDE DEF p, q, e
<1>4. p \o e \in Seq(S) /\ Len(p \o e) = Len(p) + Len(e)
      /\ \A j \in 1..Len(p) + Len(e) : (p \o e)[j] = IF j <= Len(p) THEN p[j] ELSE e[j - Len(p)]
  BY ONLY <1>2, <1>3, ConcatProperties
<1>5. Len(p) + Len(e) = i BY <1>0, <1>2, <1>3
<1>6. ASSUME NEW j \in 1..i PROVE q[j] = (p \o e)[j]
  <2>1. CASE j = i
    <3>1. ~(j <= Len(p)) /\ j - Len(p) = 1 BY <1>0, <1>2, <2>1
    <3>2. QED BY <1>2, <1>3, <1>4, <1>5, <2>1, <3>1
  <2>2. CASE j # i
    <3>1. j \in 1..i - 1 /\ j <= Len(p) BY <1>0, <1>2, <2>2
    <3>2. QED BY <1>2, <1>4, <1>5, <3>1
  <2>3. QED BY <2>1, <2>2
<1>7. q = p \o e BY <1>2, <1>4, <1>5, <1>6, SeqEqual
<1>8. QED BY <1>1, <1>2, <1>3, <1>7 DEF p, q, e

\* A turn of the loops over bits and over bytes.
LEMMA UnlessBitSends ==
  ASSUME NEW w, NEW a, Sent(w, a), NEW bit \in Bits
  PROVE  Sent(Unless(WriteBit, w, bit), a \o <<bit>>)
<1>1. CASE w.err
  <2>1. <<bit>> \in Seq(Bits) OBVIOUS
  <2>2. Sent(w, a \o <<bit>>) BY <1>1, <2>1, SentErr
  <2>3. QED BY <1>1, <2>2 DEF Unless
<1>2. CASE ~w.err
  <2>1. Sent(WriteBit(w, bit), a \o <<bit>>) BY <1>2, WriteBitSends
  <2>2. QED BY <1>2, <2>1 DEF Unless
<1>3. QED BY <1>1, <1>2

\* The same for the loop over bytes.
LEMMA UnlessByteSends ==
  ASSUME NEW w, NEW a, Sent(w, a), NEW v \in Bytes
  PROVE  Sent(Unless(WriteFullByte, w, v), a \o BitsOf(v, 8))
<1>1. CASE w.err
  <2>1. v \in Nat /\ 8 \in Nat BY DEF Bytes
  <2>2. BitsOf(v, 8) \in Seq(Bits) BY <2>1, BitsAre
  <2>3. Sent(w, a \o BitsOf(v, 8)) BY <1>1, <2>2, SentErr
  <2>4. QED BY <1>1, <2>3 DEF Unless
<1>2. CASE ~w.err
  <2>1. Sent(WriteFullByte(w, v), a \o BitsOf(v, 8)) BY <1>2, WriteFullByteSends
  <2>2. QED BY <1>2, <2>1 DEF Unless
<1>3. QED BY <1>1, <1>2

\* The loop over bits: the first are sent after any number of turns.
OneBit(w, e) == Unless(WriteBit, w, e)

\* Each over bits, with an operator that has no operator among its arguments.
LEMMA OneBitLoop ==
  ASSUME NEW w, NEW s
  PROVE  Each(WriteBit, w, s) = LET ws[i \in 0..Len(s)] == IF i = 0 THEN w ELSE OneBit(ws[i - 1], s[i]) IN ws[Len(s)]
BY DEF Each, OneBit

\* All of the bits are sent, or a beginning of them if there is an error.
LEMMA EachBits ==
  ASSUME NEW w, NEW a, Sent(w, a), NEW s \in Seq(Bits)
  PROVE  Sent(Each(WriteBit, w, s), a \o s)
<1> DEFINE N == Len(s)  F == [q \in Given \X (1..N) |-> OneBit(q[1], s[q[2]])]
           ws == CHOOSE f : f = [i \in 0..N |-> IF i = 0 THEN w ELSE OneBit(f[i - 1], s[i])]
<1>0. N \in Nat /\ a \in Seq(Bits) BY DEF Sent
<1>1. ASSUME NEW x \in Given, NEW i \in 1..N PROVE OneBit(x, s[i]) \in Given
  <2>1. PICK b \in Seq(Bits) : Sent(x, b) BY DEF Given
  <2>2. s[i] \in Bits BY ElementOfSeq
  <2>3. \E c : Sent(OneBit(x, s[i]), c) BY <2>1, <2>2, UnlessBitSends DEF OneBit
  <2>4. QED BY <2>3 DEF Given, Sent
<1>2. F \in [Given \X (1..N) -> Given] BY <1>1
<1>3. \A x \in Given, i \in 1..N : F[<<x, i>>] = OneBit(x, s[i]) OBVIOUS
<1>4. w \in Given BY DEF Given, Sent
<1> HIDE DEF F, N
<1>5. PICK g : Iteration(g, Given, w, N, F) BY <1>0, <1>2, <1>4, Iterates
<1>6. ASSUME NEW i \in 0..N PROVE g[i] = IF i = 0 THEN w ELSE OneBit(g[i - 1], s[i])
  <2>1. CASE i = 0 BY <1>5, <2>1 DEF Iteration
  <2>2. CASE i # 0
    <3>1. i \in 1..N /\ i - 1 \in 0..N BY <1>0, <2>2
    <3>2. g[i - 1] \in Given /\ g[i] = F[<<g[i - 1], i>>] BY <1>5, <3>1 DEF Iteration
    <3>3. QED BY <1>3, <2>2, <3>1, <3>2
  <2>3. QED BY <2>1, <2>2
<1>7. g = [i \in 0..N |-> g[i]] BY <1>5 DEF Iteration
<1>8. g = [i \in 0..N |-> IF i = 0 THEN w ELSE OneBit(g[i - 1], s[i])] BY ONLY <1>6, <1>7
<1>9. ws = [i \in 0..N |-> IF i = 0 THEN w ELSE OneBit(ws[i - 1], s[i])] BY <1>8
<1>10. Each(WriteBit, w, s) = ws[N] BY OneBitLoop DEF N
<1> HIDE DEF ws
<1> DEFINE T == {i \in 0..N : Sent(ws[i], a \o SubSeq(s, 1, i))}
<1>11. 0 \in T
  <2>1. 0 \in 0..N BY <1>0
  <2>2. ws[0] = w BY <1>9, <2>1
  <2>3. SubSeq(s, 1, 0) = <<>> OBVIOUS
  <2>4. a \o <<>> = a BY <1>0, ConcatEmptySeq
  <2>5. Sent(ws[0], a \o SubSeq(s, 1, 0)) BY <2>2, <2>3, <2>4
  <2>6. QED BY <2>1, <2>5
<1>12. ASSUME NEW i \in 0..N, i < N, i \in T PROVE i + 1 \in T
  <2>1. i + 1 \in 0..N /\ i + 1 \in 1..N /\ i + 1 # 0 /\ (i + 1) - 1 = i BY <1>0, <1>12
  <2>2. ws[i + 1] = OneBit(ws[i], s[i + 1]) BY <1>9, <2>1
  <2>3. SubSeq(s, 1, i) \in Seq(Bits) /\ s[i + 1] \in Bits /\ <<s[i + 1]>> \in Seq(Bits)
        /\ SubSeq(s, 1, i + 1) = SubSeq(s, 1, i) \o <<s[i + 1]>>
    <3> DEFINE j == i + 1
    <3>1. j \in 1..Len(s) /\ j - 1 = i BY <2>1 DEF N
    <3> HIDE DEF j
    <3>2. SubSeq(s, 1, j - 1) \in Seq(Bits) /\ s[j] \in Bits /\ <<s[j]>> \in Seq(Bits)
          /\ SubSeq(s, 1, j) = SubSeq(s, 1, j - 1) \o <<s[j]>>
      BY <3>1, PrefixNext
    <3>3. QED BY <3>1, <3>2 DEF j
  <2> DEFINE b == a \o SubSeq(s, 1, i)
  <2>4. Sent(ws[i], b) BY <1>12
  <2> HIDE DEF b
  <2>5. Sent(OneBit(ws[i], s[i + 1]), b \o <<s[i + 1]>>) BY <2>3, <2>4, UnlessBitSends DEF OneBit
  <2>6. b \o <<s[i + 1]>> = a \o SubSeq(s, 1, i + 1)
    <3>1. SubSeq(s, 1, i) \in Seq(Bits) /\ <<s[i + 1]>> \in Seq(Bits) BY <2>3
    <3>2. (a \o SubSeq(s, 1, i)) \o <<s[i + 1]>> = a \o (SubSeq(s, 1, i) \o <<s[i + 1]>>)
      BY <1>0, <3>1, BitsAssoc
    <3>3. QED BY <2>3, <3>2 DEF b
  <2>7. Sent(ws[i + 1], a \o SubSeq(s, 1, i + 1)) BY <2>2, <2>5, <2>6
  <2>8. QED BY <2>1, <2>7
<1> HIDE DEF T
<1>13. \A i \in 0..N : i \in T BY <1>0, <1>11, <1>12, UpTo
<1>14. N \in 0..N BY <1>0
<1>15. Sent(ws[N], a \o SubSeq(s, 1, N)) BY <1>13, <1>14 DEF T
<1>16. SubSeq(s, 1, N) = s BY DEF N
<1>17. QED BY <1>10, <1>15, <1>16

\* The loop over bytes: the first are sent after any number of turns.
OneByte(w, e) == Unless(WriteFullByte, w, e)

\* Each over bytes, with an operator that has no operator among its arguments.
LEMMA OneByteLoop ==
  ASSUME NEW w, NEW s
  PROVE  Each(WriteFullByte, w, s) = LET ws[i \in 0..Len(s)] == IF i = 0 THEN w ELSE OneByte(ws[i - 1], s[i]) IN ws[Len(s)]
BY DEF Each, OneByte

\* All of the bytes are sent, or a beginning of them if there is an error.
LEMMA EachBytes ==
  ASSUME NEW w, NEW a, Sent(w, a), NEW s \in Seq(Bytes)
  PROVE  Sent(Each(WriteFullByte, w, s), a \o BytesBits(s))
<1> DEFINE N == Len(s)  F == [q \in Given \X (1..N) |-> OneByte(q[1], s[q[2]])]
           ws == CHOOSE f : f = [i \in 0..N |-> IF i = 0 THEN w ELSE OneByte(f[i - 1], s[i])]
<1>0. N \in Nat /\ a \in Seq(Bits) BY DEF Sent
<1>1. ASSUME NEW x \in Given, NEW i \in 1..N PROVE OneByte(x, s[i]) \in Given
  <2>1. PICK b \in Seq(Bits) : Sent(x, b) BY DEF Given
  <2>2. s[i] \in Bytes BY ElementOfSeq
  <2>3. \E c : Sent(OneByte(x, s[i]), c) BY <2>1, <2>2, UnlessByteSends DEF OneByte
  <2>4. QED BY <2>3 DEF Given, Sent
<1>2. F \in [Given \X (1..N) -> Given] BY <1>1
<1>3. \A x \in Given, i \in 1..N : F[<<x, i>>] = OneByte(x, s[i]) OBVIOUS
<1>4. w \in Given BY DEF Given, Sent
<1> HIDE DEF F, N
<1>5. PICK g : Iteration(g, Given, w, N, F) BY <1>0, <1>2, <1>4, Iterates
<1>6. ASSUME NEW i \in 0..N PROVE g[i] = IF i = 0 THEN w ELSE OneByte(g[i - 1], s[i])
  <2>1. CASE i = 0 BY <1>5, <2>1 DEF Iteration
  <2>2. CASE i # 0
    <3>1. i \in 1..N /\ i - 1 \in 0..N BY <1>0, <2>2
    <3>2. g[i - 1] \in Given /\ g[i] = F[<<g[i - 1], i>>] BY <1>5, <3>1 DEF Iteration
    <3>3. QED BY <1>3, <2>2, <3>1, <3>2
  <2>3. QED BY <2>1, <2>2
<1>7. g = [i \in 0..N |-> g[i]] BY <1>5 DEF Iteration
<1>8. g = [i \in 0..N |-> IF i = 0 THEN w ELSE OneByte(g[i - 1], s[i])] BY ONLY <1>6, <1>7
<1>9. ws = [i \in 0..N |-> IF i = 0 THEN w ELSE OneByte(ws[i - 1], s[i])] BY <1>8
<1>10. Each(WriteFullByte, w, s) = ws[N] BY OneByteLoop DEF N
<1> HIDE DEF ws
<1> DEFINE T == {i \in 0..N : Sent(ws[i], a \o BytesBits(SubSeq(s, 1, i)))}
<1>11. 0 \in T
  <2>1. 0 \in 0..N BY <1>0
  <2>2. ws[0] = w BY <1>9, <2>1
  <2>3. BytesBits(SubSeq(s, 1, 0)) = <<>>
    <3>1. SubSeq(s, 1, 0) = <<>> OBVIOUS
    <3>2. QED BY <3>1, BytesBitsOne
  <2>4. a \o <<>> = a BY <1>0, ConcatEmptySeq
  <2>5. Sent(ws[0], a \o BytesBits(SubSeq(s, 1, 0))) BY <2>2, <2>3, <2>4
  <2>6. QED BY <2>1, <2>5
<1>12. ASSUME NEW i \in 0..N, i < N, i \in T PROVE i + 1 \in T
  <2>1. i + 1 \in 0..N /\ i + 1 \in 1..N /\ i + 1 # 0 /\ (i + 1) - 1 = i BY <1>0, <1>12
  <2>2. ws[i + 1] = OneByte(ws[i], s[i + 1]) BY <1>9, <2>1
  <2>3. SubSeq(s, 1, i) \in Seq(Bytes) /\ s[i + 1] \in Bytes /\ <<s[i + 1]>> \in Seq(Bytes)
        /\ SubSeq(s, 1, i + 1) = SubSeq(s, 1, i) \o <<s[i + 1]>>
    <3> DEFINE j == i + 1
    <3>1. j \in 1..Len(s) /\ j - 1 = i BY <2>1 DEF N
    <3> HIDE DEF j
    <3>2. SubSeq(s, 1, j - 1) \in Seq(Bytes) /\ s[j] \in Bytes /\ <<s[j]>> \in Seq(Bytes)
          /\ SubSeq(s, 1, j) = SubSeq(s, 1, j - 1) \o <<s[j]>>
      BY <3>1, PrefixNext
    <3>3. QED BY <3>1, <3>2 DEF j
  <2> DEFINE b == a \o BytesBits(SubSeq(s, 1, i))
  <2>4. Sent(ws[i], b) BY <1>12
  <2> HIDE DEF b
  <2>5. Sent(OneByte(ws[i], s[i + 1]), b \o BitsOf(s[i + 1], 8)) BY <2>3, <2>4, UnlessByteSends DEF OneByte
  <2>6. b \o BitsOf(s[i + 1], 8) = a \o BytesBits(SubSeq(s, 1, i + 1))
    <3> DEFINE p == BytesBits(SubSeq(s, 1, i))
           q == BitsOf(s[i + 1], 8)
    <3>1. p \in Seq(Bits) BY <2>3, BytesBitsAre
    <3>2. q \in Seq(Bits)
      <4> DEFINE e == s[i + 1]
      <4>1. e \in Bytes BY <2>3
      <4> HIDE DEF e
      <4>2. e \in Nat /\ 8 \in Nat BY <4>1 DEF Bytes
      <4>3. QED BY <4>2, BitsAre DEF e
    <3>3. BytesBits(SubSeq(s, 1, i + 1)) = p \o q
      <4>1. BytesBits(<<s[i + 1]>>) = q BY <2>3, BytesBitsOne
      <4> DEFINE x == SubSeq(s, 1, i)  y == <<s[i + 1]>>
      <4>2. x \in Seq(Bytes) /\ y \in Seq(Bytes) /\ SubSeq(s, 1, i + 1) = x \o y BY <2>3
      <4> HIDE DEF x, y
      <4>3. BytesBits(x \o y) = BytesBits(x) \o BytesBits(y) BY <4>2, BytesBitsJoin
      <4>4. QED BY <4>1, <4>2, <4>3 DEF x, y
    <3> HIDE DEF p, q
    <3>4. (a \o p) \o q = a \o (p \o q) BY <1>0, <3>1, <3>2, BitsAssoc
    <3>5. QED BY <3>3, <3>4 DEF b, p, q
  <2>7. Sent(ws[i + 1], a \o BytesBits(SubSeq(s, 1, i + 1))) BY <2>2, <2>5, <2>6
  <2>8. QED BY <2>1, <2>7
<1> HIDE DEF T
<1>13. \A i \in 0..N : i \in T BY <1>0, <1>11, <1>12, UpTo
<1>14. N \in 0..N BY <1>0
<1>15. Sent(ws[N], a \o BytesBits(SubSeq(s, 1, N))) BY <1>13, <1>14 DEF T
<1>16. SubSeq(s, 1, N) = s BY DEF N
<1>17. QED BY <1>10, <1>15, <1>16

\* A slice is sent, at once or a byte at a time.
LEMMA WriteByteSliceSends ==
  ASSUME NEW w, NEW a, Sent(w, a), ~w.err, NEW bs \in Seq(Bytes)
  PROVE  Sent(WriteByteSlice(w, bs), a \o BytesBits(bs))
<1>1. CASE w.cacheLen = 0
  <2>1. Sent(Flush(w, bs), a \o BytesBits(bs)) BY <1>1, FlushSends
  <2>2. QED BY <1>1, <2>1 DEF WriteByteSlice
<1>2. CASE w.cacheLen # 0
  <2>1. Sent(Each(WriteFullByte, w, bs), a \o BytesBits(bs)) BY EachBytes
  <2>2. WriteByteSlice(w, bs) = Each(WriteFullByte, w, bs) BY <1>2 DEF WriteByteSlice
  <2>3. QED BY <2>1, <2>2
<1>3. QED BY <1>1, <1>2

\* The first n bytes, or all of them and the padding, are sent.
Padded(bs, n, pad) == [k \in 1..n |-> IF k <= Len(bs) THEN bs[k] ELSE pad]

\* WriteBytesN sends the bytes and their padding, or a beginning of them.
LEMMA WriteBytesNSends ==
  ASSUME NEW w, NEW a, Sent(w, a), ~w.err, NEW bs \in Seq(Bytes), NEW n \in Nat, NEW pad \in Bytes
  PROVE  Sent(WriteBytesN(w, bs, n, pad), a \o BytesBits(Padded(bs, n, pad)))
<1> DEFINE p == Padded(bs, n, pad)
<1>0. Len(bs) \in Nat /\ a \in Seq(Bits) BY DEF Sent
<1>1. p \in Seq(Bytes) /\ Len(p) = n /\ \A k \in 1..n : p[k] = IF k <= Len(bs) THEN bs[k] ELSE pad
  <2>1. ASSUME NEW k \in 1..n PROVE (IF k <= Len(bs) THEN bs[k] ELSE pad) \in Bytes
    <3>1. CASE k <= Len(bs)
      <4>1. k \in 1..Len(bs) BY <1>0, <3>1
      <4>2. bs[k] \in Bytes BY <4>1, ElementOfSeq
      <4>3. QED BY <3>1, <4>2
    <3>2. QED BY <3>1
  <2>2. p \in [1..n -> Bytes] BY <2>1 DEF Padded
  <2>3. \A k \in 1..n : p[k] = IF k <= Len(bs) THEN bs[k] ELSE pad BY DEF Padded
  <2> HIDE DEF p
  <2>4. p \in Seq(Bytes) /\ Len(p) = n BY <2>2
  <2>5. QED BY <2>3, <2>4
<1> HIDE DEF p
<1>2. CASE Len(bs) >= n
  <2> DEFINE q == SubSeq(bs, 1, n)
  <2>1. q \in Seq(Bytes) /\ Len(q) = n /\ \A k \in 1..n : q[k] = bs[k] BY <1>0, <1>2, SubSeqProperties
  <2>2. WriteBytesN(w, bs, n, pad) = WriteByteSlice(w, q) BY <1>2 DEF WriteBytesN
  <2> HIDE DEF q
  <2>3. \A k \in 1..n : k <= Len(bs) BY <1>0, <1>2
  <2>4. \A k \in 1..n : p[k] = q[k] BY <1>1, <2>1, <2>3
  <2>5. p = q BY <1>1, <2>1, <2>4, SeqEqual
  <2>6. Sent(WriteByteSlice(w, q), a \o BytesBits(q)) BY <2>1, WriteByteSliceSends
  <2>7. QED BY <2>2, <2>5, <2>6 DEF p
<1>3. CASE ~(Len(bs) >= n)
  <2> DEFINE len == n - Len(bs)  q == [i \in 1..len |-> pad]  v == WriteByteSlice(w, bs)
  <2>1. len \in Nat BY <1>0, <1>3
  <2>2. q \in [1..len -> Bytes] /\ \A k \in 1..len : q[k] = pad OBVIOUS
  <2>3. WriteBytesN(w, bs, n, pad) = IF v.err THEN v ELSE Each(WriteFullByte, v, q) BY <1>3 DEF WriteBytesN
  <2> HIDE DEF q, v
  <2>4. q \in Seq(Bytes) /\ Len(q) = len
    <3> HIDE DEF len
    <3>1. QED BY <2>1, <2>2
  <2>5. Sent(v, a \o BytesBits(bs)) BY WriteByteSliceSends DEF v
  <2> DEFINE b == BytesBits(bs)  c == BytesBits(q)
  <2>6. b \in Seq(Bits) /\ c \in Seq(Bits) BY <2>4, BytesBitsAre
  <2>7. p = bs \o q
    <3>1. bs \o q \in Seq(Bytes) /\ Len(bs \o q) = Len(bs) + Len(q)
          /\ \A k \in 1..Len(bs) + Len(q) : (bs \o q)[k] = IF k <= Len(bs) THEN bs[k] ELSE q[k - Len(bs)]
      BY ONLY bs \in Seq(Bytes), <2>4, ConcatProperties
    <3>2. Len(bs) + Len(q) = n BY <1>0, <2>4
    <3>3. ASSUME NEW k \in 1..n PROVE p[k] = (bs \o q)[k]
      <4>1. CASE k <= Len(bs) BY <1>1, <3>1, <3>2, <4>1
      <4>2. CASE ~(k <= Len(bs))
        <5>1. k - Len(bs) \in 1..len BY <1>0, <4>2
        <5>2. q[k - Len(bs)] = pad BY <2>2, <5>1
        <5>3. QED BY <1>1, <3>1, <3>2, <4>2, <5>2
      <4>3. QED BY <4>1, <4>2
    <3>4. QED BY <1>1, <3>1, <3>2, <3>3, SeqEqual
  <2>8. BytesBits(p) = b \o c BY <2>4, <2>7, BytesBitsJoin
  <2>9. (a \o b) \o c = a \o (b \o c) BY <1>0, <2>6, BitsAssoc
  <2>10. CASE v.err
    <3>1. Sent(v, (a \o b) \o c) BY <2>5, <2>6, <2>10, SentErr
    <3>2. QED BY <2>3, <2>8, <2>9, <2>10, <3>1 DEF p
  <2>11. CASE ~v.err
    <3>1. Sent(Each(WriteFullByte, v, q), (a \o b) \o c) BY <2>4, <2>5, EachBytes
    <3>2. WriteBytesN(w, bs, n, pad) = Each(WriteFullByte, v, q) BY <2>3, <2>11
    <3>3. QED BY <2>8, <2>9, <3>1, <3>2 DEF p
  <2>12. QED BY <2>10, <2>11
<1>4. QED BY <1>2, <1>3

\* After a byte that was completed, there is an error or no bit in the cache.
LEMMA FlushEmpties ==
  ASSUME NEW cache, NEW out, NEW err
  PROVE  LET f == FlushCache(WriterOf(cache, 8, out, err)) IN f.err \/ f.cacheLen = 0
<1> DEFINE u == WriterOf(cache, 8, out, err)  f == Flush(u, <<u.cache>>)
<1>1. f = [u EXCEPT !.err = TRUE] \/ f = [u EXCEPT !.out = @ \o <<u.cache>>] BY DEF Flush
<1> HIDE DEF f
<1>2. f = [cache |-> f.cache, cacheLen |-> f.cacheLen, out |-> f.out, err |-> f.err] BY <1>1 DEF WriterOf
<1>3. FlushCache(u) = IF f.err THEN f ELSE [f EXCEPT !.cache = 0, !.cacheLen = 0] BY DEF FlushCache, f
<1> HIDE DEF u
<1> DEFINE g == [f EXCEPT !.cache = 0, !.cacheLen = 0]
<1>4. g.cacheLen = 0 BY <1>2
<1> HIDE DEF g
<1>5. f.err \/ FlushCache(u) = g BY <1>3 DEF g
<1>6. ~f.err \/ FlushCache(u) = f BY <1>3
<1>7. QED BY <1>4, <1>5, <1>6 DEF u

\* The same when p completes the byte.
LEMMA PutEmpties ==
  ASSUME NEW w \in Writers, NEW p, NEW n, w.cacheLen + n = 8
  PROVE  PutAndFlush(w, p, n).err \/ PutAndFlush(w, p, n).cacheLen = 0
<1> DEFINE cache == w.cache + p * Pow2(8 - w.cacheLen - n)
<1>1. PutBits(w, p, n) = WriterOf(cache, 8, w.out, w.err) BY PutIs
<1> HIDE DEF cache
<1>2. PutBits(w, p, n).cacheLen = 8 BY <1>1 DEF WriterOf
<1>3. PutAndFlush(w, p, n) = FlushCache(WriterOf(cache, 8, w.out, w.err)) BY <1>1, <1>2 DEF PutAndFlush
<1>4. QED BY <1>3, FlushEmpties

\* A turn of the loop of writeBitsN leaves fewer bits, sends those it takes, and
\* leaves none in the cache, unless it is the last.
Turned(n, y, v, a) ==
  /\ y = [w |-> y.w, n |-> y.n] /\ y.n \in 0..n - 1
  /\ Sent(y.w, a \o BitsOf(v \div Pow2(y.n), n - y.n))
  /\ y.n # 0 /\ ~y.w.err => y.w.cacheLen = 0

\* A turn that writes a whole byte.
LEMMA TurnByte ==
  ASSUME NEW w, NEW a, Sent(w, a), ~w.err, NEW n \in Nat, NEW v \in Nat, w.cacheLen = 0, n >= 8
  PROVE  Turned(n, Turn([w |-> w, n |-> n], v), v, a)
<1> DEFINE q == v \div Pow2(n - 8)  b == Byte(q)  f == Flush(w, <<b>>)  y == [w |-> f, n |-> n - 8]
<1>0. n - 8 \in Nat /\ n - (n - 8) = 8 /\ 8 \in Nat OBVIOUS
<1>1. Turn([w |-> w, n |-> n], v) = y BY DEF Turn
<1>2. q \in Nat
  <2> DEFINE d == Pow2(n - 8)
  <2>1. d \in Nat /\ d > 0 BY <1>0, Pow2Positive
  <2> HIDE DEF d
  <2>2. v \div d \in Nat BY <2>1, DivOf
  <2>3. QED BY <2>2 DEF d
<1> HIDE DEF q
<1>3. b \in Bytes /\ BitsOf(b, 8) = BitsOf(q, 8)
  <2>1. b = q % Pow2(8) BY Pow2Byte DEF Byte
  <2>2. b \in Bytes BY <1>2 DEF Byte, Bytes
  <2>3. QED BY <1>0, <1>2, <2>1, <2>2, BitsLow
<1> HIDE DEF b
<1>4. <<b>> \in Seq(Bytes) /\ BytesBits(<<b>>) = BitsOf(q, 8) BY <1>3, BytesBitsOne
<1>5. Sent(f, a \o BitsOf(q, 8))
  <2>1. Sent(f, a \o BytesBits(<<b>>)) BY <1>4, FlushSends
  <2>2. QED BY <1>4, <2>1
<1>6. f.err \/ f.cacheLen = 0
  <2>1. w \in Writers BY DEF Sent
  <2>2. f = WriterOf(w.cache, w.cacheLen, w.out, TRUE) \/ f = WriterOf(w.cache, w.cacheLen, w.out \o <<b>>, w.err)
    BY <1>4, <2>1, FlushIs
  <2> HIDE DEF f
  <2>3. CASE f = WriterOf(w.cache, w.cacheLen, w.out, TRUE) BY <2>3 DEF WriterOf
  <2>4. CASE f = WriterOf(w.cache, w.cacheLen, w.out \o <<b>>, w.err) BY <2>4 DEF WriterOf
  <2>5. QED BY <2>2, <2>3, <2>4
<1> HIDE DEF f
<1>7. y.w = f /\ y.n = n - 8 /\ y = [w |-> y.w, n |-> y.n] /\ y.n \in 0..n - 1 BY <1>0
<1> HIDE DEF y
<1>8. BitsOf(v \div Pow2(y.n), n - y.n) = BitsOf(q, 8) BY <1>0, <1>7 DEF q
<1>9. Turned(n, y, v, a) BY <1>5, <1>6, <1>7, <1>8 DEF Turned
<1>10. QED BY <1>1, <1>9

\* The last bits, and those that complete a byte, are put behind the cache.
LEMMA TurnedByPut ==
  ASSUME NEW w, NEW a, Sent(w, a), ~w.err, NEW n \in Nat, NEW v \in Nat, NEW len \in 1..n, len <= 8 - w.cacheLen,
         NEW p \in Nat, p < Pow2(len), BitsOf(p, len) = BitsOf(v \div Pow2(n - len), len),
         n = len \/ w.cacheLen + len = 8
  PROVE  Turned(n, [w |-> PutAndFlush(w, p, len), n |-> n - len], v, a)
<1> DEFINE u == PutAndFlush(w, p, len)  y == [w |-> u, n |-> n - len]
<1>0. len \in Nat /\ n - len \in 0..n - 1 /\ n - (n - len) = len /\ w \in Writers BY DEF Sent
<1>1. Sent(u, a \o BitsOf(p, len)) BY <1>0, PutSends
<1>2. n - len # 0 => u.err \/ u.cacheLen = 0
  <2> SUFFICES ASSUME n - len # 0 PROVE u.err \/ u.cacheLen = 0 OBVIOUS
  <2>1. w.cacheLen + len = 8 BY <1>0
  <2>2. QED BY <1>0, <2>1, PutEmpties
<1> HIDE DEF u
<1>3. y.w = u /\ y.n = n - len /\ y = [w |-> y.w, n |-> y.n] OBVIOUS
<1> HIDE DEF y
<1>4. BitsOf(v \div Pow2(y.n), n - y.n) = BitsOf(p, len) BY <1>0, <1>3
<1>5. Turned(n, y, v, a) BY <1>0, <1>1, <1>2, <1>3, <1>4 DEF Turned
<1>6. QED BY <1>5 DEF y, u

\* A writer whose cache is replaced.
LEMMA ReplaceCache ==
  ASSUME NEW cache, NEW cacheLen, NEW out, NEW err, NEW x
  PROVE  [WriterOf(cache, cacheLen, out, err) EXCEPT !.cache = x] = WriterOf(x, cacheLen, out, err)
BY DEF WriterOf

\* A turn that keeps the last bits in an empty cache.
LEMMA TurnKeep ==
  ASSUME NEW w, NEW a, Sent(w, a), ~w.err, NEW n \in 1..7, NEW v \in Nat, w.cacheLen = 0
  PROVE  Turned(n, Turn([w |-> w, n |-> n], v), v, a)
<1> DEFINE d == Pow2(n)  E == Pow2(8 - n)  p == v % d  q == v \div d
<1>0. n \in Nat /\ n \in 0..8 /\ 8 - n \in Nat /\ n \in 1..n /\ n - n = 0 /\ ~(n >= 8) /\ n <= 8 - 0 OBVIOUS
<1>1. d \in Nat /\ d > 0 /\ E \in Nat /\ E > 0 /\ d * E = 256 BY <1>0, Pow2Rest
<1> HIDE DEF E
<1>2. p \in Nat /\ p < d /\ q \in Nat /\ v = q * d + p
  <2> HIDE DEF d
  <2>1. QED BY <1>1, DivOf
<1>3. BitsOf(p, n) = BitsOf(v, n) BY <1>0, BitsLow
<1> HIDE DEF p, q, d
<1>4. Byte(v * E) = p * E /\ p * E \in Nat
  <2> DEFINE x == p * E  z == v * E
  <2>1. (q * d + p) * E = q * (d * E) + p * E BY <1>1, <1>2, Z3
  <2>2. z = q * 256 + x BY <1>1, <1>2, <2>1
  <2>3. p + 1 <= d BY <1>1, <1>2
  <2>4. (p + 1) * E <= d * E BY <1>1, <1>2, <2>3, Z3
  <2>5. (p + 1) * E = x + E BY <1>1, <1>2, Z3
  <2>6. x \in Nat /\ z \in Nat BY <1>1, <1>2, Z3
  <2> HIDE DEF x, z
  <2>7. x < 256 BY <1>1, <2>4, <2>5, <2>6
  <2>8. z % 256 = x BY <1>2, <2>2, <2>6, <2>7, DivIs
  <2>9. QED BY <2>6, <2>8 DEF Byte, x, z
<1>5. w \in Writers /\ w.cache = 0 /\ w.err = FALSE
  <2>1. w \in Writers /\ w.err = FALSE BY DEF Sent, Writers
  <2>2. PICK h : Holds(w, a, h) BY DEF Sent
  <2>3. h \in Nat /\ h < 1 /\ w.cache = h * 256
    <3>1. 8 - 0 = 8 OBVIOUS
    <3>2. QED BY <2>2, <3>1, Pow2Byte DEF Holds
  <2>4. QED BY <2>1, <2>3
<1>6. Turn([w |-> w, n |-> n], v) = [w |-> [w EXCEPT !.cacheLen = n, !.cache = p * E], n |-> 0]
  BY <1>0, <1>4 DEF Turn, E
<1>7. PutAndFlush(w, p, n) = WriterOf(p * E, n, w.out, FALSE)
  <2>1. PutBits(w, p, n) = WriterOf(w.cache + p * Pow2(8 - w.cacheLen - n), w.cacheLen + n, w.out, w.err) BY <1>5, PutIs
  <2>2. 8 - 0 - n = 8 - n /\ 0 + n = n OBVIOUS
  <2>3. w.cache + p * E = p * E
    <3> DEFINE x == p * E
    <3>1. x \in Nat BY <1>4
    <3> HIDE DEF x
    <3>2. w.cache + x = x BY <1>5, <3>1
    <3>3. QED BY <3>2 DEF x
  <2>4. PutBits(w, p, n) = WriterOf(p * E, n, w.out, FALSE) BY <1>5, <2>1, <2>2, <2>3 DEF E
  <2>5. PutBits(w, p, n).cacheLen # 8 BY <1>0, <2>4 DEF WriterOf
  <2>6. QED BY <2>4, <2>5 DEF PutAndFlush
<1>8. [w EXCEPT !.cacheLen = n, !.cache = p * E] = WriterOf(p * E, n, w.out, FALSE)
  <2> DEFINE x == p * E  t == [w EXCEPT !.cacheLen = n]  u == [t EXCEPT !.cache = x]
  <2> HIDE DEF x
  <2>1. t.cache = w.cache /\ t.cacheLen = n /\ t.out = w.out /\ t.err = w.err
        /\ t = WriterOf(t.cache, t.cacheLen, t.out, t.err)
    BY <1>5 DEF Writers, WriterOf
  <2>2. [w EXCEPT !.cacheLen = n, !.cache = x] = u OBVIOUS
  <2> HIDE DEF t, u
  <2>3. t = WriterOf(w.cache, n, w.out, w.err) BY <2>1
  <2>4. [WriterOf(w.cache, n, w.out, w.err) EXCEPT !.cache = x] = WriterOf(x, n, w.out, w.err)
    BY ReplaceCache
  <2>5. QED BY <1>5, <2>2, <2>3, <2>4 DEF u, x
<1>9. v \div Pow2(n - n) = v BY <1>0, Pow2Byte
<1>10. p < Pow2(n) BY <1>2 DEF d
<1>11. BitsOf(p, n) = BitsOf(v \div Pow2(n - n), n) BY <1>3, <1>9
<1>12. Turned(n, [w |-> PutAndFlush(w, p, n), n |-> n - n], v, a) BY <1>0, <1>2, <1>10, <1>11, TurnedByPut
<1>13. QED BY <1>0, <1>6, <1>7, <1>8, <1>12

\* The turn that adds to a cache that has bits, when the part added is p shifted.
TurnPuts(w, n, v, p, len) == Turn([w |-> w, n |-> n], v) = [w |-> PutAndFlush(w, p, len), n |-> n - len]
PartIs(w, n, v, p, len) ==
  /\ w.cacheLen # 0
  /\ len = IF n < 8 - w.cacheLen THEN n ELSE 8 - w.cacheLen
  /\ p * Pow2(8 - w.cacheLen - len) = IF n <= 8 - w.cacheLen THEN Byte(v * Pow2(8 - w.cacheLen - len))
                                      ELSE Byte(v \div Pow2(n - len))

\* Such a turn puts p and flushes the byte if it is complete.
LEMMA TurnIsPut ==
  ASSUME NEW w, NEW n, NEW v, NEW p, NEW len, PartIs(w, n, v, p, len)
  PROVE  TurnPuts(w, n, v, p, len)
<1> USE DEF PartIs, TurnPuts
<1> DEFINE x == [w |-> w, n |-> n]  free == 8 - w.cacheLen
           part == IF n <= free THEN Byte(v * Pow2(free - len)) ELSE Byte(v \div Pow2(n - len))
           u == [w EXCEPT !.cache = @ + part, !.cacheLen = @ + len]
<1>1. x.w = w /\ x.n = n OBVIOUS
<1> HIDE DEF x
<1>2. Turn(x, v) = [w |-> IF u.cacheLen = 8 THEN FlushCache(u) ELSE u, n |-> n - len] BY <1>1 DEF Turn
<1>3. u = PutBits(w, p, len) BY DEF PutBits
<1> HIDE DEF u
<1>4. PutAndFlush(w, p, len) = IF u.cacheLen = 8 THEN FlushCache(u) ELSE u BY <1>3 DEF PutAndFlush
<1>5. QED BY <1>2, <1>4 DEF x

\* A turn that adds to a cache that has bits.
LEMMA TurnFill ==
  ASSUME NEW w, NEW a, Sent(w, a), ~w.err, NEW n \in Nat \ {0}, NEW v \in Nat, w.cacheLen # 0, v < Pow2(n)
  PROVE  Turned(n, Turn([w |-> w, n |-> n], v), v, a)
<1> DEFINE k == w.cacheLen  free == 8 - k
<1>0. k \in 1..7 /\ free \in 1..7 /\ free \in 0..8 /\ free \in Nat /\ n \in Nat BY DEF Sent
<1> DEFINE F == Pow2(free)
<1>1. F \in Nat /\ F > 0 /\ F <= 256
  <2> DEFINE E == Pow2(8 - free)
  <2>1. F \in Nat /\ F > 0 /\ E \in Nat /\ E > 0 /\ F * E = 256 BY <1>0, Pow2Rest
  <2> HIDE DEF F, E
  <2>2. F * 1 <= F * E
    <3>1. 1 <= E BY <2>1
    <3>2. QED BY <2>1, <3>1, Z3
  <2>3. QED BY <2>1, <2>2
<1>2. CASE n <= free
  <2> DEFINE D == Pow2(free - n)  N == Pow2(n)  z == v * D
  <2>1. free - n \in Nat /\ n + (free - n) = free /\ n \in 1..n /\ n - n = 0 BY <1>0, <1>2
  <2>2. D \in Nat /\ D > 0 /\ N \in Nat /\ N > 0 /\ F = N * D BY <1>0, <2>1, Pow2Positive, Pow2Sum
  <2>3. v < N OBVIOUS
  <2> HIDE DEF D, N, F
  <2>4. z \in Nat /\ z < 256
    <3>1. v + 1 <= N BY <2>2, <2>3
    <3>2. (v + 1) * D <= N * D BY <2>2, <3>1, Z3
    <3>3. (v + 1) * D = z + D BY <2>2, Z3
    <3>4. z \in Nat BY <2>2, Z3
    <3> HIDE DEF z
    <3>5. QED BY <1>1, <2>2, <3>2, <3>3, <3>4
  <2> HIDE DEF z
  <2>5. Byte(z) = z BY <2>4 DEF Byte
  <2>6. n = IF n < free THEN n ELSE free BY <1>0, <1>2
  <2>7. Turn([w |-> w, n |-> n], v) = [w |-> PutAndFlush(w, v, n), n |-> n - n]
    <3>1. v * Pow2(free - n) = IF n <= free THEN Byte(v * Pow2(free - n)) ELSE Byte(v \div Pow2(n - n))
      BY <1>2, <2>5 DEF z, D
    <3>2. PartIs(w, n, v, v, n) BY <1>0, <2>6, <3>1 DEF PartIs
    <3>3. QED BY <3>2, TurnIsPut DEF TurnPuts
  <2>8. v \div Pow2(n - n) = v BY <2>1, Pow2Byte
  <2>9. BitsOf(v, n) = BitsOf(v \div Pow2(n - n), n) BY <2>8
  <2>10. v < Pow2(n) OBVIOUS
  <2>11. Turned(n, [w |-> PutAndFlush(w, v, n), n |-> n - n], v, a)
    BY <1>0, <1>2, <2>1, <2>9, <2>10, TurnedByPut
  <2>12. QED BY <2>7, <2>11
<1>3. CASE ~(n <= free)
  <2> DEFINE D == Pow2(n - free)  N == Pow2(n)  p == v \div D  r == v % D
  <2>1. n - free \in Nat /\ (n - free) + free = n /\ free \in 1..n /\ free - free = 0 /\ k + free = 8 BY <1>0, <1>3
  <2>2. D \in Nat /\ D > 0 /\ N \in Nat /\ N > 0 /\ N = D * F BY <1>0, <2>1, Pow2Positive, Pow2Sum
  <2>3. v < N OBVIOUS
  <2> HIDE DEF D, N
  <2>4. p \in Nat /\ r \in Nat /\ v = p * D + r BY <2>2, DivOf
  <2> HIDE DEF p, r
  <2>5. p < F
    <3> HIDE DEF F
    <3> SUFFICES ASSUME p >= F PROVE FALSE BY <1>1, <2>4
    <3>1. p * D >= F * D BY <1>1, <2>2, <2>4, Z3
    <3>2. F * D = D * F BY <1>1, <2>2, Z3
    <3> DEFINE x == p * D  y == F * D
    <3>3. x \in Nat /\ y \in Nat /\ x >= y /\ v = x + r /\ y = N BY <1>1, <2>2, <2>4, <3>1, <3>2, Z3
    <3> HIDE DEF x, y
    <3>4. QED BY <2>3, <2>4, <3>3
  <2>6. Byte(p) = p
    <3> HIDE DEF F
    <3>1. p < 256 BY <1>1, <2>4, <2>5
    <3>2. QED BY <2>4, <3>1 DEF Byte
  <2>7. p * Pow2(free - free) = p BY <2>1, <2>4, Pow2Byte
  <2>8. free = IF n < free THEN n ELSE free BY <1>0, <1>3
  <2>9. Turn([w |-> w, n |-> n], v) = [w |-> PutAndFlush(w, p, free), n |-> n - free]
    <3>1. p * Pow2(free - free) = IF n <= free THEN Byte(v * Pow2(free - free)) ELSE Byte(v \div Pow2(n - free))
      BY <1>3, <2>6, <2>7 DEF p, D
    <3>2. PartIs(w, n, v, p, free) BY <1>0, <2>8, <3>1 DEF PartIs
    <3>3. QED BY <3>2, TurnIsPut DEF TurnPuts
  <2>10. BitsOf(p, free) = BitsOf(v \div Pow2(n - free), free) BY DEF p, D
  <2>11. free <= 8 - k /\ p < Pow2(free) BY <1>0, <2>5
  <2>12. Turned(n, [w |-> PutAndFlush(w, p, free), n |-> n - free], v, a)
    BY <1>0, <2>1, <2>4, <2>10, <2>11, TurnedByPut
  <2>13. QED BY <2>9, <2>12
<1>4. QED BY <1>2, <1>3

\* Every turn does what Turned says.
LEMMA TurnSends ==
  ASSUME NEW w, NEW a, Sent(w, a), ~w.err, NEW n \in Nat \ {0}, NEW v \in Nat, w.cacheLen # 0 => v < Pow2(n)
  PROVE  Turned(n, Turn([w |-> w, n |-> n], v), v, a)
<1>1. CASE w.cacheLen # 0 BY <1>1, TurnFill
<1>2. CASE w.cacheLen = 0 /\ n >= 8
  <2>1. n \in Nat OBVIOUS
  <2>2. QED BY <1>2, <2>1, TurnByte
<1>3. CASE w.cacheLen = 0 /\ ~(n >= 8)
  <2>1. n \in 1..7 BY <1>3
  <2>2. QED BY <1>3, <2>1, TurnKeep
<1>4. QED BY <1>1, <1>2, <1>3

\* What the loop of writeBitsN goes through: a writer, and how many of the last bits of v are left;
\* bits are in the cache only while v has no more than those.
Loops(v) == {x \in [w : Writers, n : Nat] :
               /\ \E a : Sent(x.w, a)
               /\ x.n # 0 /\ ~x.w.err /\ x.w.cacheLen # 0 => v < Pow2(x.n)}

\* A turn, or none after the last one or an error.
LEMMA NextTurnSends ==
  ASSUME NEW v \in Nat, NEW x \in Loops(v), NEW a, Sent(x.w, a), NEW y, y = NextTurn(x, v)
  PROVE  /\ y \in Loops(v) /\ y.n <= x.n
         /\ Sent(y.w, a \o BitsOf(v \div Pow2(y.n), x.n - y.n))
         /\ (y.n < x.n \/ y.n = 0 \/ y.w.err)
<1> DEFINE w == x.w  n == x.n
<1>0. w \in Writers /\ n \in Nat /\ x = [w |-> w, n |-> n] /\ a \in Seq(Bits) BY DEF Loops, Sent
<1>1. CASE x.n = 0 \/ x.w.err
  <2>1. y = x BY <1>1 DEF NextTurn
  <2>2. x.n - x.n = 0 BY <1>0
  <2> DEFINE q == v \div Pow2(n)
  <2>3. q \in Nat
    <3> DEFINE d == Pow2(n)
    <3>1. d \in Nat /\ d > 0 BY <1>0, Pow2Positive
    <3> HIDE DEF d
    <3>2. v \div d \in Nat BY <3>1, DivOf
    <3>3. QED BY <3>2 DEF d
  <2> HIDE DEF q
  <2>4. BitsOf(q, 0) = <<>> BY <2>3, NoBits
  <2>5. a \o <<>> = a BY <1>0, ConcatEmptySeq
  <2>6. a \o BitsOf(v \div Pow2(y.n), x.n - y.n) = a BY <2>1, <2>2, <2>4, <2>5 DEF q
  <2>7. y.n <= x.n BY <1>0, <2>1
  <2>8. QED BY <1>1, <2>1, <2>6, <2>7
<1>2. CASE ~(x.n = 0 \/ x.w.err)
  <2>1. y = Turn([w |-> w, n |-> n], v) BY <1>0, <1>2 DEF NextTurn
  <2>2. w.cacheLen # 0 => v < Pow2(n) BY <1>2 DEF Loops
  <2>3. n \in Nat \ {0} /\ ~w.err /\ Sent(w, a) BY <1>0, <1>2
  <2> HIDE DEF w, n
  <2>4. Turned(n, y, v, a) BY <2>1, <2>2, <2>3, TurnSends
  <2>5. /\ y = [w |-> y.w, n |-> y.n] /\ y.n \in 0..n - 1
        /\ Sent(y.w, a \o BitsOf(v \div Pow2(y.n), n - y.n))
        /\ y.n # 0 /\ ~y.w.err => y.w.cacheLen = 0
    BY <2>4 DEF Turned
  <2>6. y.w \in Writers /\ y.n \in Nat /\ y.n < n /\ y.n <= n BY <2>3, <2>5 DEF Sent
  <2>7. y \in [w : Writers, n : Nat] BY <2>5, <2>6
  <2>8. y \in Loops(v) BY <2>5, <2>7 DEF Loops
  <2>9. QED BY <2>5, <2>6, <2>8 DEF n
<1>3. QED BY <1>1, <1>2

\* writeBitsN sends the last n bits of v, or a beginning of them.
LEMMA WriteBitsNSends ==
  ASSUME NEW w, NEW a, Sent(w, a), ~w.err, NEW v \in Nat, NEW n \in Nat
  PROVE  Sent(WriteBitsN(w, v, n), a \o BitsOf(v, n))
<1> DEFINE low == v % Pow2(n)  L == Loops(low)  F == [q \in L \X (1..n) |-> NextTurn(q[1], low)]
           x0 == [w |-> w, n |-> n]
           xs == CHOOSE f : f = [i \in 0..n |-> IF i = 0 THEN x0 ELSE NextTurn(f[i - 1], low)]
<1>0. a \in Seq(Bits) /\ w \in Writers BY DEF Sent
<1>1. low \in Nat /\ low < Pow2(n)
  <2> DEFINE d == Pow2(n)
  <2>1. d \in Nat /\ d > 0 BY Pow2Positive
  <2> HIDE DEF d
  <2>2. v % d \in Nat /\ v % d < d BY <2>1, DivOf
  <2>3. QED BY <2>2 DEF d
<1>2. BitsOf(low, n) = BitsOf(v, n) BY BitsLow
<1>3. WriteBitsN(w, v, n) = xs[n].w BY DEF WriteBitsN
<1> HIDE DEF low
<1>4. x0.w = w /\ x0.n = n /\ x0 \in L BY <1>0, <1>1 DEF Loops
<1>5. \A x \in L : NextTurn(x, low) \in L
  <2> TAKE x \in L
  <2>1. PICK b : Sent(x.w, b) BY DEF Loops
  <2>2. QED BY <1>1, <2>1, NextTurnSends
<1>6. F \in [L \X (1..n) -> L] BY <1>5
<1>7. \A x \in L, i \in 1..n : F[<<x, i>>] = NextTurn(x, low) OBVIOUS
<1> HIDE DEF F, L, x0
<1>8. PICK g : Iteration(g, L, x0, n, F) BY <1>4, <1>6, Iterates
<1>9. ASSUME NEW i \in 0..n PROVE g[i] = IF i = 0 THEN x0 ELSE NextTurn(g[i - 1], low)
  <2>1. CASE i = 0 BY <1>8, <2>1 DEF Iteration
  <2>2. CASE i # 0
    <3>1. i \in 1..n /\ i - 1 \in 0..n BY <2>2
    <3>2. g[i - 1] \in L /\ g[i] = F[<<g[i - 1], i>>] BY <1>8, <3>1 DEF Iteration
    <3>3. QED BY <1>7, <2>2, <3>1, <3>2
  <2>3. QED BY <2>1, <2>2
<1>10. g = [i \in 0..n |-> g[i]] BY <1>8 DEF Iteration
<1>11. g = [i \in 0..n |-> IF i = 0 THEN x0 ELSE NextTurn(g[i - 1], low)] BY ONLY <1>9, <1>10
<1>12. xs = [i \in 0..n |-> IF i = 0 THEN x0 ELSE NextTurn(xs[i - 1], low)] BY <1>11
<1> HIDE DEF xs
<1> DEFINE At(i) == /\ xs[i] \in L /\ xs[i].n <= n /\ (xs[i].w.err \/ xs[i].n <= n - i)
                    /\ Sent(xs[i].w, a \o BitsOf(low \div Pow2(xs[i].n), n - xs[i].n))
           T == {i \in 0..n : At(i)}
<1>13. 0 \in T
  <2>1. 0 \in 0..n BY SMT
  <2>2. xs[0] = x0 BY <1>12, <2>1
  <2> DEFINE q == low \div Pow2(n)
  <2>3. q \in Nat
    <3> DEFINE d == Pow2(n)
    <3>1. d \in Nat /\ d > 0 BY Pow2Positive
    <3> HIDE DEF d
    <3>2. low \div d \in Nat BY <1>1, <3>1, DivOf
    <3>3. QED BY <3>2 DEF d
  <2> HIDE DEF q
  <2>4. BitsOf(q, 0) = <<>> /\ n - n = 0 /\ n <= n /\ n <= n - 0 BY <2>3, NoBits
  <2>5. a \o <<>> = a BY <1>0, ConcatEmptySeq
  <2>6. a \o BitsOf(low \div Pow2(n), n - n) = a BY <2>4, <2>5 DEF q
  <2>7. QED BY <1>4, <2>1, <2>2, <2>4, <2>6
<1>14. ASSUME NEW i \in 0..n, i < n, i \in T PROVE i + 1 \in T
  <2>1. i + 1 \in 0..n /\ i + 1 # 0 /\ (i + 1) - 1 = i BY <1>14
  <2> DEFINE x == xs[i]  y == xs[i + 1]  b == a \o BitsOf(low \div Pow2(x.n), n - x.n)
             c == BitsOf(low \div Pow2(y.n), x.n - y.n)
  <2>2. y = NextTurn(x, low) BY <1>12, <2>1
  <2>3. x \in L /\ x.n <= n /\ (x.w.err \/ x.n <= n - i) /\ Sent(x.w, b) BY <1>14
  <2> HIDE DEF x, y, b
  <2>4. y \in L /\ y.n <= x.n /\ Sent(y.w, b \o c) /\ (y.n < x.n \/ y.n = 0 \/ y.w.err)
    <3>1. x \in Loops(low) BY <2>3 DEF L
    <3>2. y \in Loops(low) /\ y.n <= x.n /\ Sent(y.w, b \o c) /\ (y.n < x.n \/ y.n = 0 \/ y.w.err)
      BY <1>1, <2>2, <2>3, <3>1, NextTurnSends
    <3>3. QED BY <3>2 DEF L
  <2>5. x.n \in Nat /\ y.n \in Nat BY <2>3, <2>4 DEF L, Loops
  <2>6. y.n <= n /\ (y.w.err \/ y.n <= n - (i + 1))
    <3>1. x.w.err => y = x BY <2>2 DEF NextTurn
    <3>2. CASE x.w.err BY <2>3, <3>1, <3>2
    <3>3. CASE ~x.w.err BY <1>14, <2>3, <2>4, <2>5, <3>3
    <3>4. QED BY <3>2, <3>3
  <2>7. b \o c = a \o BitsOf(low \div Pow2(y.n), n - y.n)
    <3> DEFINE d == Pow2(y.n)  e == Pow2(x.n - y.n)  q == low \div d  len == n - y.n  mid == n - x.n
    <3>1. x.n - y.n \in Nat /\ len \in Nat /\ mid \in 0..len /\ mid \in Nat /\ len - mid = x.n - y.n
          /\ x.n = y.n + (x.n - y.n)
      BY <2>3, <2>4, <2>5, <2>6
    <3>2. d \in Nat /\ d > 0 /\ e \in Nat /\ e > 0 /\ Pow2(x.n) = d * e BY <2>5, <3>1, Pow2Positive, Pow2Sum
    <3> HIDE DEF d, e
    <3>3. q \in Nat /\ q \div e \in Nat /\ q \div e = low \div Pow2(x.n)
      <4>1. q \in Nat BY <1>1, <3>2, DivOf
      <4>2. q \div e = low \div (d * e) BY <1>1, <3>2, DivDiv
      <4> HIDE DEF q
      <4>3. q \div e \in Nat BY <3>2, <4>1, DivOf
      <4>4. QED BY <3>2, <4>1, <4>2, <4>3
    <3> HIDE DEF q, len, mid
    <3>4. BitsOf(q, len) = BitsOf(q \div Pow2(len - mid), mid) \o BitsOf(q, len - mid) BY <3>1, <3>3, BitsSplit
    <3>5. BitsOf(q, len) = BitsOf(low \div Pow2(x.n), mid) \o c BY <3>1, <3>3, <3>4 DEF c, e, q, d
    <3> DEFINE f == BitsOf(low \div Pow2(x.n), mid)
    <3>6. f \in Seq(Bits) /\ c \in Seq(Bits) BY <3>1, <3>3, BitsAre DEF q, d
    <3>7. b = a \o f BY DEF b, mid
    <3> HIDE DEF f, c
    <3>8. (a \o f) \o c = a \o (f \o c) BY <1>0, <3>6, BitsAssoc
    <3>9. QED BY <3>5, <3>7, <3>8 DEF q, d, len, f
  <2>8. At(i + 1) BY <2>4, <2>6, <2>7 DEF y
  <2> HIDE DEF At
  <2>9. QED BY <2>1, <2>8
<1> HIDE DEF T
<1>15. \A i \in 0..n : i \in T BY <1>13, <1>14, UpTo
<1>16. n \in 0..n OBVIOUS
<1>17. At(n) BY <1>15, <1>16 DEF T
<1> DEFINE x == xs[n]  d == Pow2(x.n)  q == low \div d  b == BitsOf(q, n - x.n)  c == BitsOf(low, x.n)
<1>18. x \in L /\ x.n <= n /\ (x.w.err \/ x.n <= n - n) /\ Sent(x.w, a \o b) BY <1>17
<1>19. x.n \in Nat BY <1>18 DEF L, Loops
<1> HIDE DEF x
<1>20. d \in Nat /\ d > 0 BY <1>19, Pow2Positive
<1> HIDE DEF d
<1>21. q \in Nat BY <1>1, <1>20, DivOf
<1> HIDE DEF q
<1>22. n - x.n \in 0..n /\ n - (n - x.n) = x.n /\ n - x.n \in Nat BY <1>18, <1>19
<1>23. BitsOf(low, n) = b \o c
  <2>1. BitsOf(low, n) = BitsOf(low \div Pow2(n - (n - x.n)), n - x.n) \o BitsOf(low, n - (n - x.n))
    BY <1>1, <1>22, BitsSplit
  <2>2. QED BY <1>22, <2>1 DEF q, d
<1>24. b \in Seq(Bits) /\ c \in Seq(Bits) BY <1>1, <1>19, <1>21, <1>22, BitsAre
<1> DEFINE ab == a \o b
<1>25. Sent(x.w, ab \o c)
  <2>1. CASE x.w.err
    <3>1. Sent(x.w, ab) BY <1>18
    <3> HIDE DEF ab, c
    <3>2. QED BY <1>24, <2>1, <3>1, SentErr
  <2>2. CASE ~x.w.err
    <3>1. x.n = 0 BY <1>18, <1>19, <2>2
    <3>2. c = <<>> BY <1>1, <3>1, NoBits
    <3>3. ab \in Seq(Bits) BY <1>0, <1>24, ConcatProperties
    <3>4. ab \o <<>> = ab BY <3>3, ConcatEmptySeq
    <3>5. QED BY <1>18, <3>2, <3>4
  <2>3. QED BY <2>1, <2>2
<1>26. ab \o c = a \o (b \o c)
  <2> HIDE DEF b, c
  <2>1. QED BY <1>0, <1>24, BitsAssoc
<1>27. Sent(x.w, a \o BitsOf(v, n)) BY <1>2, <1>23, <1>25, <1>26
<1>28. QED BY <1>3, <1>27 DEF x

\* The bytes of an integer.
IntBytes(v, n) == [k \in 1..n |-> Byte(v \div Pow2((k - 1) * 8))]

\* They are bytes.
LEMMA IntBytesAre == ASSUME NEW v \in Nat, NEW n \in Nat PROVE IntBytes(v, n) \in Seq(Bytes)
<1> DEFINE b == IntBytes(v, n)
<1>1. ASSUME NEW k \in 1..n PROVE Byte(v \div Pow2((k - 1) * 8)) \in Bytes
  <2> DEFINE d == Pow2((k - 1) * 8)
  <2>1. (k - 1) * 8 \in Nat OBVIOUS
  <2>2. d \in Nat /\ d > 0 BY <2>1, Pow2Positive
  <2> HIDE DEF d
  <2> DEFINE q == v \div d
  <2>3. q \in Nat BY <2>2, DivOf
  <2> HIDE DEF q
  <2>4. q % 256 \in 0..255 BY <2>3
  <2>5. QED BY <2>4 DEF q, d, Byte, Bytes
<1>2. b \in [1..n -> Bytes] BY <1>1 DEF IntBytes
<1> HIDE DEF b
<1>3. b \in Seq(Bytes) BY <1>2
<1>4. QED BY <1>3 DEF b

\* Every call of the batch sends what was asked for.
LEMMA WroteSends ==
  ASSUME NEW w, NEW a, Sent(w, a), ~w.err, NEW i \in Inputs
  PROVE  Sent(Wrote(w, i), a \o Asked(i)) /\ Asked(i) \in Seq(Bits)
<1> DEFINE Kinds == [kind : {"bits"}, bits : Seq({0, 1})] \cup [kind : {"byte"}, v : 0..255]
                    \cup [kind : {"slice"}, bytes : Seq(0..255)]
                    \cup [kind : {"int"}, v : Nat, n : {2, 4, 8}] \cup [kind : {"n"}, v : Nat, n : 0..64]
                    \cup [kind : {"padded"}, bytes : Seq(0..255), n : Nat, v : 0..255]
<1>0. i \in Kinds
  <2>1. Inputs \subseteq Kinds BY ONLY InputsAssumption, Zenon
  <2> HIDE DEF Kinds
  <2>2. QED BY ONLY <2>1, i \in Inputs
<1>1. CASE i \in [kind : {"bits"}, bits : Seq({0, 1})]
  <2>1. i.kind = "bits" /\ i.bits \in Seq(Bits) BY <1>1 DEF Bits
  <2>2. Wrote(w, i) = Each(WriteBit, w, i.bits) /\ Asked(i) = i.bits BY <2>1 DEF Wrote, Asked
  <2>3. Sent(Each(WriteBit, w, i.bits), a \o i.bits) BY <2>1, EachBits
  <2>4. QED BY <2>1, <2>2, <2>3
<1>2. CASE i \in [kind : {"byte"}, v : 0..255]
  <2>1. i.kind = "byte" /\ i.v \in Bytes /\ i.v \in Nat /\ 8 \in Nat BY <1>2 DEF Bytes
  <2>2. Wrote(w, i) = WriteFullByte(w, i.v) /\ Asked(i) = BitsOf(i.v, 8) BY <2>1 DEF Wrote, Asked
  <2>3. Sent(WriteFullByte(w, i.v), a \o BitsOf(i.v, 8)) BY <2>1, WriteFullByteSends
  <2>4. BitsOf(i.v, 8) \in Seq(Bits) BY <2>1, BitsAre
  <2>5. QED BY <2>2, <2>3, <2>4
<1>3. CASE i \in [kind : {"slice"}, bytes : Seq(0..255)]
  <2>1. i.kind = "slice" /\ i.bytes \in Seq(Bytes) BY <1>3 DEF Bytes
  <2>2. Wrote(w, i) = WriteByteSlice(w, i.bytes) /\ Asked(i) = BytesBits(i.bytes) BY <2>1 DEF Wrote, Asked
  <2>3. Sent(WriteByteSlice(w, i.bytes), a \o BytesBits(i.bytes)) BY <2>1, WriteByteSliceSends
  <2>4. BytesBits(i.bytes) \in Seq(Bits) BY <2>1, BytesBitsAre
  <2>5. QED BY <2>2, <2>3, <2>4
<1>4. CASE i \in [kind : {"int"}, v : Nat, n : {2, 4, 8}]
  <2>1. i.kind = "int" /\ i.v \in Nat /\ i.n \in Nat /\ i.n * 8 \in Nat /\ i.n * 8 = 8 * i.n BY <1>4
  <2>2. Wrote(w, i) = WriteFullInt(w, i.v, i.n) BY <2>1 DEF Wrote
  <2>3. CASE byteOrder = "big"
    <3>1. Asked(i) = BitsOf(i.v, 8 * i.n) BY <2>1, <2>3 DEF Asked
    <3>2. WriteFullInt(w, i.v, i.n) = WriteBitsN(w, i.v, i.n * 8) BY <2>3 DEF WriteFullInt
    <3> DEFINE len == i.n * 8
    <3>3. len \in Nat /\ Asked(i) = BitsOf(i.v, len) /\ Wrote(w, i) = WriteBitsN(w, i.v, len)
      BY <2>1, <2>2, <3>1, <3>2
    <3> HIDE DEF len
    <3>4. Sent(WriteBitsN(w, i.v, len), a \o BitsOf(i.v, len)) BY <2>1, <3>3, WriteBitsNSends
    <3>5. BitsOf(i.v, len) \in Seq(Bits) BY <2>1, <3>3, BitsAre
    <3>6. QED BY <3>3, <3>4, <3>5
  <2>4. CASE byteOrder # "big"
    <3> DEFINE bs == IntBytes(i.v, i.n)
    <3>1. Asked(i) = BytesBits(bs) BY <2>1, <2>4 DEF Asked, IntBytes
    <3>2. WriteFullInt(w, i.v, i.n) = Each(WriteFullByte, w, bs) BY <2>4 DEF WriteFullInt, IntBytes
    <3>3. bs \in Seq(Bytes) BY <2>1, IntBytesAre
    <3> HIDE DEF bs
    <3>4. Sent(Each(WriteFullByte, w, bs), a \o BytesBits(bs)) BY <3>3, EachBytes
    <3>5. BytesBits(bs) \in Seq(Bits) BY <3>3, BytesBitsAre
    <3>6. QED BY <2>2, <3>1, <3>2, <3>4, <3>5
  <2>5. QED BY <2>3, <2>4
<1>5. CASE i \in [kind : {"n"}, v : Nat, n : 0..64]
  <2>1. i.kind = "n" /\ i.v \in Nat /\ i.n \in Nat BY <1>5
  <2>2. Wrote(w, i) = WriteBitsN(w, i.v, i.n) /\ Asked(i) = BitsOf(i.v, i.n) BY <2>1 DEF Wrote, Asked
  <2>3. Sent(WriteBitsN(w, i.v, i.n), a \o BitsOf(i.v, i.n)) BY <2>1, WriteBitsNSends
  <2>4. BitsOf(i.v, i.n) \in Seq(Bits) BY <2>1, BitsAre
  <2>5. QED BY <2>2, <2>3, <2>4
<1>6. CASE i \in [kind : {"padded"}, bytes : Seq(0..255), n : Nat, v : 0..255]
  <2>1. i.kind = "padded" /\ i.bytes \in Seq(Bytes) /\ i.n \in Nat /\ i.v \in Bytes BY <1>6 DEF Bytes
  <2> DEFINE bs == Padded(i.bytes, i.n, i.v)
  <2>2. Wrote(w, i) = WriteBytesN(w, i.bytes, i.n, i.v) /\ Asked(i) = BytesBits(bs)
    BY <2>1 DEF Wrote, Asked, Padded
  <2>3. Sent(WriteBytesN(w, i.bytes, i.n, i.v), a \o BytesBits(bs)) BY <2>1, WriteBytesNSends
  <2> HIDE DEF bs
  <2>4. Sent(Wrote(w, i), a \o Asked(i)) BY <2>2, <2>3
  <2>5. a \in Seq(Bits) /\ a \o Asked(i) \in Seq(Bits) BY <2>4 DEF Sent
  <2>6. bs \in Seq(Bytes)
    <3>1. \A k \in 1..i.n : (IF k <= Len(i.bytes) THEN i.bytes[k] ELSE i.v) \in Bytes
      <4> TAKE k \in 1..i.n
      <4>1. CASE k <= Len(i.bytes)
        <5>1. k \in 1..Len(i.bytes) BY <2>1, <4>1
        <5>2. i.bytes[k] \in Bytes BY <2>1, <5>1, ElementOfSeq
        <5>3. QED BY <4>1, <5>2
      <4>2. QED BY <2>1, <4>1
    <3>2. bs \in [1..i.n -> Bytes] BY <3>1 DEF bs, Padded
    <3>3. QED BY <2>1, <3>2
  <2>7. BytesBits(bs) \in Seq(Bits) BY <2>6, BytesBitsAre
  <2>8. QED BY <2>2, <2>4, <2>7
<1>7. QED BY <1>0, <1>1, <1>2, <1>3, <1>4, <1>5, <1>6

\* The writer was given all that was asked for, which is what the property says of the bytes.
LEMMA SentInOrder == ASSUME Sent(bw, asked) PROVE BitsInOrder
<1> DEFINE cached == BitsOf(bw.cache, 8)  k == bw.cacheLen  o == BytesBits(bw.out)
<1>1. bw \in Writers /\ bw.cache \in Bytes /\ bw.cache \in Nat /\ k \in 0..8 /\ bw.out \in Seq(Bytes)
      /\ asked \in Seq(Bits)
  <2>1. bw \in Writers /\ asked \in Seq(Bits) BY DEF Sent
  <2>2. bw.cache \in Bytes /\ k \in 0..8 /\ bw.out \in Seq(Bytes) BY <2>1 DEF Writers
  <2>3. bw.cache \in Nat
    <3> DEFINE v == bw.cache
    <3>1. v \in 0..255 BY <2>2 DEF Bytes
    <3> HIDE DEF v
    <3>2. v \in Nat BY <3>1
    <3>3. QED BY <3>2 DEF v
  <2>4. QED BY <2>1, <2>2, <2>3
<1>2. o \in Seq(Bits) BY <1>1, BytesBitsAre
<1>3. bw.cache \in 0..255 /\ k \in 0..IF bw.err THEN 8 ELSE 7
  <2>1. CASE bw.err BY <1>1, <2>1 DEF Bytes
  <2>2. CASE ~bw.err BY <1>1, <2>2 DEF Bytes, Sent
  <2>3. QED BY <2>1, <2>2
<1>4. ASSUME bw.err PROVE IsPrefix(o, asked)
  <2>1. PICK r \in Seq(Bits) : asked = o \o r BY <1>4 DEF Sent
  <2> HIDE DEF o
  <2>2. Len(asked) = Len(o) + Len(r) /\ \A i \in 1..Len(o) + Len(r) : asked[i] = IF i <= Len(o) THEN o[i] ELSE r[i - Len(o)]
    BY <1>2, <2>1, ConcatProperties
  <2> DEFINE p == SubSeq(o, 1, Len(o))  q == SubSeq(asked, 1, Len(o))
  <2>3. Len(o) \in Nat /\ Len(r) \in Nat BY <1>2
  <2>4. Len(o) <= Len(asked) /\ \A i \in 1..Len(o) : asked[i] = o[i] BY <2>2, <2>3
  <2>5. p \in Seq(Bits) /\ Len(p) = Len(o) /\ \A i \in 1..Len(o) : p[i] = o[i]
    BY <1>2, <2>3, SubSeqProperties
  <2>6. q \in Seq(Bits) /\ Len(q) = Len(o) /\ \A i \in 1..Len(o) : q[i] = asked[i]
    BY <1>1, <2>3, <2>4, SubSeqProperties
  <2>7. p = q
    <3> HIDE DEF p, q
    <3>1. \A i \in 1..Len(o) : p[i] = q[i] BY <2>4, <2>5, <2>6
    <3>2. QED BY <2>5, <2>6, <3>1, SeqEqual
  <2>8. QED BY <2>4, <2>7 DEF IsPrefix
<1>5. ASSUME ~bw.err PROVE o \o SubSeq(cached, 1, k) = asked /\ \A i \in k + 1..8 : cached[i] = 0
  <2>1. PICK h : Holds(bw, asked, h) BY <1>5 DEF Sent
  <2>2. h \in Nat /\ bw.cache = h * Pow2(8 - k) /\ asked = o \o BitsOf(h, k) BY <2>1 DEF Holds
  <2> HIDE DEF k, o
  <2> DEFINE mid == 8 - k  d == Pow2(mid)  x == BitsOf(h, k)  y == BitsOf(0, mid)
  <2>3. mid \in Nat /\ k \in Nat /\ 0 \in Nat /\ 8 = k + mid BY <1>1
  <2> HIDE DEF mid
  <2>4. d \in Nat /\ d > 0 BY <2>3, Pow2Positive
  <2>5. cached = x \o y
    <3>1. bw.cache = h * Pow2(mid) + 0 /\ 0 < Pow2(mid)
      <4>1. bw.cache = h * d BY <2>2 DEF mid
      <4>2. h * d + 0 = h * d BY <2>2, <2>4, Z3
      <4>3. QED BY <2>4, <4>1, <4>2
    <3> DEFINE g == bw.cache  n == 8
    <3>2. g = h * Pow2(mid) + 0 /\ n = k + mid BY <2>3, <3>1
    <3> HIDE DEF g, n
    <3>3. Joined(g, n, h, k, 0, mid) BY ONLY <2>2, <2>3, <3>1, <3>2, BitsJoin
    <3>4. QED BY <3>3 DEF Joined, g, n
  <2>6. x \in Seq(Bits) /\ Len(x) = k BY <2>2, <2>3, BitsAre
  <2>7. y \in Seq(Bits) /\ Len(y) = mid /\ \A i \in 1..mid : y[i] = (0 \div Pow2(mid - i)) % 2 BY <2>3, BitsAre
  <2>8. \A i \in 1..mid : y[i] = 0
    <3> TAKE i \in 1..mid
    <3> DEFINE e == Pow2(mid - i)
    <3>1. mid - i \in Nat BY <2>3
    <3>2. e \in Nat /\ e > 0 BY <3>1, Pow2Positive
    <3>3. y[i] = (0 \div e) % 2 BY <2>7
    <3> HIDE DEF e, y
    <3>4. 0 = 0 * e + 0 BY <3>2, Z3
    <3>5. 0 \div e = 0 BY <3>2, <3>4, DivIs
    <3>6. 0 % 2 = 0 OBVIOUS
    <3>7. QED BY <3>3, <3>5, <3>6
  <2> HIDE DEF x, y, cached
  <2>9. cached \in Seq(Bits) /\ Len(cached) = 8 /\ \A i \in 1..8 : cached[i] = IF i <= k THEN x[i] ELSE y[i - k]
    <3>1. x \o y \in Seq(Bits) /\ Len(x \o y) = Len(x) + Len(y)
          /\ \A i \in 1..Len(x) + Len(y) : (x \o y)[i] = IF i <= Len(x) THEN x[i] ELSE y[i - Len(x)]
      BY ONLY <2>6, <2>7, ConcatProperties
    <3>2. QED BY <2>3, <2>5, <2>6, <2>7, <3>1
  <2>10. ASSUME NEW i \in k + 1..8 PROVE cached[i] = 0
    <3>1. i \in 1..8 /\ ~(i <= k) /\ i - k \in 1..mid BY <2>3
    <3>2. QED BY <2>8, <2>9, <3>1
  <2> DEFINE p == SubSeq(cached, 1, k)
  <2>11. p \in Seq(Bits) /\ Len(p) = k /\ \A i \in 1..k : p[i] = cached[i]
    <3>1. \A i \in 1..k : cached[i] \in Bits
      <4> TAKE i \in 1..k
      <4>1. i \in 1..Len(cached) BY <1>1, <2>9
      <4>2. QED BY <2>9, <4>1, ElementOfSeq
    <3>2. QED BY <2>3, <3>1, SubSeqProperties
  <2> HIDE DEF p
  <2>12. p = x
    <3>1. \A i \in 1..k : i \in 1..8 /\ i <= k BY <1>1
    <3>2. \A i \in 1..k : p[i] = x[i] BY <2>9, <2>11, <3>1
    <3>3. QED BY <2>3, <2>6, <2>11, <3>2, SeqEqual
  <2>13. QED BY <2>2, <2>10, <2>12 DEF p, x
<1>6. QED BY <1>3, <1>4, <1>5 DEF BitsInOrder

\* An empty writer was given nothing.
LEMMA EmptySent == Sent(WriterOf(0, 0, <<>>, FALSE), <<>>) /\ WriterOf(0, 0, <<>>, FALSE).err = FALSE
<1> DEFINE out == <<>>
<1>1. out \in Seq(Bytes) /\ BytesBits(out) = <<>> BY BytesBitsOne
<1>2. 0 \in 0..7 /\ 0 \in Nat /\ 0 < Pow2(0) /\ 0 * Pow2(8 - 0) = 0
  <2>1. 8 - 0 = 8 OBVIOUS
  <2>2. QED BY <2>1, Pow2Byte
<1> DEFINE a == <<>>
<1>3. a = BytesBits(out) \o BitsOf(0, 0)
  <2>1. BitsOf(0, 0) = <<>> BY NoBits
  <2>2. <<>> \in Seq(Bits) /\ <<>> \o <<>> = <<>> OBVIOUS
  <2>3. QED BY <1>1, <2>1, <2>2
<1> HIDE DEF out, a
<1>4. Sent(WriterOf(0 * Pow2(8 - 0), 0, out, FALSE), a) BY <1>1, <1>2, <1>3, SentHolding
<1>5. WriterOf(0, 0, <<>>, FALSE).err = FALSE BY DEF WriterOf
<1>6. QED BY <1>2, <1>4, <1>5 DEF out, a

\* What is asked for is bits: those an empty writer is sent.
LEMMA AskedBits == \A i \in Inputs : Asked(i) \in Seq(Bits)
<1> DEFINE w == WriterOf(0, 0, <<>>, FALSE)
<1>1. Sent(w, <<>>) /\ ~w.err BY EmptySent
<1> HIDE DEF w
<1>2. QED BY <1>1, WroteSends

\* The writer of a new batch was given nothing, and nothing was asked for.
LEMMA SentFirst == BitsInit => Sent(bw, asked)
BY EmptySent DEF BitsInit, WriterOf

\* Every call of the batch keeps that, those after an error included.
LEMMA SentNext == Sent(bw, asked) /\ [BitsNext]_bitsVars => Sent(bw, asked)'
<1> SUFFICES ASSUME Sent(bw, asked), [BitsNext]_bitsVars PROVE Sent(bw', asked') OBVIOUS
<1>1. ASSUME NEW i \in Inputs, BatchWrite(i) PROVE Sent(bw', asked')
  <2>1. CASE bw.err
    <3>1. bw' = bw /\ asked' = asked \o Asked(i) BY <1>1, <2>1 DEF BatchWrite
    <3>2. Asked(i) \in Seq(Bits) BY AskedBits
    <3>3. QED BY <2>1, <3>1, <3>2, SentErr
  <2>2. CASE ~bw.err
    <3>1. bw' = Wrote(bw, i) /\ asked' = asked \o Asked(i) BY <1>1, <2>2 DEF BatchWrite
    <3>2. QED BY <2>2, <3>1, WroteSends
  <2>3. QED BY <2>1, <2>2
<1>2. CASE UNCHANGED bitsVars BY <1>2 DEF bitsVars
<1>3. QED BY <1>1, <1>2 DEF BitsNext

\* The bytes written, and the bits in the cache, are the bits of all that was asked for, in order
\* (BitsInOrder, src/binary.go:55-247).
THEOREM BitsStayInOrder == BitsSpec => []BitsInOrder
<1>1. BitsInit => Sent(bw, asked) BY SentFirst
<1>2. Sent(bw, asked) /\ [BitsNext]_bitsVars => Sent(bw, asked)' BY SentNext
<1>3. Sent(bw, asked) => BitsInOrder BY SentInOrder
<1>4. QED BY <1>1, <1>2, <1>3, PTL DEF BitsSpec
=============================================================================
