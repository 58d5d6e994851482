----------------------------- MODULE FIFOMutex -----------------------------
(***************************************************************************)
(* FIFOMutex (src/sync.go): a mutex that serves goroutines in the order in *)
(* which they asked. An inner sync.Mutex m guards busy and the queue, and  *)
(* every waiter parks on a sync.Cond of its own, named here after it.      *)
(* A critical section of m without a blocking call is one step guarded by  *)
(* "m is free"; m itself is a variable because Unlock holds it while it    *)
(* waits for the lock of the head's cond.                                  *)
(***************************************************************************)
EXTENDS Naturals, Sequences

CONSTANTS Threads,    \* the goroutines that use the mutex
          NoOne       \* the owner of a free inner mutex

ASSUME NoOneAssumption == NoOne \notin Threads

VARIABLES busy,       \* FIFOMutex.busy
          waiting,    \* FIFOMutex.waiting, a cond standing for its waiter
          m,          \* the goroutine that holds FIFOMutex.m, or NoOne
          condLocked, \* condLocked[g]: g holds the lock of the cond it created
          pc          \* where each goroutine is in Lock or Unlock

vars == <<busy, waiting, m, condLocked, pc>>

States == {"idle", "locking", "enqueued", "parked", "woken",
           "cs", "unlocking", "signalling", "popping"}

Init == /\ busy = FALSE /\ waiting = <<>> /\ m = NoOne
        /\ condLocked = [g \in Threads |-> FALSE]
        /\ pc = [g \in Threads |-> "idle"]

Goto(g, from, to) == pc[g] = from /\ pc' = [pc EXCEPT ![g] = to]

-----------------------------------------------------------------------------
\* A goroutine outside calls Lock, a holder calls Unlock.
CallLock(g) == Goto(g, "idle", "locking") /\ UNCHANGED <<busy, waiting, m, condLocked>>

CallUnlock(g) == Goto(g, "cs", "unlocking") /\ UNCHANGED <<busy, waiting, m, condLocked>>

\* Lock, no need to wait.
FastLock(g) == /\ m = NoOne /\ ~busy
               /\ busy' = TRUE
               /\ Goto(g, "locking", "cs")
               /\ UNCHANGED <<waiting, m, condLocked>>

EnqueueAs(g, q, locked) == /\ m = NoOne /\ busy
                           /\ waiting' = q
                           /\ condLocked' = [condLocked EXCEPT ![g] = locked]
                           /\ Goto(g, "locking", "enqueued")
                           /\ UNCHANGED <<busy, m>>

EnqueueFirst(g) == EnqueueAs(g, <<g>> \o waiting, TRUE)       \* mutant: the wrong end
EnqueueUnlocked(g) == EnqueueAs(g, Append(waiting, g), FALSE) \* mutant: c.L.Lock() forgotten

\* Lock, the mutex is busy: a cond is created, locked and queued under m.
Enqueue(g) == EnqueueAs(g, Append(waiting, g), TRUE)

\* Cond.Wait registers the waiter and unlocks the cond in one go ...
Park(g) == /\ condLocked' = [condLocked EXCEPT ![g] = FALSE]
           /\ Goto(g, "enqueued", "parked")
           /\ UNCHANGED <<busy, waiting, m>>

\* ... and, once signalled, returns with the cond locked: Lock returns.
Resume(g) == /\ ~condLocked[g]
             /\ condLocked' = [condLocked EXCEPT ![g] = TRUE]
             /\ Goto(g, "woken", "cs")
             /\ UNCHANGED <<busy, waiting, m>>

UnlockKeepsBusy(g) == /\ m = NoOne /\ waiting = <<>>        \* mutant: busy is not reset
                      /\ Goto(g, "unlocking", "idle")
                      /\ UNCHANGED <<busy, waiting, m, condLocked>>

\* Unlock with an empty queue.
UnlockFree(g) == /\ m = NoOne /\ waiting = <<>>
                 /\ busy' = FALSE
                 /\ Goto(g, "unlocking", "idle")
                 /\ UNCHANGED <<waiting, m, condLocked>>

\* Unlock with a waiter: m is kept until the head is signalled and removed.
UnlockBusy(g) == /\ m = NoOne /\ waiting # <<>>
                 /\ m' = g
                 /\ Goto(g, "unlocking", "signalling")
                 /\ UNCHANGED <<busy, waiting, condLocked>>

\* Signal under the cond's lock. A signal wakes a parked waiter only.
SignalHead(g) ==
  /\ pc[g] = "signalling" /\ ~condLocked[Head(waiting)]
  /\ pc' = [h \in Threads |-> IF h = g THEN "popping"
                              ELSE IF h = Head(waiting) /\ pc[h] = "parked" THEN "woken"
                              ELSE pc[h]]
  /\ UNCHANGED <<busy, waiting, m, condLocked>>

Pop(g) == /\ Goto(g, "popping", "idle")
          /\ waiting' = Tail(waiting)
          /\ m' = NoOne
          /\ UNCHANGED <<busy, condLocked>>

Step(g) == \/ CallLock(g) \/ CallUnlock(g) \/ FastLock(g) \/ Enqueue(g) \/ Park(g)
           \/ Resume(g) \/ UnlockFree(g) \/ UnlockBusy(g) \/ SignalHead(g) \/ Pop(g)

Next == \E g \in Threads : Step(g)

Spec == Init /\ [][Next]_vars

\* The scheduler runs every goroutine that can run, holders leave, and
\* sync.Mutex starves nobody (its starvation mode hands the lock over).
Fairness == \A g \in Threads :
              /\ WF_vars(CallUnlock(g) \/ Park(g) \/ Resume(g) \/ SignalHead(g) \/ Pop(g))
              /\ SF_vars(FastLock(g) \/ Enqueue(g))
              /\ SF_vars(UnlockFree(g) \/ UnlockBusy(g))

FairSpec == Spec /\ Fairness

-----------------------------------------------------------------------------
\* Where the goroutine owns the lock: from the grant until Unlock gives it up.
Owning == {"cs", "unlocking", "signalling", "woken"}
Owner(g) == pc[g] \in Owning

Popping == \E g \in Threads : pc[g] = "popping"

\* The queue a caller observes: the head leaves it when it is signalled.
Queue == IF Popping THEN Tail(waiting) ELSE waiting

\* Every variable has its type.
TypeOK == /\ busy \in BOOLEAN /\ waiting \in Seq(Threads) /\ m \in Threads \cup {NoOne}
          /\ condLocked \in [Threads -> BOOLEAN] /\ pc \in [Threads -> States]

\* No two goroutines are between the return of Lock and the call of Unlock,
\* although busy is never cleared while the lock passes along the queue.
MutualExclusion == \A g, h \in Threads : pc[g] = "cs" /\ pc[h] = "cs" => g = h

\* The signal is never lost: as long as a goroutine sits in the queue the lock
\* has an owner that will pass it on. The code gets this from locking the cond
\* before m is released.
NoLostHandoff == Queue # <<>> => \E g \in Threads : Owner(g)

\* Every grant follows the order of the queue, and nobody overtakes it.
Lock == INSTANCE FIFOLock WITH holders <- {g \in Threads : Owner(g)}, queue <- Queue
ImplementsFIFOLock == Lock!LockSpec

\* Every call of Lock returns when every holder unlocks.
EveryLockReturns == \A g \in Threads : pc[g] = "locking" ~> pc[g] = "cs"
-----------------------------------------------------------------------------
\* The inductive invariant behind the theorems: one owner at most, exactly one
\* when busy, m held only while the head is signalled and removed, and the
\* queue holds without repetition exactly the goroutines that wait.
OneOwner == \A g, h \in Threads : Owner(g) /\ Owner(h) => g = h
BusyOwned == busy <=> (\E g \in Threads : Owner(g))
InnerOwner == \A g \in Threads : m = g <=> pc[g] \in {"signalling", "popping"}
NoRepeat == \A i, j \in 1..Len(waiting) : waiting[i] = waiting[j] => i = j
Waiters == \A g \in Threads :
  /\ pc[g] \in {"enqueued", "parked"} => \E i \in 1..Len(waiting) : waiting[i] = g
  /\ pc[g] = "enqueued" <=> (condLocked[g] /\ pc[g] \in {"enqueued", "parked", "woken"})
Queued == \A i \in 1..Len(waiting) :
  IF i = 1 /\ Popping THEN pc[waiting[i]] \in {"woken", "cs", "unlocking"}
                      ELSE pc[waiting[i]] \in {"enqueued", "parked"}
WaitedBusy == waiting # <<>> => busy
HeadThere == \A g \in Threads : pc[g] \in {"signalling", "popping"} => waiting # <<>>

IInv == /\ TypeOK /\ OneOwner /\ BusyOwned /\ InnerOwner
        /\ NoRepeat /\ Waiters /\ Queued /\ WaitedBusy /\ HeadThere
=============================================================================
