----------------------------- MODULE EventManager -----------------------------
(***************************************************************************)
(* The EventManager of src/event.go: handlers registered by name under a   *)
(* mutex, and Emit, which calls a snapshot of them without it: handlers    *)
(* come and go between two calls, and a call that asks for the deletion of *)
(* its handler is followed by an Off of its own.                           *)
(***************************************************************************)
EXTENDS Naturals, Sequences, FiniteSets, SequencesExt, Sorting

CONSTANTS Names, Emitters,
          MaxHandlers,    \* bound: the calls of On
          MaxEmits        \* bound: the calls of Emit, per emitter

ASSUME EventsAssumption == MaxHandlers \in Nat

VARIABLES handlerCount,
          hs,             \* the handlers: their ids and names
          emit,           \* per emitter: where Emit is, and the snapshot left
          called,         \* history: what the Emit in progress, or the last, called
          off,            \* history: the handlers whose Off returned
          offAtStart      \* history: those among them when the Emit began

eventVars == <<handlerCount, hs, emit, called, off, offAtStart>>

EventsInit == /\ handlerCount = 0 /\ hs = {} /\ off = {}
              /\ emit = [e \in Emitters |-> [pc |-> "idle", left |-> <<>>, done |-> 0]]
              /\ called = [e \in Emitters |-> <<>>]
              /\ offAtStart = [e \in Emitters |-> {}]

Ids == {h.id : h \in hs}

FreeId ==    \* mutant: the id of a handler that was deleted is given again
  Cardinality(hs) + 1

NextId == handlerCount + 1

\* On.
On(n) == /\ handlerCount < MaxHandlers
         /\ handlerCount' = handlerCount + 1
         /\ hs' = hs \cup {[id |-> NextId, name |-> n]}
         /\ UNCHANGED <<emit, called, off, offAtStart>>

\* Off looks for the id under every name.
Without(id) == /\ hs' = {h \in hs : h.id # id}
               /\ off' = off \cup {id}

Off(id) == /\ Without(id)
           /\ UNCHANGED <<handlerCount, emit, called, offAtStart>>

Handlers(n) == Ascending({h.id : h \in {g \in hs : g.name = n}})

\* Where the nth Emit goes once it is left with the handlers left.
Loop(left, n) == [pc |-> IF left = <<>> THEN "idle" ELSE "loop", left |-> left, done |-> n]

\* Emit: handlers takes the snapshot under the mutex ...
EmitStart(e, n) == /\ emit[e].pc = "idle" /\ emit[e].done < MaxEmits
                   /\ emit' = [emit EXCEPT ![e] = Loop(Handlers(n), emit[e].done + 1)]
                   /\ called' = [called EXCEPT ![e] = <<>>]
                   /\ offAtStart' = [offAtStart EXCEPT ![e] = off]
                   /\ UNCHANGED <<handlerCount, hs, off>>

\* ... each handler is called without it ...
Call(e) == /\ emit[e].pc = "loop"
           /\ called' = [called EXCEPT ![e] = Append(@, Head(emit[e].left))]
           /\ \/ emit' = [emit EXCEPT ![e] = Loop(Tail(emit[e].left), emit[e].done)]
              \/ emit' = [emit EXCEPT ![e].pc = "off"]
           /\ UNCHANGED <<handlerCount, hs, off, offAtStart>>

\* ... and is switched off if it asked for it.
CallOff(e) == /\ emit[e].pc = "off"
              /\ Without(Head(emit[e].left))
              /\ emit' = [emit EXCEPT ![e] = Loop(Tail(emit[e].left), emit[e].done)]
              /\ UNCHANGED <<handlerCount, called, offAtStart>>

EventsNext == \/ \E n \in Names : On(n) \/ \E e \in Emitters : EmitStart(e, n)
              \/ \E id \in 1..handlerCount : Off(id)
              \/ \E e \in Emitters : Call(e) \/ CallOff(e)

EventsSpec == EventsInit /\ [][EventsNext]_eventVars

EventsTypeOK == /\ handlerCount \in 0..MaxHandlers
                /\ hs \subseteq [id : 1..MaxHandlers, name : Names]
                /\ \A e \in Emitters : /\ emit[e].pc \in {"idle", "loop", "off"}
                                       /\ ToSet(emit[e].left) \subseteq 1..handlerCount

(* A handler is registered from its On to the end of an Off of its own id, whatever other handlers, *)
(* names and Emits do; and an Emit calls handlers in the order of their registration, none twice,    *)
(* and none whose Off had returned when it began, although one that is switched off meanwhile is     *)
(* still called (src/event.go:25-102).                                                                *)
EmitCallsInOrder == /\ EventsTypeOK
                    /\ Ids = (1..handlerCount) \ off
                    /\ \A e \in Emitters :
                         LET due == called[e] \o IF emit[e].pc = "off" THEN Tail(emit[e].left) ELSE emit[e].left IN
                         /\ ToSet(due) \cap offAtStart[e] = {}
                         /\ \A i, j \in DOMAIN due : i < j => due[i] < due[j]
=============================================================================
