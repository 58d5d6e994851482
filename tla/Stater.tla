-------------------------------- MODULE Stater --------------------------------
(***************************************************************************)
(* The Stater of src/stat.go: Start computes the values of the registered  *)
(* stats at each tick, from what they measure and what it was at the value *)
(* before; Stop cancels the context that the Start in progress, or the     *)
(* last one, has created. A rate (or a percentage) is an amount over the   *)
(* time since the last tick, which is 0 or less when the clock was set     *)
(* back; an average is an amount over a count, which a worker increments   *)
(* after the amount. Values are kept as the amounts they stand for, and    *)
(* the goroutine that each list of values is handed to is left out.        *)
(***************************************************************************)
EXTENDS Naturals, FiniteSets

CONSTANTS Starters,
          MaxAmount,     \* bound: what is measured
          MaxTicks,      \* bound: the ticks
          MaxStarts      \* bound: the calls of Start

ASSUME StaterAssumption == MaxAmount \in Nat

Stats == {"rate", "average"}

VARIABLES running, starts,
          start,         \* per starter: where Start is
          ctx,           \* the context that Stop cancels: "nil", "live" or "done"
          ss,            \* the registered stats
          amount, count, \* what is measured
          read,          \* the values being computed: the stats left, the amount, the delta
          last,          \* per stat: the amount and the count of the value before
          ticks,
          reported,      \* history: what the values stand for, in total
          dropped        \* history: what was measured and reported as 0

staterVars == <<running, starts, start, ctx, ss, amount, count, read, last, ticks, reported, dropped>>
runVars == <<running, starts, start, ctx>>
valueVars == <<amount, count, read, last, ticks, reported, dropped>>

NotReading == [left |-> {}, amount |-> 0, delta |-> 0]

StaterInit == /\ running = 0 /\ starts = 0 /\ ctx = "nil" /\ ss = {}
              /\ start = [p \in Starters |-> "idle"]
              /\ amount = 0 /\ count = 0 /\ ticks = 0 /\ read = NotReading
              /\ last = [s \in Stats |-> [amount |-> 0, count |-> 0]]
              /\ reported = [s \in Stats |-> 0] /\ dropped = [s \in Stats |-> 0]

OwnUnchecked(p) ==    \* mutant: Start does not look whether another one runs
  start' = [start EXCEPT ![p] = "owner"] /\ running' = 1

\* Start: only one Start goes on ...
Own(p) == IF running = 0 THEN start' = [start EXCEPT ![p] = "owner"] /\ running' = 1
                         ELSE UNCHANGED <<start, running>>

StaterStart(p) == /\ start[p] = "idle" /\ starts < MaxStarts /\ starts' = starts + 1
                  /\ Own(p)
                  /\ UNCHANGED <<ctx, ss, valueVars>>

\* ... which creates its context ...
ResetContext(p) == /\ start[p] = "owner"
                   /\ start' = [start EXCEPT ![p] = "loop"] /\ ctx' = "live"
                   /\ UNCHANGED <<running, starts, ss, valueVars>>

\* ... and loops until that is done.
ContextDone(p) == /\ start[p] = "loop" /\ ctx = "done" /\ read.left = {}
                  /\ start' = [start EXCEPT ![p] = "idle"] /\ running' = 0
                  /\ UNCHANGED <<starts, ctx, ss, valueVars>>

\* Stop, or the end of the context given to Start.
StaterStop == /\ ctx = "live" /\ ctx' = "done"
              /\ UNCHANGED <<running, starts, start, ss, valueVars>>

\* AddStats and DelStats, under the mutex that a tick holds.
RegisterStats(stats) == /\ read.left = {} /\ ss # stats /\ ss' = stats
                        /\ UNCHANGED <<runVars, valueVars>>

\* What is measured: an amount, then its count.
Work == /\ amount < MaxAmount /\ amount' = amount + 1
        /\ UNCHANGED <<runVars, ss, count, read, last, ticks, reported, dropped>>

WorkCounted == /\ count < amount /\ count' = count + 1
               /\ UNCHANGED <<runVars, ss, amount, read, last, ticks, reported, dropped>>

-----------------------------------------------------------------------------
\* A tick: the time since the last one, and the values one by one. A value reads
\* its amount first.
Tick(p, delta) == /\ start[p] = "loop" /\ read.left = {} /\ ticks < MaxTicks
                  /\ ticks' = ticks + 1
                  /\ read' = [left |-> ss, amount |-> amount, delta |-> delta]
                  /\ UNCHANGED <<runVars, ss, amount, count, last, reported, dropped>>

\* 0 is reported for no time, or for an average over nothing new.
IsDropped(s) == IF s = "rate" THEN read.delta = 0 ELSE count = last[s].count

LastRead(s) == [amount |-> read.amount, count |-> IF s = "average" THEN count ELSE 0]

Value(s) == /\ s \in read.left
            /\ LET more == read.amount - last[s].amount IN
               IF IsDropped(s) THEN dropped' = [dropped EXCEPT ![s] = @ + more] /\ UNCHANGED reported
                               ELSE reported' = [reported EXCEPT ![s] = @ + more] /\ UNCHANGED dropped
            /\ last' = [last EXCEPT ![s] = LastRead(s)]
            /\ read' = [read EXCEPT !.left = @ \ {s}, !.amount = amount]
            /\ UNCHANGED <<runVars, ss, amount, count, ticks>>

StaterNext == \/ StaterStop \/ Work \/ WorkCounted
              \/ \E p \in Starters : \/ StaterStart(p) \/ ResetContext(p) \/ ContextDone(p)
                                     \/ \E delta \in {0, 1} : Tick(p, delta)
              \/ \E stats \in SUBSET Stats : RegisterStats(stats)
              \/ \E s \in Stats : Value(s)

StaterSpec == StaterInit /\ [][StaterNext]_staterVars

StaterTypeOK == /\ start \in [Starters -> {"idle", "owner", "loop"}] /\ running \in {0, 1}
                /\ ss \subseteq Stats /\ read.left \subseteq Stats
                /\ amount \in 0..MaxAmount /\ count \in 0..amount

(* One Start computes values at a time, and over any sequence of Starts, Stops, ticks and changes of *)
(* the registered stats the values of a stat stand for every unit that was measured at most once:    *)
(* those reported and those reported as 0 add up to what was measured at its last value              *)
(* (src/stat.go:73-236).                                                                    *)
RatesTelescope == /\ StaterTypeOK
                  /\ Cardinality({p \in Starters : start[p] # "idle"}) = running
                  /\ \A s \in Stats : /\ reported[s] + dropped[s] = last[s].amount
                                      /\ last[s].amount <= amount
=============================================================================
