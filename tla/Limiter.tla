------------------------------- MODULE Limiter -------------------------------
(***************************************************************************)
(* The Limiter of src/limiter.go: buckets by name, each with a count that  *)
(* Inc takes up to the cap and a goroutine that empties it at each tick.   *)
(* The goroutine may be late, also once it has a tick in hand; a ticker    *)
(* keeps one tick for it and drops those that follow (time.Ticker,         *)
(* external).                                                              *)
(***************************************************************************)
EXTENDS Naturals, Sequences, FiniteSets

CONSTANTS Buckets,
          Cap, Period,
          MaxClock     \* bound: the time that passes

ASSUME LimiterAssumption == Cap \in Nat /\ Period \in Nat \ {0} /\ MaxClock \in Nat

VARIABLES clock,
          bucket,      \* the buckets by name
          admitted     \* history: when Inc returned true, by name

limiterVars == <<clock, bucket, admitted>>

\* tick: one waits in the ticker's channel; hand: the goroutine has received one.
NoBucket == [state |-> "none", made |-> 0, count |-> 0, tick |-> FALSE, hand |-> FALSE]

LimiterInit == /\ clock = 0
               /\ bucket = [b \in Buckets |-> NoBucket]
               /\ admitted = [b \in Buckets |-> <<>>]

\* Add creates a bucket, or returns the one that has the name, closed or not.
AddBucket(b) == /\ bucket' = IF bucket[b].state = "none"
                             THEN [bucket EXCEPT ![b].state = "ticking", ![b].made = clock]
                             ELSE bucket
                /\ UNCHANGED <<clock, admitted>>

RoomForOneMore(b) ==    \* mutant: one more than the cap passes
  bucket[b].count <= Cap

HasRoom(b) == bucket[b].count < Cap

\* Inc, which closing the bucket does not prevent.
Inc(b) == /\ bucket[b].state # "none" /\ HasRoom(b)
          /\ bucket' = [bucket EXCEPT ![b].count = @ + 1]
          /\ admitted' = [admitted EXCEPT ![b] = Append(@, clock)]
          /\ UNCHANGED clock

\* The ticker of every bucket whose goroutine runs.
TimePasses == /\ clock < MaxClock /\ clock' = clock + 1
              /\ bucket' = [b \in Buckets |->
                   [bucket[b] EXCEPT !.tick = @ \/ /\ bucket[b].state \in {"ticking", "closed"}
                                                   /\ (clock + 1 - bucket[b].made) % Period = 0]]
              /\ UNCHANGED admitted

\* tick: the select of the goroutine takes either when the bucket is closed beside a
\* tick. It has received the tick before it gets the lock and resets the count.
Selects(b) == bucket[b].state \in {"ticking", "closed"} /\ ~bucket[b].hand

TakeTick(b) == /\ Selects(b) /\ bucket[b].tick
               /\ bucket' = [bucket EXCEPT ![b].tick = FALSE, ![b].hand = TRUE]
               /\ UNCHANGED <<clock, admitted>>

Purge(b) == /\ bucket[b].hand
            /\ bucket' = [bucket EXCEPT ![b].count = 0, ![b].hand = FALSE]
            /\ UNCHANGED <<clock, admitted>>

TickEnds(b) == /\ Selects(b) /\ bucket[b].state = "closed"
               /\ bucket' = [bucket EXCEPT ![b].state = "over", ![b].tick = FALSE]
               /\ UNCHANGED <<clock, admitted>>

\* Close of the buckets bs, of one or of the limiter: once each.
CloseBuckets(bs) ==
  /\ bucket' = [b \in Buckets |->
       IF b \in bs /\ bucket[b].state = "ticking" THEN [bucket[b] EXCEPT !.state = "closed"] ELSE bucket[b]]
  /\ UNCHANGED <<clock, admitted>>

LimiterNext == \/ TimePasses \/ CloseBuckets(Buckets)
               \/ \E b \in Buckets : \/ AddBucket(b) \/ Inc(b) \/ TakeTick(b) \/ Purge(b) \/ TickEnds(b)
                                     \/ CloseBuckets({b})

LimiterSpec == LimiterInit /\ [][LimiterNext]_limiterVars

LimiterTypeOK == /\ clock \in 0..MaxClock
                 /\ bucket \in [Buckets -> [state : {"none", "ticking", "closed", "over"},
                                            made : 0..MaxClock, count : Nat,
                                            tick : BOOLEAN, hand : BOOLEAN]]

\* However late the goroutine is, at most four times the cap passes within any period:
\* what was left when it began, and what is freed by the tick in the goroutine's hand,
\* by the one that waits in the channel and by the one of the period
\* (src/limiter.go:75-99).
AtMost(b, from, to) == Cardinality({i \in DOMAIN admitted[b] : from <= admitted[b][i] /\ admitted[b][i] < to})
WindowBounded == /\ LimiterTypeOK
                 /\ \A b \in Buckets : \A t \in 0..MaxClock : AtMost(b, t, t + Period) <= 4 * Cap
=============================================================================
