---------------------------- MODULE MCSmallTools ----------------------------
(* One tool at a time: its actions, the other tools at rest with the first   *)
(* of their options.                                                         *)
EXTENDS EventManager, Eventer, Limiter, Cache, Stater, BitsWriter, PCM, SilenceDetector

CONSTANTS e1, e2, n1, n2, d1, d2, b1, k1, k2, k3, s1, s2

MCNames == {n1, n2}
MCEmitters == {e1, e2}

MCDispatchers == {d1, d2}
MCJobs == [id : 1..MaxDispatches, k : 1..MaxOns + MaxDispatches * MaxOns]

MCBuckets == {b1}

MCKeys == {k1, k2, k3}
MCSizeOf == (k1 :> 1) @@ (k2 :> 2) @@ (k3 :> 4)
MCMaxSizes == {-1, 0, 3}

MCStarters == {s1, s2}

\* Bits, bytes at once or one by one, padded or cut, and integers within a byte and
\* across three.
MCInputs == {[kind |-> "bits", bits |-> <<1>>], [kind |-> "bits", bits |-> <<1, 0, 1>>],
             [kind |-> "byte", v |-> 201], [kind |-> "slice", bytes |-> <<129, 74>>],
             [kind |-> "int", v |-> 42243, n |-> 2],
             [kind |-> "n", v |-> 85, n |-> 6], [kind |-> "n", v |-> 40933, n |-> 13],
             [kind |-> "padded", bytes |-> <<147>>, n |-> 2, v |-> 15],
             [kind |-> "padded", bytes |-> <<147, 3>>, n |-> 1, v |-> 15]}
MCByteOrders == {"big", "little"}

\* Rates up and down, by whole and broken ratios, and fewer, as many and more channels.
MCConversions == [src : {2, 3}, dst : {2, 3, 5}, channels : {1, 2}, to : {1, 2, 3}]
                 \cup [src : {5}, dst : {2}, channels : {1}, to : {1}]
SameRate == [src |-> 2, dst |-> 2, channels |-> 1, to |-> 1]

VARIABLE tool

rest == <<eventVars, eventerVars, limiterVars, cacheVars, staterVars, bitsVars, pcmVars, silenceVars>>

MCInit == /\ tool \in {"events", "eventer", "limiter", "cache", "stater", "bits", "pcm", "silence"}
          /\ EventsInit /\ LimiterInit /\ StaterInit /\ SilenceInit
          /\ EventerInit /\ (tool = "eventer" \/ (~opts.block /\ ~opts.processAll /\ ~opts.reenter))
          /\ CacheInit /\ (tool = "cache" \/ maxSize = 0)
          /\ BitsInit /\ (tool = "bits" \/ (byteOrder = "big" /\ failing = 0))
          /\ PCMInit /\ (tool = "pcm" \/ (conv = SameRate /\ sinkFailing = 0))

MCNext ==
  /\ UNCHANGED tool
  /\ \/ /\ tool = "events" /\ EventsNext
        /\ UNCHANGED <<eventerVars, limiterVars, cacheVars, staterVars, bitsVars, pcmVars, silenceVars>>
     \/ /\ tool = "eventer" /\ EventerNext
        /\ UNCHANGED <<eventVars, limiterVars, cacheVars, staterVars, bitsVars, pcmVars, silenceVars>>
     \/ /\ tool = "limiter" /\ LimiterNext
        /\ UNCHANGED <<eventVars, eventerVars, cacheVars, staterVars, bitsVars, pcmVars, silenceVars>>
     \/ /\ tool = "cache" /\ CacheNext
        /\ UNCHANGED <<eventVars, eventerVars, limiterVars, staterVars, bitsVars, pcmVars, silenceVars>>
     \/ /\ tool = "stater" /\ StaterNext
        /\ UNCHANGED <<eventVars, eventerVars, limiterVars, cacheVars, bitsVars, pcmVars, silenceVars>>
     \/ /\ tool = "bits" /\ BitsNext
        /\ UNCHANGED <<eventVars, eventerVars, limiterVars, cacheVars, staterVars, pcmVars, silenceVars>>
     \/ /\ tool = "pcm" /\ PCMNext
        /\ UNCHANGED <<eventVars, eventerVars, limiterVars, cacheVars, staterVars, bitsVars, silenceVars>>
     \/ /\ tool = "silence" /\ SilenceNext
        /\ UNCHANGED <<eventVars, eventerVars, limiterVars, cacheVars, staterVars, bitsVars, pcmVars>>

MCSpec == MCInit /\ [][MCNext]_<<rest, tool>> /\ EventerFairness
=============================================================================
