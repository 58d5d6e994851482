--------------------------------- MODULE PCM ---------------------------------
(***************************************************************************)
(* Two of the tools of src/pcm.go, one feeding the other: the sample rate  *)
(* converter, whose func is the Add of the channels converter, whose func  *)
(* is a sink that may fail once. Both work sample by sample; a frame is a  *)
(* sample of every channel. The comparisons of floats are made on exact    *)
(* ratios.                                                                 *)
(***************************************************************************)
EXTENDS Naturals, Sequences, SequencesExt

CONSTANTS Conversions,    \* [src, dst: sample rates, channels, to: numbers of channels]
          Samples,
          MaxSamples,     \* bound: the samples added, between two resets
          MaxSinkFailing  \* bound: the call of the sink that may fail

VARIABLES conv,           \* the conversion
          pcm,            \* the two converters, and what the last Add returned
          sinkFailing,    \* the number of the call of the sink that fails, 0 if none
          input,          \* history: the samples added since the last reset
          sinkFailed      \* history: the sink has failed since the last reset

pcmVars == <<conv, pcm, sinkFailing, input, sinkFailed>>

NoSamples == [c \in 1..conv.channels |-> <<>>]
NewConverters(calls) ==
  [b |-> NoSamples, channel |-> 0, inFrames |-> 0, outFrames |-> 0,   \* of the rate converter
   srcSamples |-> 0,                                                  \* of the channels converter
   mid |-> <<>>, out |-> <<>>, calls |-> calls, err |-> FALSE]

PCMInit == /\ conv \in Conversions /\ sinkFailing \in 0..MaxSinkFailing
           /\ pcm = NewConverters(0)
           /\ input = <<>> /\ sinkFailed = FALSE

Steps(op(_, _), x, s) == FoldLeft(LAMBDA y, e : IF y.err THEN y ELSE op(y, e), x, s)

Sink(x, s) == IF x.calls + 1 = sinkFailing
              THEN [x EXCEPT !.calls = sinkFailing, !.err = TRUE]
              ELSE [x EXCEPT !.calls = IF @ < sinkFailing THEN @ + 1 ELSE @, !.out = Append(@, s)]

\* Add of the channels converter: a frame loses its last samples, or has the last
\* of them repeated.
ChannelsAdd(x, s) ==
  LET k == 1 + IF x.srcSamples = conv.channels THEN 0 ELSE x.srcSamples
      copies == IF conv.channels > conv.to THEN (IF k > conv.to THEN 0 ELSE 1)
                ELSE IF k < conv.channels THEN 1 ELSE 1 + conv.to - conv.channels
      y == [x EXCEPT !.mid = Append(@, s)]
  IN  IF conv.channels = conv.to THEN Sink(y, s)
      ELSE Steps(Sink, [y EXCEPT !.srcSamples = k], [i \in 1..copies |-> s])

Mean(s) == FoldSeq(+, 0, s) \div Len(s)

\* Down: once the frame is due the samples of each channel since the last are merged,
\* and forgotten channel by channel.
MergeChannel(x, c) == ChannelsAdd([x EXCEPT !.b[c] = <<>>], Mean(x.b[c]))

DueFromStart(x) ==    \* mutant: the first frame is not kept
  (x.inFrames - 1) * conv.dst >= (x.outFrames + 1) * conv.src
Due(x) == x.outFrames = 0 \/ (x.inFrames - 1) * conv.dst >= x.outFrames * conv.src

Merge(x) == LET y == Steps(MergeChannel, x, [c \in 1..conv.channels |-> c])
            IN  IF y.err THEN y ELSE [y EXCEPT !.outFrames = @ + 1]

\* Up: the frame is repeated while it is due, and forgotten if nothing failed. A
\* frame that an Add before left in the buffer is an error.
RepeatChannel(x, c) == IF Len(x.b[c]) # 1 THEN [x EXCEPT !.err = TRUE] ELSE ChannelsAdd(x, x.b[c][1])

RepeatFrame(x, turn) ==
  IF x.outFrames = 0 \/ x.inFrames * conv.dst > x.outFrames * conv.src
  THEN LET y == Steps(RepeatChannel, x, [c \in 1..conv.channels |-> c])
       IN  IF y.err THEN y ELSE [y EXCEPT !.outFrames = @ + 1]
  ELSE x

Repeat(x) == LET y == Steps(RepeatFrame, x, [t \in 1..conv.dst \div conv.src + 1 |-> t])
             IN  IF y.err THEN y ELSE [y EXCEPT !.b = NoSamples]

\* Add of the sample rate converter.
Counted(x, s) ==
  LET c == 1 + IF x.channel = conv.channels THEN 0 ELSE x.channel
  IN  [x EXCEPT !.channel = c, !.b[c] = Append(@, s), !.inFrames = @ + IF c = conv.channels THEN 1 ELSE 0]

RateAdd(x, s) ==
  IF conv.src = conv.dst THEN ChannelsAdd(x, s)
  ELSE LET y == Counted(x, s) IN
       IF y.channel < conv.channels THEN y
       ELSE IF conv.src < conv.dst THEN Repeat(y)
       ELSE IF Due(y) THEN Merge(y) ELSE y

PCMAdd(s) == /\ Len(input) < MaxSamples
             /\ pcm' = RateAdd([pcm EXCEPT !.err = FALSE], s)
             /\ input' = Append(input, s)
             /\ sinkFailed' = (sinkFailed \/ pcm'.err)
             /\ UNCHANGED <<conv, sinkFailing>>

\* Reset of both.
PCMReset == /\ input # <<>>
            /\ pcm' = NewConverters(pcm.calls)
            /\ input' = <<>> /\ sinkFailed' = FALSE
            /\ UNCHANGED <<conv, sinkFailing>>

PCMNext == PCMReset \/ \E s \in Samples : PCMAdd(s)

-----------------------------------------------------------------------------
\* What the frames at the new rate are, by their numbers, without any state.
InFrame(n) == SubSeq(input, (n - 1) * conv.channels + 1, n * conv.channels)
InFrames == Len(input) \div conv.channels
CeilDiv(a, b) == (a + b - 1) \div b
LastMerged(k) == 1 + CeilDiv(k * conv.src, conv.dst)       \* the last frame merged into frame k
FirstMerged(k) == IF k = 0 THEN 1 ELSE LastMerged(k - 1) + 1
Merged(k) == [c \in 1..conv.channels |->
                Mean([i \in 1..LastMerged(k) - FirstMerged(k) + 1 |-> InFrame(FirstMerged(k) + i - 1)[c]])]
AtNewRate ==
  IF conv.src = conv.dst THEN input
  ELSE IF conv.src > conv.dst
  THEN FlattenSeq([k \in 1..Len(SelectSeq([i \in 1..InFrames |-> i - 1], LAMBDA j : LastMerged(j) <= InFrames))
                     |-> Merged(k - 1)])
  ELSE FlattenSeq([k \in 1..CeilDiv(InFrames * conv.dst, conv.src)
                     |-> InFrame(((k - 1) * conv.src) \div conv.dst + 1)])
\* The samples that a sample of channel c stands for in the frames sent.
Widened(s, c) == IF c > conv.to THEN <<>>
                 ELSE IF c < conv.channels THEN <<s>> ELSE [i \in 1..1 + conv.to - conv.channels |-> s]
Converted(mid) == FlattenSeq([i \in DOMAIN mid |-> Widened(mid[i], ((i - 1) % conv.channels) + 1)])

(* Frame k of the new rate merges the frames since the last one, or repeats the one of its time; each *)
(* sample stays in its channel; and each frame that comes out has the number of channels asked for    *)
(* (src/pcm.go:100-265). Once the sink failed on the way up, every frame fails until Reset: what the   *)
(* failed call left in the buffer is never forgotten (src/pcm.go:182).                                *)
FramesKept == /\ ~sinkFailed => pcm.mid = AtNewRate /\ pcm.out = Converted(pcm.mid)
              /\ sinkFailed /\ conv.src < conv.dst /\ pcm.channel = conv.channels => pcm.err
=============================================================================
