---------------------------- MODULE SilenceDetector ----------------------------
(***************************************************************************)
(* The PCMSilenceDetector of src/pcm.go: samples are analysed by steps, an *)
(* analysis is a silence or not, and what lies between two silences that   *)
(* are long enough is returned with them. Add goes through the analyses it *)
(* has kept, and the new ones, with counts that start at 0. The level of a *)
(* step (PCMLevel) is abstracted: a step is silent if its samples all are. *)
(***************************************************************************)
EXTENDS Integers, Sequences

CONSTANTS SamplesPerAnalysis, MinAnalyses,
          MaxChunk,      \* bound: the samples of an Add
          MaxLength      \* bound: the samples added

ASSUME SilenceAssumption == /\ SamplesPerAnalysis \in Nat \ {0} /\ MinAnalyses \in Nat \ {0}
                            /\ MaxChunk \in Nat

VARIABLES buf,           \* the samples of an unfinished step: TRUE is silent
          analyses,      \* the analyses kept, each with its number (history)
          analysed,      \* history: how many steps were analysed
          valid,         \* history: the runs of analyses that were returned
          oneByOne       \* history: no Add has finished more than one step

silenceVars == <<buf, analyses, analysed, valid, oneByOne>>

SilenceInit == /\ buf = <<>> /\ analyses = <<>> /\ analysed = 0 /\ valid = <<>> /\ oneByOne = TRUE

Silent(step) == \A i \in DOMAIN step : step[i]

\* The steps of the buffer, and what is left.
StepOf(b, n) == SubSeq(b, (n - 1) * SamplesPerAnalysis + 1, n * SamplesPerAnalysis)
Analysed(b) == [n \in 1..Len(b) \div SamplesPerAnalysis |->
                  [n |-> analysed + n, silent |-> Silent(StepOf(b, n))]]

From(s, n) == SubSeq(s, n, Len(s))

\* The loop of Add: the analyses seen and not removed, the counts, what is returned.
NewScan == [seen |-> <<>>, leading |-> 0, inBetween |-> 0, trailing |-> 0, valid |-> <<>>]

\* A silence before anything else: only the last of them are kept.
LeadingSilence(x, seen) ==
  IF x.leading < MinAnalyses THEN [x EXCEPT !.seen = seen, !.leading = @ + 1]
                             ELSE [x EXCEPT !.seen = From(seen, x.leading + 2 - MinAnalyses)]

\* A silence after something: long enough, it ends a run, and leads the next one.
TrailingSilence(x, seen) ==
  IF x.trailing + 1 < MinAnalyses THEN [x EXCEPT !.seen = seen, !.trailing = @ + 1]
  ELSE [seen |-> From(seen, x.leading + x.inBetween + 1), leading |-> MinAnalyses,
        inBetween |-> 0, trailing |-> 0, valid |-> Append(x.valid, seen)]

NoSilenceKept(x, seen) ==    \* mutant: a leading silence that is too short is kept
  IF x.seen = <<>> THEN x
  ELSE [x EXCEPT !.seen = seen, !.inBetween = @ + x.trailing + 1, !.trailing = 0]

\* Something else: removed when no silence leads it, or with one that is too short,
\* whose count stays.
NoSilence(x, seen) ==
  IF x.seen = <<>> THEN x
  ELSE IF x.inBetween = 0 /\ x.leading < MinAnalyses THEN [x EXCEPT !.seen = <<>>]
  ELSE [x EXCEPT !.seen = seen, !.inBetween = @ + x.trailing + 1, !.trailing = 0]

Scan(x, a) == LET seen == Append(x.seen, a) IN
              IF ~a.silent THEN NoSilence(x, seen)
              ELSE IF x.inBetween = 0 THEN LeadingSilence(x, seen) ELSE TrailingSilence(x, seen)

\* The loop, over the analyses.
Scanned(s) == LET scans[i \in 0..Len(s)] == IF i = 0 THEN NewScan ELSE Scan(scans[i - 1], s[i])
              IN  scans[Len(s)]

SilenceAdd(samples) ==
  LET b == buf \o samples
      new == Analysed(b)
      x == Scanned(analyses \o new)
  IN  /\ analysed * SamplesPerAnalysis + Len(b) <= MaxLength
      /\ buf' = From(b, Len(new) * SamplesPerAnalysis + 1)
      /\ analyses' = x.seen
      /\ analysed' = analysed + Len(new)
      /\ valid' = valid \o x.valid
      /\ oneByOne' = (oneByOne /\ Len(new) <= 1)

SilenceReset == /\ buf' = <<>> /\ analyses' = <<>> /\ UNCHANGED <<analysed, valid, oneByOne>>

Chunks == UNION {[1..n -> BOOLEAN] : n \in 1..MaxChunk}
SilenceNext == SilenceReset \/ \E samples \in Chunks : SilenceAdd(samples)

SilenceSpec == SilenceInit /\ [][SilenceNext]_silenceVars

-----------------------------------------------------------------------------
SilentRun(run, from, to) == \A i \in from..to : run[i].silent
\* The run is a piece of what was added, ends with the silence it takes, and with no
\* such silence within what lies between.
Framed(run) ==
  LET last == Len(run) - MinAnalyses IN
  /\ \A i \in 2..Len(run) : run[i].n = run[i - 1].n + 1
  /\ last >= 2 /\ run[1].silent /\ ~run[last].silent
  /\ SilentRun(run, last + 1, Len(run))

Leads(run) == Len(run) > 2 * MinAnalyses /\ SilentRun(run, 1, MinAnalyses) /\ ~run[MinAnalyses + 1].silent

(* What Add returns are pieces of the samples, in their order, that share at most the silence between *)
(* them: each begins with a silence, ends with exactly the shortest silence that counts and has       *)
(* something else before it (src/pcm.go:327-426). Its leading silence is as long if each Add finishes *)
(* at most one step; when it finishes several, the count of a leading silence that was too short is   *)
(* not reset (src/pcm.go:404) and the silence of a later run may be shorter.                          *)
RunsFramed == /\ \A i \in DOMAIN valid : Framed(valid[i]) /\ (oneByOne => Leads(valid[i]))
              /\ \A i \in 2..Len(valid) : valid[i][1].n > valid[i - 1][Len(valid[i - 1])].n - MinAnalyses
=============================================================================
