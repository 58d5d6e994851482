------------------------ MODULE HTTPDownloader_proofs ------------------------
(***************************************************************************)
(* For every number of downloads and of srcs, every limit and every number *)
(* of retries: a download that returns no error wrote every body, in the   *)
(* order of the srcs, and nothing goes on once a download has returned.    *)
(***************************************************************************)
EXTENDS HTTPDownloader, FiniteSetTheorems, WellFoundedInduction, SequenceTheorems, TLAPS

-----------------------------------------------------------------------------
\* A call is a src of a download, and what is known of both is known of it.
LEMMA CallOf == \A c \in Calls : /\ Of(c) \in Downloads /\ NSrcs[Of(c)] \in Nat
                                 /\ Idx(c) \in 1..NSrcs[Of(c)] /\ c = <<Of(c), Idx(c)>>
BY DownloaderAssumption DEF Calls, Of, Idx

LEMMA SrcIsCall == \A d \in Downloads : \A i \in 1..NSrcs[d] :
                     <<d, i>> \in Calls /\ Of(<<d, i>>) = d /\ Idx(<<d, i>>) = i
BY DEF Calls, Of, Idx

LEMMA SameCall == \A c, e \in Calls : Of(c) = Of(e) /\ Idx(c) = Idx(e) => c = e
BY CallOf

LEMMA CallsFinite == IsFiniteSet(Calls)
<1> DEFINE Srcs == [d \in Downloads |-> {d} \X (1..NSrcs[d])]
           All == {Srcs[d] : d \in Downloads}
<1>1. Srcs \in Surjection(Downloads, All) BY DEF Surjection
<1>2. IsFiniteSet(All) BY ONLY <1>1, DownloaderAssumption, FS_Surjection
<1>3. ASSUME NEW T \in All PROVE IsFiniteSet(T)
  <2>1. PICK d \in Downloads : T = {d} \X (1..NSrcs[d]) OBVIOUS
  <2>2. IsFiniteSet({d}) BY FS_Singleton
  <2>3. IsFiniteSet(1..NSrcs[d]) BY DownloaderAssumption, FS_Interval
  <2>4. QED BY <2>1, <2>2, <2>3, FS_Product
<1>4. IsFiniteSet(UNION All) BY <1>2, <1>3, FS_UNION
<1>5. Calls = UNION All BY DEF Calls
<1>6. QED BY <1>4, <1>5

-----------------------------------------------------------------------------
\* A set of numbers that is not empty has a least one.
LEMMA Least == ASSUME NEW T \in SUBSET Nat, T # {} PROVE \E n \in T : \A m \in T : n <= m
<1>1. PICK n \in T : \A m \in T : ~(<<m, n>> \in OpToRel(<, Nat))
  BY NatLessThanWellFounded, WFMin
<1>2. \A m \in T : ~(m < n)
  <2> SUFFICES ASSUME NEW m \in T, m < n PROVE <<m, n>> \in OpToRel(<, Nat) BY <1>1
  <2> QED BY DEF OpToRel
<1>3. n \in T /\ T \subseteq Nat BY <1>1
<1>4. \A m \in T : n <= m
  <2> SUFFICES ASSUME NEW m \in T PROVE n <= m OBVIOUS
  <2>1. m \in Nat /\ n \in Nat BY <1>3
  <2>2. ~(m < n) BY <1>2
  <2>3. QED BY <2>1, <2>2
<1>5. QED BY <1>3, <1>4

\* The chunks that are ready are those from the required one on, as many as there are.
LEMMA ReadyRun ==
  ASSUME NEW N \in Nat, NEW r \in 1..N + 1, NEW ks \in SUBSET (r..N)
  PROVE  \E n \in Nat : /\ Cardinality(Ready(ks, r)) = n
                        /\ r + n \notin ks /\ r + n <= N + 1
                        /\ \A i \in r..(r + n - 1) : i \in ks
<1> DEFINE Missing == {i \in Nat : i >= r /\ i \notin ks}
<1>1. N + 1 \in Missing OBVIOUS
<1>2. PICK x \in Missing : \A y \in Missing : x <= y BY <1>1, Least
<1>3. x \in Nat /\ x >= r /\ x <= N + 1 /\ x \notin ks BY <1>1, <1>2
<1>4. \A i \in r..(x - 1) : i \in ks BY <1>2, <1>3
<1>5. Ready(ks, r) = r..(x - 1)
  <2>1. ASSUME NEW i \in Ready(ks, r) PROVE i \in r..(x - 1)
    <3>1. i \in ks /\ i \in r..N /\ r..i \subseteq ks BY <2>1 DEF Ready
    <3>2. x \notin r..i BY <1>3, <3>1
    <3>3. QED BY <1>3, <3>1, <3>2
  <2>2. ASSUME NEW i \in r..(x - 1) PROVE i \in Ready(ks, r)
    BY <1>3, <1>4, <2>2 DEF Ready
  <2>3. QED BY <2>1, <2>2
<1>6. Cardinality(r..(x - 1)) = x - r BY <1>3, FS_Interval
<1>7. QED BY <1>3, <1>4, <1>5, <1>6

-----------------------------------------------------------------------------
\* The limiter counts the funcs that run.
AtRun == {c \in Calls : pc[c] = "running"}
LimiterInv == L!TypeOK /\ busy = Cardinality(AtRun)

CallerTypeOK == /\ main \in [Downloads -> {"new", "loop", "returned"}]
                /\ next \in [Downloads -> Nat \ {0}] /\ err \in [Downloads -> BOOLEAN]
                /\ cancelled \subseteq Downloads
                /\ work \in [Calls -> WorkStates]

\* The loop hands the srcs over in their order, and leaves one out only after an
\* error; a func is at work from the end of Do to the end of the func.
FlowInv == /\ \A d \in Downloads : main[d] = "new" => next[d] = 1
           /\ \A c \in Calls : /\ Idx(c) >= next[Of(c)] => pc[c] = "idle"
                               /\ Idx(c) < next[Of(c)] /\ pc[c] = "idle" => err[Of(c)]
                               /\ work[c] = "idle" <=> pc[c] \notin {"running", "done"}
                               /\ pc[c] = "done" => work[c] = "over"

\* What the wait group counts: the srcs the loop has not come to, and those whose
\* func has not reported.
Pending(d) == {i \in 1..NSrcs[d] : \/ i >= next[d]
                                   \/ pc[<<d, i>>] # "idle" /\ work[<<d, i>>] # "over"}
CountInv == /\ undone \in [Downloads -> Nat]
            /\ \A d \in Downloads : /\ main[d] # "new" => undone[d] = Cardinality(Pending(d))
                                    /\ main[d] = "returned" => Pending(d) = {}

\* The func of a src sends its request once, and closes the answer's body at its end.
SendInv == /\ S!SenderTypeOK /\ BodiesClosed
           /\ \A c \in Calls : /\ spc[c] # "answered" => answer[c] = "none"
                               /\ work[c] = "idle" => spc[c] = "idle"
                               /\ work[c] = "do" => spc[c] \in {"do", "answered", "sent", "failed"}
                               /\ work[c] \in {"copy", "callback", "succeeded"} => spc[c] = "sent"
                               /\ work[c] = "failed" => spc[c] \in {"idle", "sent"}
                               /\ work[c] = "over" => spc[c] \in {"idle", "failed", "closed"}

\* The chunks kept are those from the required one on whose callback is over, each with
\* its buffer, and nobody else holds a buffer but those who copy a body and the callbacks.
CalledBack(c) == work[c] \in {"failed", "succeeded", "over"}
BufInv == /\ required \in [Downloads -> Nat \ {0}] /\ cs \in [Downloads -> SUBSET Nat]
          /\ \A d \in Downloads : /\ required[d] \in 1..NSrcs[d] + 1
                                  /\ cs[d] \subseteq required[d]..NSrcs[d]
          /\ buf \in [Calls -> {"none", "held", "closed", "lost"}]
          /\ \A c \in Calls :
               /\ Idx(c) \in cs[Of(c)] \/ Idx(c) < required[Of(c)] => CalledBack(c)
               /\ Idx(c) \in cs[Of(c)] /\ main[Of(c)] # "returned" => buf[c] = "held"
               /\ buf[c] = "held" => /\ work[c] \in {"copy", "callback"} \/ Idx(c) \in cs[Of(c)]
                                     /\ main[Of(c)] # "returned"
               /\ work[c] \in {"copy", "callback"} => buf[c] = "held"

\* A buffer is lost only to a src that failed, and then so does the download.
LostInv == \A c \in Calls : buf[c] = "lost" => work[c] = "failed" \/ (work[c] = "over" /\ err[Of(c)])

\* As long as nothing failed a writer got the chunks before the required one, in their
\* order, and the required one is still to come; a directory got those that succeeded.
Written(d) == {written[d][k] : k \in 1..Len(written[d])}
Clean(d) == ~err[d] /\ \A c \in Calls : Of(c) = d => work[c] # "failed"
OrderInv == /\ written \in [Downloads -> Seq(Nat)]
            /\ \A d \in Writers : Clean(d) => written[d] = Consecutive(1, required[d] - 1) /\ required[d] \notin cs[d]
            /\ \A d \in Downloads \ Writers : Written(d) \subseteq 1..NSrcs[d]
            /\ \A c \in Calls : work[c] \in {"succeeded", "over"} /\ ~err[Of(c)] =>
                 IF Of(c) \in Writers THEN Idx(c) \in cs[Of(c)] \/ Idx(c) < required[Of(c)]
                                      ELSE Idx(c) \in Written(Of(c))

IInv == LimiterInv /\ CallerTypeOK /\ FlowInv /\ CountInv /\ SendInv /\ BufInv /\ LostInv /\ OrderInv

-----------------------------------------------------------------------------
LEMMA RunFinite == IsFiniteSet(AtRun) /\ Cardinality(AtRun) \in Nat
<1>1. AtRun \subseteq Calls BY DEF AtRun
<1>2. QED BY <1>1, CallsFinite, FS_Subset, FS_CardinalityType

LEMMA PendingFinite == ASSUME NEW d \in Downloads PROVE IsFiniteSet(Pending(d)) /\ Cardinality(Pending(d)) \in Nat
<1>1. Pending(d) \subseteq 1..NSrcs[d] BY DEF Pending
<1>2. IsFiniteSet(1..NSrcs[d]) BY DownloaderAssumption, FS_Interval
<1>3. QED BY <1>1, <1>2, FS_Subset, FS_CardinalityType

LEMMA ConsecutiveDef == \A i \in Nat \ {0}, n \in Nat :
  /\ Consecutive(i, n) \in Seq(Nat) /\ Len(Consecutive(i, n)) = n
  /\ \A k \in 1..n : Consecutive(i, n)[k] = i + k - 1
BY DEF Consecutive

LEMMA ConsecutiveAppend == ASSUME NEW n \in Nat, NEW m \in Nat
                     PROVE  Consecutive(1, n) \o Consecutive(n + 1, m) = Consecutive(1, n + m)
<1> DEFINE s == Consecutive(1, n)
           t == Consecutive(n + 1, m)
           u == Consecutive(1, n + m)
<1>1. s \in Seq(Nat) /\ Len(s) = n /\ \A k \in 1..n : s[k] = k
  <2>1. s \in Seq(Nat) /\ Len(s) = n /\ \A k \in 1..n : s[k] = 1 + k - 1 BY ConsecutiveDef
  <2>2. QED BY <2>1
<1>2. t \in Seq(Nat) /\ Len(t) = m /\ \A k \in 1..m : t[k] = n + k
  <2>1. t \in Seq(Nat) /\ Len(t) = m /\ \A k \in 1..m : t[k] = n + 1 + k - 1 BY ConsecutiveDef
  <2>2. QED BY <2>1
<1>3. u \in Seq(Nat) /\ Len(u) = n + m /\ \A k \in 1..n + m : u[k] = k
  <2>1. u \in Seq(Nat) /\ Len(u) = n + m /\ \A k \in 1..n + m : u[k] = 1 + k - 1
    <3>1. n + m \in Nat /\ 1 \in Nat \ {0} OBVIOUS
    <3>2. QED BY <3>1, ConsecutiveDef, Zenon
  <2>2. QED BY <2>1
<1> HIDE DEF s, t, u
<1>4. /\ s \o t \in Seq(Nat) /\ Len(s \o t) = Len(s) + Len(t)
      /\ \A k \in 1..Len(s) + Len(t) : (s \o t)[k] = IF k <= Len(s) THEN s[k] ELSE t[k - Len(s)]
  BY <1>1, <1>2, ConcatProperties
<1>5. \A k \in 1..Len(s \o t) : (s \o t)[k] = u[k] BY <1>1, <1>2, <1>3, <1>4
<1>6. s \o t = u
  <2>1. Len(s \o t) = Len(u) BY <1>1, <1>2, <1>3, <1>4
  <2>2. QED BY <2>1, <1>3, <1>4, <1>5, SeqEqual
<1>7. QED BY <1>6 DEF s, t, u

LEMMA InitIInv == Init => IInv
<1> SUFFICES ASSUME Init PROVE IInv OBVIOUS
<1> USE CallOf, DownloaderAssumption DEF Init
<1>1. LimiterInv
  <2>1. AtRun = {} BY DEF AtRun, L!Init
  <2>2. QED BY <2>1, FS_EmptySet DEF LimiterInv, L!Init, L!TypeOK, L!CallStates
<1>2. CallerTypeOK BY DEF CallerTypeOK, WorkStates
<1>3. FlowInv BY DEF FlowInv, L!Init
<1>4. CountInv BY DEF CountInv
<1>5. SendInv BY DEF SendInv, S!SenderInit, S!SenderTypeOK, S!SendStates, S!Answers, BodiesClosed, S!BodiesClosed
<1>6. BufInv BY DEF BufInv, CalledBack
<1>9. LostInv BY DEF LostInv
<1>7. OrderInv
  <2>1. written \in [Downloads -> Seq(Nat)] BY EmptySeq
  <2>2. \A d \in Downloads : written[d] = <<>> /\ Len(<<>>) = 0 BY EmptySeq
  <2>3. Consecutive(1, 0) = <<>> BY DEF Consecutive
  <2>4. QED BY <2>1, <2>2, <2>3 DEF OrderInv, Written
<1>8. QED BY <1>1, <1>2, <1>3, <1>4, <1>5, <1>6, <1>7, <1>9 DEF IInv

-----------------------------------------------------------------------------
\* What a step can do, and to which src or download.
LimiterStep == HandleCtx \/ Close \/ \E c \in Calls : DoStep(c)

LEMMA NextSteps ==
  ASSUME [Next]_vars
  PROVE  \/ LimiterStep
         \/ \E d \in Downloads : Call(d) \/ Skip(d) \/ Launch(d) \/ Return(d) \/ Cancel(d)
         \/ \E c \in Calls : \/ Begin(c) \/ SendStep(c) \/ TakeBuffer(c) \/ Process(c) \/ WriteAll(c) \/ WriteFails(c)
                             \/ Save(c) \/ Report(c) \/ Finish(c)
         \/ UNCHANGED vars
BY DEF Next, Running, Loop, Work, LimiterStep

\* The limiter's own steps move a src between the states of Do before its func.
Before == {"check", "lock", "parked", "woken", "refused"}
LEMMA LimiterMoves ==
  ASSUME LimiterInv, LimiterStep
  PROVE  /\ UNCHANGED <<sendVars, callerVars, cancelled, workVars>>
         /\ \A c \in Calls : pc'[c] = pc[c] \/ (pc[c] \in Before /\ pc'[c] \in Before)
         /\ LimiterInv'
<1> USE DEF LimiterInv, L!TypeOK, L!CallStates, Before, LimiterStep
<1>1. CASE HandleCtx
  <2>1. AtRun' = AtRun BY <1>1 DEF HandleCtx, L!HandleCtx, AtRun
  <2>2. QED BY <1>1, <2>1 DEF HandleCtx, L!HandleCtx
<1>2. CASE Close BY <1>2 DEF Close, L!Close, AtRun
<1>3. ASSUME NEW c \in Calls, DoStep(c)
      PROVE  /\ UNCHANGED <<sendVars, callerVars, cancelled, workVars>>
             /\ \A e \in Calls : pc'[e] = pc[e] \/ (pc[e] \in Before /\ pc'[e] \in Before)
             /\ LimiterInv'
  <2>1. CASE L!CheckOpen(c)
    <3>1. AtRun' = AtRun BY <2>1 DEF L!CheckOpen, L!Goto, AtRun
    <3>2. QED BY <1>3, <2>1, <3>1 DEF DoStep, L!CheckOpen, L!Goto
  <2>2. CASE L!Wait(c)
    <3>1. AtRun' = AtRun BY <2>2 DEF L!Wait, L!Goto, AtRun
    <3>2. QED BY <1>3, <2>2, <3>1 DEF DoStep, L!Wait, L!Goto
  <2>3. CASE L!Refuse(c)
    <3>1. AtRun' = AtRun BY <2>3 DEF L!Refuse, L!Goto, AtRun
    <3>2. QED BY <1>3, <2>3, <3>1 DEF DoStep, L!Refuse, L!Goto
  <2>4. QED BY <1>3, <2>1, <2>2, <2>3 DEF DoStep
<1>4. QED BY <1>1, <1>2, <1>3

LEMMA LimiterNextInv == IInv /\ [Next]_vars => LimiterInv'
<1> SUFFICES ASSUME IInv, [Next]_vars PROVE LimiterInv' OBVIOUS
<1>a. LimiterInv BY DEF IInv
<1> USE <1>a DEF LimiterInv, L!TypeOK, L!CallStates
<1>1. CASE LimiterStep BY <1>1, LimiterMoves
<1>2. ASSUME NEW d \in Downloads, Launch(d) PROVE LimiterInv'
  <2>1. AtRun' = AtRun BY <1>2 DEF Launch, L!CallDo, L!Goto, AtRun
  <2>2. QED BY <1>2, <2>1 DEF Launch, L!CallDo, L!Goto
<1>3. ASSUME NEW c \in Calls, Begin(c) PROVE LimiterInv'
  <2>1. L!Run(c) BY <1>3 DEF Begin
  <2>2. AtRun' = AtRun \cup {c} /\ c \notin AtRun BY <2>1 DEF L!Run, L!Goto, AtRun
  <2>3. Cardinality(AtRun') = Cardinality(AtRun) + 1 BY <2>2, RunFinite, FS_AddElement
  <2>4. QED BY <2>1, <2>3, RunFinite DEF L!Run, L!Goto
<1>4. ASSUME NEW c \in Calls, Finish(c) PROVE LimiterInv'
  <2>1. L!Finish(c) BY <1>4 DEF Finish
  <2>2. AtRun' = AtRun \ {c} /\ c \in AtRun BY <2>1 DEF L!Finish, L!At, AtRun
  <2>3. Cardinality(AtRun') = Cardinality(AtRun) - 1 /\ Cardinality(AtRun') \in Nat
    <3>1. IsFiniteSet(AtRun') BY <2>2, RunFinite, FS_RemoveElement
    <3>2. QED BY <2>2, <3>1, RunFinite, FS_RemoveElement, FS_CardinalityType
  <2>4. busy' \in Nat /\ busy' = Cardinality(AtRun') BY <2>1, <2>3, RunFinite DEF L!Finish
  <2>5. pc' \in [Calls -> L!CallStates] BY <2>1 DEF L!Finish, L!At
  <2>6. QED BY <2>1, <2>4, <2>5 DEF L!Finish
<1>5. CASE UNCHANGED limiterVars BY <1>5 DEF limiterVars, AtRun
<1>6. QED
  BY <1>1, <1>2, <1>3, <1>4, <1>5, NextSteps
     DEF Call, Skip, Return, Cancel, SendStep, TakeBuffer, Process, WriteAll, WriteFails, Drain, Save, Report, vars

LEMMA FlowNext == IInv /\ [Next]_vars => CallerTypeOK' /\ FlowInv'
<1> SUFFICES ASSUME IInv, [Next]_vars PROVE CallerTypeOK' /\ FlowInv' OBVIOUS
<1>a. LimiterInv /\ CallerTypeOK /\ FlowInv /\ pc \in [Calls -> L!CallStates] BY DEF IInv, LimiterInv, L!TypeOK
<1> USE <1>a, CallOf DEF CallerTypeOK, FlowInv, WorkStates, limiterVars, workVars, callerVars, L!CallStates
<1>1. CASE LimiterStep
  BY <1>1, LimiterMoves DEF Before
<1>2. ASSUME NEW d \in Downloads, Call(d) PROVE CallerTypeOK' /\ FlowInv'
  BY <1>2 DEF Call
<1>3. ASSUME NEW d \in Downloads, Skip(d) PROVE CallerTypeOK' /\ FlowInv'
  BY <1>3 DEF Skip, Looping, NextSrc
<1>4. ASSUME NEW d \in Downloads, Launch(d) PROVE CallerTypeOK' /\ FlowInv'
  <2>1. main[d] = "loop" /\ next[d] \in 1..NSrcs[d] /\ ~err[d] BY <1>4, DownloaderAssumption DEF Launch, Looping
  <2>2. PICK c \in Calls : c = <<d, next[d]>> /\ Of(c) = d /\ Idx(c) = next[d]
    <3>1. <<d, next[d]>> \in Calls /\ Of(<<d, next[d]>>) = d /\ Idx(<<d, next[d]>>) = next[d]
      BY ONLY <2>1, SrcIsCall, Zenon
    <3>2. QED BY ONLY <3>1, Zenon
  <2>3. pc[c] = "idle" /\ pc' = [pc EXCEPT ![c] = "check"] BY <1>4, <2>2 DEF Launch, L!CallDo, L!Goto
  <2>4. next' = [next EXCEPT ![d] = next[d] + 1] /\ UNCHANGED <<main, err, cancelled, work>>
    BY <1>4 DEF Launch, NextSrc
  <2>5. CallerTypeOK' BY <2>4
  <2>6. \A e \in Calls : pc'[e] = IF e = c THEN "check" ELSE pc[e] BY <2>3
  <2>7. \A e \in Calls \ {c} : Of(e) = d => Idx(e) # next[d] BY <2>2, SameCall
  <2>8. FlowInv'
    <3>1. FlowInv /\ next \in [Downloads -> Nat] OBVIOUS
    <3>2. next'[d] = next[d] + 1 /\ \A e \in Downloads \ {d} : next'[e] = next[e] BY ONLY <2>4, <3>1
    <3>3. main' = main /\ err' = err /\ work' = work BY ONLY <2>4
    <3>4. (\A e \in Downloads : main[e] = "new" => next[e] = 1)' BY ONLY <2>1, <3>1, <3>2, <3>3 DEF FlowInv
    <3>5. ASSUME NEW e \in Calls
          PROVE  (/\ Idx(e) >= next[Of(e)] => pc[e] = "idle"
                  /\ Idx(e) < next[Of(e)] /\ pc[e] = "idle" => err[Of(e)]
                  /\ work[e] = "idle" <=> pc[e] \notin {"running", "done"}
                  /\ pc[e] = "done" => work[e] = "over")'
      <4>1. Of(e) \in Downloads /\ Idx(e) \in Nat /\ next[Of(e)] \in Nat BY <3>1
      <4>2. /\ Idx(e) >= next[Of(e)] => pc[e] = "idle"
            /\ Idx(e) < next[Of(e)] /\ pc[e] = "idle" => err[Of(e)]
            /\ work[e] = "idle" <=> pc[e] \notin {"running", "done"}
            /\ pc[e] = "done" => work[e] = "over"
        BY ONLY <3>1 DEF FlowInv
      <4>3. CASE e = c BY ONLY <2>2, <2>3, <2>6, <3>2, <3>3, <4>1, <4>2, <4>3
      <4>4. CASE e # c /\ Of(e) = d
        <5>1. Idx(e) # next[d] BY ONLY <2>7, <4>4
        <5>2. pc'[e] = pc[e] BY ONLY <2>6, <4>4
        <5>3. QED BY ONLY <3>2, <3>3, <4>1, <4>2, <4>4, <5>1, <5>2
      <4>5. CASE e # c /\ Of(e) # d BY ONLY <2>6, <3>2, <3>3, <4>1, <4>2, <4>5
      <4>6. QED BY ONLY <4>3, <4>4, <4>5
    <3>6. QED BY ONLY <3>4, <3>5 DEF FlowInv
  <2>9. QED BY <2>5, <2>8
<1>5. ASSUME NEW d \in Downloads, Return(d) \/ Cancel(d) PROVE CallerTypeOK' /\ FlowInv'
  BY <1>5 DEF Return, Cancel
<1>6. ASSUME NEW c \in Calls, Begin(c) PROVE CallerTypeOK' /\ FlowInv'
  <2>1. work[c] = "idle" /\ \E w \in {"do", "failed"} : work' = [work EXCEPT ![c] = w] BY <1>6 DEF Begin, Works
  <2>2. pc[c] \in {"lock", "woken"} /\ pc' = [pc EXCEPT ![c] = "running"] BY <1>6 DEF Begin, L!Run, L!Goto
  <2>3. UNCHANGED <<callerVars, cancelled>> BY <1>6 DEF Begin
  <2>4. QED BY <2>1, <2>2, <2>3
<1>7. ASSUME NEW c \in Calls, SendStep(c) \/ TakeBuffer(c) \/ Process(c) \/ WriteAll(c) \/ WriteFails(c) \/ Save(c)
      PROVE  CallerTypeOK' /\ FlowInv'
  <2>1. \/ work' = work
        \/ work[c] \in {"do", "copy", "callback"} /\ \E w \in {"copy", "failed", "callback", "succeeded"} : work' = [work EXCEPT ![c] = w]
    BY <1>7 DEF SendStep, TakeBuffer, Process, WriteAll, WriteFails, Drain, Save, Works
  <2>2. UNCHANGED <<limiterVars, callerVars, cancelled>>
    BY <1>7 DEF SendStep, TakeBuffer, Process, WriteAll, WriteFails, Drain, Save
  <2>3. QED BY <2>1, <2>2
<1>8. ASSUME NEW c \in Calls, Report(c) PROVE CallerTypeOK' /\ FlowInv'
  <2>1. /\ work[c] \in {"do", "failed", "succeeded"} /\ work' = [work EXCEPT ![c] = "over"]
        /\ \E b \in BOOLEAN : err' = [err EXCEPT ![Of(c)] = @ \/ b]
        /\ UNCHANGED <<limiterVars, main, next, cancelled>>
    BY <1>8 DEF Report, DoFailed
  <2>2. \A d \in Downloads : err[d] => err'[d] BY <2>1
  <2>3. QED BY <2>1, <2>2
<1>9. ASSUME NEW c \in Calls, Finish(c) PROVE CallerTypeOK' /\ FlowInv'
  <2>1. work[c] = "over" /\ pc[c] = "running" BY <1>9 DEF Finish, L!Finish
  <2>2. /\ pc' \in [Calls -> L!CallStates] /\ pc'[c] = "done"
        /\ \A e \in Calls \ {c} : pc'[e] = pc[e] \/ (pc[e] = "parked" /\ pc'[e] = "woken")
    BY <1>9 DEF Finish, L!Finish, L!At
  <2>3. UNCHANGED <<callerVars, cancelled, work>> BY <1>9 DEF Finish
  <2>4. QED BY <2>1, <2>2, <2>3
<1>10. CASE UNCHANGED vars BY <1>10 DEF vars
<1>11. QED BY <1>1, <1>2, <1>3, <1>4, <1>5, <1>6, <1>7, <1>8, <1>9, <1>10, NextSteps

-----------------------------------------------------------------------------
\* A src is pending under the same conditions before and after most steps.
LEMMA SamePending ==
  ASSUME next' = next,
         \A c \in Calls : (pc'[c] = "idle" <=> pc[c] = "idle") /\ (work'[c] = "over" <=> work[c] = "over")
  PROVE  \A d \in Downloads : Pending(d)' = Pending(d)
BY SrcIsCall DEF Pending

LEMMA CountNext == IInv /\ [Next]_vars => CountInv'
<1> SUFFICES ASSUME IInv, [Next]_vars PROVE CountInv' OBVIOUS
<1>a. LimiterInv /\ CallerTypeOK /\ FlowInv /\ CountInv /\ pc \in [Calls -> L!CallStates] BY DEF IInv, LimiterInv, L!TypeOK
<1> USE <1>a, CallOf DEF CallerTypeOK, FlowInv, CountInv, limiterVars, workVars, callerVars
<1>b. ASSUME UNCHANGED <<main, undone>>, \A d \in Downloads : Pending(d)' = Pending(d) PROVE CountInv'
  BY ONLY <1>a, <1>b DEF CountInv
<1>1. CASE LimiterStep
  <2>1. next' = next /\ work' = work /\ UNCHANGED <<main, undone>> /\ \A c \in Calls : pc'[c] = "idle" <=> pc[c] = "idle"
    BY <1>1, LimiterMoves DEF Before
  <2>2. QED BY ONLY <1>b, <2>1, SamePending
<1>2. ASSUME NEW d \in Downloads, Call(d) PROVE CountInv'
  <2>1. \A e \in Downloads : Pending(e)' = Pending(e) BY <1>2, SamePending DEF Call
  <2>2. Pending(d) = 1..NSrcs[d] BY <1>2 DEF Pending, Call
  <2>3. NSrcs[d] \in Nat /\ Cardinality(1..NSrcs[d]) = NSrcs[d] BY DownloaderAssumption, FS_Interval
  <2>4. QED BY <1>2, <2>1, <2>2, <2>3 DEF Call
<1>3. ASSUME NEW d \in Downloads, Skip(d) PROVE CountInv'
  <2>1. main[d] = "loop" /\ next[d] \in 1..NSrcs[d] BY <1>3, DownloaderAssumption DEF Skip, Looping
  <2>2. /\ next' = [next EXCEPT ![d] = next[d] + 1] /\ undone' = [undone EXCEPT ![d] = undone[d] - 1]
        /\ UNCHANGED <<limiterVars, work, main>>
    BY <1>3 DEF Skip, NextSrc
  <2>3. PICK c \in Calls : c = <<d, next[d]>> /\ Of(c) = d /\ Idx(c) = next[d]
    <3>1. <<d, next[d]>> \in Calls /\ Of(<<d, next[d]>>) = d /\ Idx(<<d, next[d]>>) = next[d]
      BY ONLY <2>1, SrcIsCall, Zenon
    <3>2. QED BY ONLY <3>1, Zenon
  <2>4. pc[c] = "idle" BY <2>3
  <2>5. next[d] \in Pending(d) /\ Pending(d)' = Pending(d) \ {next[d]}
    <3>1. next[d] \in Pending(d) /\ next[d] \notin Pending(d)'
      BY <2>1, <2>2, <2>3, <2>4 DEF Pending
    <3>2. ASSUME NEW i \in 1..NSrcs[d], i # next[d] PROVE i \in Pending(d)' <=> i \in Pending(d)
      <4>1. i >= next[d] <=> i >= next'[d] BY <2>1, <2>2, <3>2
      <4>2. QED BY <2>2, <4>1 DEF Pending
    <3>3. QED BY <3>1, <3>2 DEF Pending
  <2>6. Cardinality(Pending(d)') = Cardinality(Pending(d)) - 1 /\ Cardinality(Pending(d)') \in Nat
    <3>1. IsFiniteSet(Pending(d)') BY <2>5, PendingFinite, FS_RemoveElement
    <3>2. QED BY <2>5, <3>1, PendingFinite, FS_RemoveElement, FS_CardinalityType
  <2>7. \A e \in Downloads \ {d} : Pending(e)' = Pending(e) BY <2>2 DEF Pending
  <2>8. QED BY <2>1, <2>2, <2>6, <2>7
<1>4. ASSUME NEW d \in Downloads, Launch(d) PROVE CountInv'
  <2>1. main[d] = "loop" /\ next[d] \in 1..NSrcs[d] BY <1>4, DownloaderAssumption DEF Launch, Looping
  <2>2. PICK c \in Calls : c = <<d, next[d]>> /\ Of(c) = d /\ Idx(c) = next[d]
    <3>1. <<d, next[d]>> \in Calls /\ Of(<<d, next[d]>>) = d /\ Idx(<<d, next[d]>>) = next[d]
      BY ONLY <2>1, SrcIsCall, Zenon
    <3>2. QED BY ONLY <3>1, Zenon
  <2>3. pc[c] = "idle" /\ pc' = [pc EXCEPT ![c] = "check"] BY <1>4, <2>2 DEF Launch, L!CallDo, L!Goto
  <2>4. next' = [next EXCEPT ![d] = next[d] + 1] /\ UNCHANGED <<main, undone, work>>
    BY <1>4 DEF Launch, NextSrc
  <2>5. work[c] = "idle" BY <2>3
  <2>6. \A e \in Downloads : Pending(e)' = Pending(e)
    <3>1. ASSUME NEW e \in Downloads, NEW i \in 1..NSrcs[e] PROVE i \in Pending(e)' <=> i \in Pending(e)
      <4>1. PICK f \in Calls : f = <<e, i>> /\ Of(f) = e /\ Idx(f) = i BY SrcIsCall
      <4>2. CASE f = c BY <2>1, <2>2, <2>3, <2>4, <2>5, <4>1, <4>2 DEF Pending
      <4>3. CASE f # c /\ e = d
        <5>1. i # next[d] BY <2>2, <4>1, <4>3
        <5>2. pc'[f] = pc[f] /\ i \in Nat BY <2>3, <4>3
        <5>3. i >= next[d] <=> i >= next'[d] BY <2>1, <2>4, <5>1, <5>2
        <5>4. QED BY <2>4, <4>1, <4>3, <5>2, <5>3 DEF Pending
      <4>4. CASE f # c /\ e # d BY <2>2, <2>3, <2>4, <4>1, <4>4 DEF Pending
      <4>5. QED BY <4>2, <4>3, <4>4
    <3>2. QED BY <3>1 DEF Pending
  <2>7. QED BY ONLY <1>b, <2>4, <2>6
<1>5. ASSUME NEW d \in Downloads, Return(d) PROVE CountInv'
  <2>1. \A e \in Downloads : Pending(e)' = Pending(e) BY <1>5, SamePending DEF Return
  <2>2. main[d] = "loop" /\ undone[d] = 0 /\ main' = [main EXCEPT ![d] = "returned"] /\ undone' = undone
    BY <1>5 DEF Return
  <2>3. Pending(d) = {} BY <2>2, PendingFinite, FS_EmptySet
  <2>4. QED BY <2>1, <2>2, <2>3
<1>6. ASSUME NEW d \in Downloads, Cancel(d) PROVE CountInv'
  BY <1>6, SamePending DEF Cancel
<1>7. ASSUME NEW c \in Calls, Begin(c) PROVE CountInv'
  <2>1. \A e \in Calls : (pc'[e] = "idle" <=> pc[e] = "idle") /\ (work'[e] = "over" <=> work[e] = "over")
    BY <1>7 DEF Begin, L!Run, L!Goto, Works
  <2>2. QED BY <1>7, <2>1, <1>b, SamePending DEF Begin
<1>8. ASSUME NEW c \in Calls, SendStep(c) \/ TakeBuffer(c) \/ Process(c) \/ WriteAll(c) \/ WriteFails(c) \/ Save(c) PROVE CountInv'
  <2>1. \/ work' = work
        \/ work[c] \in {"do", "copy", "callback"} /\ \E w \in {"copy", "failed", "callback", "succeeded"} : work' = [work EXCEPT ![c] = w]
    BY <1>8 DEF SendStep, TakeBuffer, Process, WriteAll, WriteFails, Drain, Save, Works
  <2>2. UNCHANGED <<limiterVars, callerVars>>
    BY <1>8 DEF SendStep, TakeBuffer, Process, WriteAll, WriteFails, Drain, Save
  <2>3. \A e \in Calls : work'[e] = "over" <=> work[e] = "over" BY <2>1
  <2>4. QED BY <2>2, <2>3, <1>b, SamePending
<1>9. ASSUME NEW c \in Calls, Report(c) PROVE CountInv'
  <2> DEFINE d == Of(c)
             i == Idx(c)
  <2>1. /\ work[c] \in {"do", "failed", "succeeded"} /\ work' = [work EXCEPT ![c] = "over"]
        /\ undone' = [undone EXCEPT ![d] = undone[d] - 1] /\ UNCHANGED <<limiterVars, main, next>>
    BY <1>9 DEF Report, DoFailed
  <2>2. pc[c] # "idle" /\ d \in Downloads /\ i \in 1..NSrcs[d] /\ c = <<d, i>> BY <2>1
  <2>3. main[d] = "loop"
    <3>1. next[d] # 1 \/ i < next[d] BY <2>2
    <3>2. i \in Pending(d) BY <2>1, <2>2 DEF Pending
    <3>3. main[d] # "returned" BY <2>2, <3>2
    <3>4. main[d] # "new"
      <4>1. i < next[d] BY <2>2
      <4>2. QED BY <4>1, <2>2
    <3>5. QED BY <3>3, <3>4, <2>2
  <2>4. i \in Pending(d) /\ Pending(d)' = Pending(d) \ {i}
    <3>1. i \in Pending(d) BY <2>1, <2>2 DEF Pending
    <3>2. ASSUME NEW k \in 1..NSrcs[d] PROVE k \in Pending(d)' <=> k \in Pending(d) /\ k # i
      <4>1. PICK f \in Calls : f = <<d, k>> /\ Of(f) = d /\ Idx(f) = k
        <5>1. <<d, k>> \in Calls /\ Of(<<d, k>>) = d /\ Idx(<<d, k>>) = k BY ONLY <2>2, SrcIsCall, Zenon
        <5>2. QED BY ONLY <5>1, Zenon
      <4>2. CASE f = c
        <5>1. k = i BY <4>1, <4>2
        <5>2. i < next[d] BY <2>2
        <5>3. k \notin Pending(d)' BY <2>1, <2>2, <4>1, <4>2, <5>1, <5>2 DEF Pending
        <5>4. QED BY <5>1, <5>3
      <4>3. CASE f # c
        <5>1. k # i BY <2>2, <4>1, <4>3
        <5>2. QED BY <2>1, <4>1, <4>3, <5>1 DEF Pending
      <4>4. QED BY <4>2, <4>3
    <3>3. QED BY <3>1, <3>2 DEF Pending
  <2>5. Cardinality(Pending(d)') = Cardinality(Pending(d)) - 1 /\ Cardinality(Pending(d)') \in Nat
    <3>1. IsFiniteSet(Pending(d)') BY <2>2, <2>4, PendingFinite, FS_RemoveElement
    <3>2. QED BY <2>2, <2>4, <3>1, PendingFinite, FS_RemoveElement, FS_CardinalityType
  <2>6. \A e \in Downloads \ {d} : Pending(e)' = Pending(e)
    <3>1. ASSUME NEW e \in Downloads \ {d}, NEW k \in 1..NSrcs[e] PROVE k \in Pending(e)' <=> k \in Pending(e)
      <4>1. PICK f \in Calls : f = <<e, k>> /\ Of(f) = e BY SrcIsCall
      <4>2. QED BY <2>1, <4>1 DEF Pending
    <3>2. QED BY <3>1 DEF Pending
  <2> HIDE DEF d, i
  <2>7. d \in Downloads BY <2>2
  <2>8. QED BY ONLY <1>a, <2>1, <2>3, <2>5, <2>6, <2>7 DEF CountInv
<1>10. ASSUME NEW c \in Calls, Finish(c) PROVE CountInv'
  <2>1. \A e \in Calls : pc'[e] = "idle" <=> pc[e] = "idle"
    BY <1>10 DEF Finish, L!Finish, L!At
  <2>2. QED BY <1>10, <2>1, <1>b, SamePending DEF Finish
<1>11. CASE UNCHANGED vars BY <1>11, SamePending DEF vars
<1>12. QED BY <1>1, <1>2, <1>3, <1>4, <1>5, <1>6, <1>7, <1>8, <1>9, <1>10, <1>11, NextSteps

-----------------------------------------------------------------------------
LEMMA SendNext == IInv /\ [Next]_vars => SendInv'
<1> SUFFICES ASSUME IInv, [Next]_vars PROVE SendInv' OBVIOUS
<1>a. CallerTypeOK /\ SendInv /\ work \in [Calls -> WorkStates] /\ RetryMax \in Nat
  BY DownloaderAssumption DEF IInv, CallerTypeOK
<1> USE <1>a DEF SendInv, S!SenderTypeOK, S!SendStates, S!Answers, BodiesClosed, S!BodiesClosed, WorkStates, sendVars
<1>1. ASSUME NEW c \in Calls, Begin(c) PROVE SendInv'
  <2>1. CASE Works(c, "idle", "do") /\ S!Send(c) BY <2>1 DEF Works, S!Send, S!Sends
  <2>2. CASE Works(c, "idle", "failed") /\ UNCHANGED sendVars BY <2>2 DEF Works
  <2>3. QED BY <1>1, <2>1, <2>2 DEF Begin
<1>2. ASSUME NEW c \in Calls, SendStep(c) PROVE SendInv'
  <2>1. PICK done \in BOOLEAN : S!SendStep(c, done) BY <1>2 DEF SendStep
  <2>2. work' = work BY <1>2 DEF SendStep, workVars
  <2>3. spc[c] \in {"do", "answered"}
    BY <2>1 DEF S!SendStep, S!Answered, S!TimedOut, S!Fails, S!Expired, S!Retry, S!GiveUp, S!Returns, S!Sends, S!Ends
  <2>4. work[c] = "do" BY <2>3
  <2>5. CASE S!Answered(c) BY <2>2, <2>4, <2>5 DEF S!Answered, S!Sends
  <2>6. CASE S!TimedOut(c) BY <2>2, <2>4, <2>6 DEF S!TimedOut, S!Sends
  <2>7. CASE S!Fails(c) BY <2>2, <2>4, <2>7 DEF S!Fails, S!Ends, S!Sends
  <2>8. CASE S!Expired(c, done) BY <2>2, <2>4, <2>8 DEF S!Expired, S!Ends, S!Sends, S!CloseBody
  <2>9. CASE S!Retry(c, done) BY <2>2, <2>4, <2>9 DEF S!Retry, S!Sends, S!CloseBody
  <2>10. CASE S!GiveUp(c, done) BY <2>2, <2>4, <2>10 DEF S!GiveUp, S!Ends, S!Sends, S!WantsRetry
  <2>11. CASE S!Returns(c, done) BY <2>2, <2>4, <2>11 DEF S!Returns, S!Ends, S!Sends, S!WantsRetry
  <2>12. QED BY <2>1, <2>5, <2>6, <2>7, <2>8, <2>9, <2>10, <2>11 DEF S!SendStep
<1>3. ASSUME NEW c \in Calls, TakeBuffer(c) \/ Process(c) PROVE SendInv'
  BY <1>3 DEF TakeBuffer, Process, Works
<1>4. ASSUME NEW c \in Calls, WriteAll(c) \/ WriteFails(c) \/ Save(c) PROVE SendInv'
  <2>1. work[c] = "callback" /\ \E w \in {"failed", "succeeded"} : work' = [work EXCEPT ![c] = w]
    BY <1>4 DEF WriteAll, WriteFails, Drain, Save, Works
  <2>2. UNCHANGED sendVars BY <1>4 DEF WriteAll, WriteFails, Drain, Save
  <2>3. QED BY <2>1, <2>2
<1>5. ASSUME NEW c \in Calls, Report(c) PROVE SendInv'
  <2>1. CASE spc[c] = "sent" BY <1>5, <2>1 DEF Report, S!CloseAnswer, S!Sends
  <2>2. CASE spc[c] # "sent" BY <1>5, <2>2 DEF Report, DoFailed
  <2>3. QED BY <2>1, <2>2
<1>6. CASE UNCHANGED <<sendVars, work>> BY <1>6
<1>7. QED
  BY <1>1, <1>2, <1>3, <1>4, <1>5, <1>6, NextSteps, LimiterMoves
     DEF IInv, Call, Skip, Launch, Return, Cancel, Finish, vars, workVars

-----------------------------------------------------------------------------
LEMMA WrittenRun ==
  ASSUME IInv, NEW c \in Calls, work[c] = "callback"
  PROVE  \E n \in Nat : /\ Cardinality(ReadyWith(c)) = n
                        /\ required[Of(c)] + n \notin Kept(c) /\ required[Of(c)] + n <= NSrcs[Of(c)] + 1
                        /\ \A i \in required[Of(c)]..(required[Of(c)] + n - 1) : i \in Kept(c)
<1>1. /\ Of(c) \in Downloads /\ NSrcs[Of(c)] \in Nat /\ required[Of(c)] \in 1..NSrcs[Of(c)] + 1
      /\ cs[Of(c)] \subseteq required[Of(c)]..NSrcs[Of(c)] /\ Idx(c) \in 1..NSrcs[Of(c)]
  BY CallOf DEF IInv, BufInv
<1>2. ~(Idx(c) < required[Of(c)]) BY DEF IInv, BufInv, CalledBack
<1>3. Kept(c) \subseteq required[Of(c)]..NSrcs[Of(c)] BY <1>1, <1>2 DEF Kept
<1>4. QED BY <1>1, <1>3, ReadyRun DEF ReadyWith

LEMMA BufNext == IInv /\ [Next]_vars => BufInv'
<1> SUFFICES ASSUME IInv, [Next]_vars PROVE BufInv' OBVIOUS
<1>a. CallerTypeOK /\ FlowInv /\ CountInv /\ BufInv BY DEF IInv
<1> USE <1>a, CallOf DEF BufInv, CalledBack
<1>0. work \in [Calls -> WorkStates] /\ main \in [Downloads -> {"new", "loop", "returned"}] BY DEF CallerTypeOK
<1>1. ASSUME NEW d \in Downloads, Call(d) PROVE BufInv'
  BY <1>1, <1>0 DEF Call, workVars
<1>2. ASSUME NEW d \in Downloads, Return(d) PROVE BufInv'
  <2>1. /\ main' = [main EXCEPT ![d] = "returned"] /\ UNCHANGED <<work, cs, required>>
        /\ buf' = [c \in Calls |-> IF Of(c) = d /\ Idx(c) \in cs[d] THEN "closed" ELSE buf[c]]
    BY <1>2 DEF Return, CloseKept
  <2>2. Pending(d)' = {} BY <1>2, CountNext DEF CountInv, Return, CallerTypeOK
  <2>3. \A c \in Calls : Of(c) = d => work[c] \notin {"copy", "callback"}
    <3> SUFFICES ASSUME NEW c \in Calls, Of(c) = d, work[c] \in {"copy", "callback"} PROVE FALSE OBVIOUS
    <3>1. pc[c] # "idle" /\ pc' = pc BY <1>2 DEF FlowInv, Return, limiterVars
    <3>2. Idx(c) \in Pending(d)' BY <2>1, <3>1 DEF Pending
    <3>3. QED BY <2>2, <3>2
  <2>4. QED BY <2>1, <2>3, <1>0
<1>3. ASSUME NEW c \in Calls, Begin(c) PROVE BufInv'
  <2>1. /\ work[c] = "idle" /\ \E w \in {"do", "failed"} : work' = [work EXCEPT ![c] = w]
        /\ UNCHANGED <<main, buf, cs, required>>
    BY <1>3 DEF Begin, Works, callerVars
  <2>2. QED BY <2>1, <1>0
<1>4. ASSUME NEW c \in Calls, TakeBuffer(c) PROVE BufInv'
  <2>1. UNCHANGED <<main, cs, required>> BY <1>4 DEF TakeBuffer, callerVars
  <2>2. /\ work[c] = "do" /\ work' = [work EXCEPT ![c] = "copy"] /\ buf' = [buf EXCEPT ![c] = "held"]
    BY <1>4 DEF TakeBuffer, Works
  <2>3. main[Of(c)] # "returned"
    <3>1. pc[c] # "idle" BY <2>2 DEF FlowInv
    <3>2. Idx(c) \in Pending(Of(c)) BY <2>2, <3>1 DEF Pending
    <3>3. QED BY <3>2 DEF CountInv
  <2>4. QED BY <2>1, <2>2, <2>3, <1>0
<1>12. ASSUME NEW c \in Calls, Process(c) PROVE BufInv'
  <2>1. UNCHANGED <<main, cs, required>> BY <1>12 DEF Process, callerVars
  <2>2. CASE Works(c, "copy", "failed") /\ buf' = [buf EXCEPT ![c] = "lost"]
    <3>1. work[c] = "copy" /\ work' = [work EXCEPT ![c] = "failed"] BY <2>2 DEF Works
    <3>2. Idx(c) \notin cs[Of(c)] BY <3>1
    <3>3. QED BY <2>1, <2>2, <3>1, <3>2, <1>0
  <2>3. CASE Works(c, "copy", "callback") /\ UNCHANGED buf BY <2>1, <2>3, <1>0 DEF Works
  <2>4. QED BY <1>12, <2>2, <2>3 DEF Process
<1>5. ASSUME NEW c \in Calls, NEW n \in Nat, NEW o \in {"failed", "succeeded"}, Drain(c, Kept(c), n, o),
             n <= Cardinality(ReadyWith(c))
      PROVE  BufInv'
  <2> DEFINE d == Of(c)
             r == required[d]
  <2>1. /\ work[c] = "callback" /\ work' = [work EXCEPT ![c] = o]
        /\ buf' = [e \in Calls |-> IF Of(e) = d /\ Idx(e) \in r..(r + n - 1) THEN "closed" ELSE buf[e]]
        /\ cs' = [cs EXCEPT ![d] = Kept(c) \ (r..(r + n - 1))]
        /\ required' = [required EXCEPT ![d] = r + n]
        /\ main' = main
    BY <1>5 DEF Drain, Works, callerVars
  <2>2. PICK m \in Nat : /\ Cardinality(ReadyWith(c)) = m
                         /\ r + m \notin Kept(c) /\ r + m <= NSrcs[d] + 1
                         /\ \A i \in r..(r + m - 1) : i \in Kept(c)
    BY <2>1, WrittenRun
  <2>3. n <= m BY <1>5, <2>2
  <2>4. d \in Downloads /\ NSrcs[d] \in Nat /\ r \in 1..NSrcs[d] + 1 /\ Idx(c) \in 1..NSrcs[d] OBVIOUS
  <2>5. \A i \in r..(r + n - 1) : i \in Kept(c) BY <2>2, <2>3, <2>4
  <2>6. Idx(c) >= r BY <2>1, <2>4
  <2>7. Kept(c) = cs[d] \cup {Idx(c)} BY DEF Kept
  <2>8. required'[d] = r + n /\ cs'[d] = Kept(c) \ (r..(r + n - 1)) BY <2>1
  <2>9. \A e \in Downloads \ {d} : required'[e] = required[e] /\ cs'[e] = cs[e] BY <2>1
  <2>10. required'[d] \in 1..NSrcs[d] + 1 /\ cs'[d] \subseteq required'[d]..NSrcs[d]
    BY <2>2, <2>3, <2>4, <2>6, <2>7, <2>8
  <2>11. main[d] # "returned" BY <2>1
  <2>12. \A e \in Calls : Of(e) = d /\ e # c => Idx(e) # Idx(c) BY SameCall
  <2> HIDE DEF d, r
  <2>13. /\ required' \in [Downloads -> Nat \ {0}] /\ cs' \in [Downloads -> SUBSET Nat]
         /\ \A e \in Downloads : /\ required'[e] \in 1..NSrcs[e] + 1
                                 /\ cs'[e] \subseteq required'[e]..NSrcs[e]
    <3>1. \A e \in Downloads : NSrcs[e] \in Nat BY DownloaderAssumption
    <3>2. \A e \in Downloads : /\ required'[e] \in 1..NSrcs[e] + 1
                               /\ cs'[e] \subseteq required'[e]..NSrcs[e]
      BY <2>9, <2>10, <3>1
    <3>3. DOMAIN required' = Downloads /\ DOMAIN cs' = Downloads BY <2>1
    <3>4. required' = [e \in Downloads |-> required'[e]] /\ cs' = [e \in Downloads |-> cs'[e]] BY <2>1
    <3>5. \A e \in Downloads : required'[e] \in Nat \ {0} /\ cs'[e] \in SUBSET Nat BY <3>1, <3>2
    <3>6. QED BY <3>2, <3>4, <3>5
  <2>14. \A e \in Calls : /\ Idx(e) \in cs'[Of(e)] \/ Idx(e) < required'[Of(e)] => CalledBack(e)'
                          /\ Idx(e) \in cs'[Of(e)] /\ main'[Of(e)] # "returned" => buf'[e] = "held"
                          /\ buf'[e] = "held" => /\ work'[e] \in {"copy", "callback"} \/ Idx(e) \in cs'[Of(e)]
                                                 /\ main'[Of(e)] # "returned"
                          /\ work'[e] \in {"copy", "callback"} => buf'[e] = "held"
    <3> SUFFICES ASSUME NEW e \in Calls
                 PROVE  /\ Idx(e) \in cs'[Of(e)] \/ Idx(e) < required'[Of(e)] => CalledBack(e)'
                        /\ Idx(e) \in cs'[Of(e)] /\ main'[Of(e)] # "returned" => buf'[e] = "held"
                        /\ buf'[e] = "held" => /\ work'[e] \in {"copy", "callback"} \/ Idx(e) \in cs'[Of(e)]
                                               /\ main'[Of(e)] # "returned"
                        /\ work'[e] \in {"copy", "callback"} => buf'[e] = "held"
      OBVIOUS
    <3>1. CASE Of(e) # d
      <4>1. Of(e) \in Downloads /\ e # c BY <3>1 DEF d
      <4>2. cs'[Of(e)] = cs[Of(e)] /\ required'[Of(e)] = required[Of(e)] /\ buf'[e] = buf[e] /\ work'[e] = work[e]
        BY <3>1, <4>1, <2>1, <2>9, <1>0
      <4>3. QED BY <4>2, <2>1
    <3>2. CASE e = c
      <4>1. Of(e) = d BY <3>2 DEF d
      <4>2. work'[e] = o BY <3>2, <2>1, <1>0
      <4>3. buf[e] = "held" BY <3>2, <2>1
      <4>4. buf'[e] = IF Idx(e) \in r..(r + n - 1) THEN "closed" ELSE "held" BY <4>1, <4>3, <2>1
      <4>5. Idx(e) \in cs'[d] <=> Idx(e) \notin r..(r + n - 1) BY <3>2, <2>7, <2>8
      <4>6. QED BY <4>1, <4>2, <4>4, <4>5, <2>1, <2>11
    <3>3. CASE Of(e) = d /\ e # c
      <4>1. work'[e] = work[e] /\ Idx(e) # Idx(c) BY <3>3, <2>1, <2>12, <1>0
      <4>2. Idx(e) \in Kept(c) <=> Idx(e) \in cs[d] BY <4>1, <2>7
      <4>3. buf'[e] = IF Idx(e) \in r..(r + n - 1) THEN "closed" ELSE buf[e] BY <3>3, <2>1
      <4>4. Idx(e) \in cs'[d] <=> Idx(e) \in cs[d] /\ Idx(e) \notin r..(r + n - 1) BY <4>2, <2>8
      <4>5. Idx(e) < r + n => Idx(e) < r \/ Idx(e) \in cs[d]
        <5>1. Idx(e) \in Nat /\ r \in Nat BY <2>4
        <5>2. QED BY <5>1, <4>2, <2>5
      <4>6. r = required[Of(e)] /\ cs[d] = cs[Of(e)] /\ required'[Of(e)] = r + n BY <3>3, <2>8 DEF r
      <4>7. Idx(e) \in r..(r + n - 1) => CalledBack(e) BY <2>5, <4>2, <4>6
      <4>8. QED BY <3>3, <4>1, <4>3, <4>4, <4>5, <4>6, <4>7, <2>1, <2>11
    <3>4. QED BY <3>1, <3>2, <3>3
  <2>15. buf' \in [Calls -> {"none", "held", "closed", "lost"}] BY <2>1
  <2>16. QED BY <2>13, <2>14, <2>15
<1>6. ASSUME NEW c \in Calls, WriteAll(c) PROVE BufInv'
  <2>1. work[c] = "callback" BY <1>6 DEF WriteAll, Drain, Works
  <2>2. PICK n \in Nat : Cardinality(ReadyWith(c)) = n BY <2>1, WrittenRun
  <2>3. QED BY <1>6, <2>2, <1>5 DEF WriteAll
<1>7. ASSUME NEW c \in Calls, WriteFails(c) PROVE BufInv'
  <2>1. PICK n \in 1..Cardinality(ReadyWith(c)) : Drain(c, Kept(c), n, "failed") BY <1>7 DEF WriteFails
  <2>2. work[c] = "callback" BY <2>1 DEF Drain, Works
  <2>3. PICK m \in Nat : Cardinality(ReadyWith(c)) = m BY <2>2, WrittenRun
  <2>4. n \in Nat /\ n <= Cardinality(ReadyWith(c)) BY <2>1, <2>3
  <2>5. QED BY <2>1, <2>4, <1>5
<1>8. ASSUME NEW c \in Calls, Save(c) PROVE BufInv'
  <2>1. /\ work[c] = "callback" /\ \E w \in {"failed", "succeeded"} : work' = [work EXCEPT ![c] = w]
        /\ buf' = [buf EXCEPT ![c] = "closed"] /\ UNCHANGED <<main, cs, required>>
    BY <1>8 DEF Save, Works, callerVars
  <2>2. Idx(c) \notin cs[Of(c)] BY <2>1
  <2>3. QED BY <2>1, <2>2, <1>0
<1>9. ASSUME NEW c \in Calls, Report(c) PROVE BufInv'
  <2>1. /\ work[c] \in {"do", "failed", "succeeded"} /\ work' = [work EXCEPT ![c] = "over"]
        /\ UNCHANGED <<main, buf, cs, required>>
    BY <1>9 DEF Report, DoFailed
  <2>2. QED BY <2>1, <1>0
<1>10. CASE UNCHANGED <<main, work, buf, cs, required>> BY <1>10
<1>11. QED
  BY <1>1, <1>2, <1>3, <1>4, <1>6, <1>7, <1>8, <1>9, <1>10, <1>12, NextSteps, LimiterMoves
     DEF IInv, Skip, Launch, Cancel, SendStep, Finish, vars, callerVars, workVars

-----------------------------------------------------------------------------
LEMMA LostNext == IInv /\ [Next]_vars => LostInv'
<1> SUFFICES ASSUME IInv, [Next]_vars PROVE LostInv' OBVIOUS
<1>a. /\ LostInv /\ work \in [Calls -> WorkStates] /\ err \in [Downloads -> BOOLEAN]
      /\ buf \in [Calls -> {"none", "held", "closed", "lost"}] /\ \A c \in Calls : Of(c) \in Downloads
  BY CallOf DEF IInv, CallerTypeOK, BufInv
<1>1. ASSUME UNCHANGED work, \A c \in Calls : buf'[c] = "lost" => buf[c] = "lost", \A d \in Downloads : err[d] => err'[d]
      PROVE  LostInv'
  BY ONLY <1>a, <1>1 DEF LostInv
<1>2. ASSUME NEW d \in Downloads, Skip(d) PROVE LostInv'
  <2>1. UNCHANGED <<work, buf>> /\ err' = [err EXCEPT ![d] = TRUE] BY <1>2 DEF Skip, workVars
  <2>2. \A e \in Downloads : err[e] => err'[e] BY <1>a, <2>1
  <2>3. QED BY <1>1, <2>1, <2>2
<1>3. ASSUME NEW d \in Downloads, Return(d) PROVE LostInv'
  <2>1. UNCHANGED <<work, err>> /\ buf' = [c \in Calls |-> IF Of(c) = d /\ Idx(c) \in cs[d] THEN "closed" ELSE buf[c]]
    BY <1>3 DEF Return, CloseKept
  <2>2. \A c \in Calls : buf'[c] = "lost" => buf[c] = "lost" BY <2>1
  <2>3. QED BY <1>1, <2>1, <2>2
<1>4. ASSUME NEW c \in Calls, work[c] \in {"idle", "do", "copy", "callback"}, NEW o, work' = [work EXCEPT ![c] = o],
             UNCHANGED err, \A e \in Calls \ {c} : buf'[e] = "lost" => buf[e] = "lost",
             buf'[c] = "lost" => buf[c] = "lost" \/ o = "failed"
      PROVE  LostInv'
  BY ONLY <1>a, <1>4 DEF LostInv
<1>5. ASSUME NEW c \in Calls, Begin(c) \/ TakeBuffer(c) \/ Process(c) PROVE LostInv'
  <2>1. UNCHANGED err BY <1>5 DEF Begin, TakeBuffer, Process, callerVars
  <2>2. CASE Begin(c)
    <3>1. work[c] = "idle" /\ buf' = buf /\ \E o : work' = [work EXCEPT ![c] = o] BY <2>2 DEF Begin, Works
    <3>2. QED BY <1>4, <2>1, <3>1
  <2>3. CASE TakeBuffer(c)
    <3>1. work[c] = "do" /\ work' = [work EXCEPT ![c] = "copy"] /\ buf' = [buf EXCEPT ![c] = "held"]
      BY <2>3 DEF TakeBuffer, Works
    <3>2. buf'[c] = "held" /\ \A e \in Calls \ {c} : buf'[e] = buf[e] BY <1>a, <3>1
    <3>3. QED BY <1>4, <2>1, <3>1, <3>2
  <2>4. CASE Process(c)
    <3>1. CASE Works(c, "copy", "failed") /\ buf' = [buf EXCEPT ![c] = "lost"]
      <4>1. \A e \in Calls \ {c} : buf'[e] = buf[e] BY <1>a, <3>1
      <4>2. QED BY <1>4, <2>1, <3>1, <4>1 DEF Works
    <3>2. CASE Works(c, "copy", "callback") /\ UNCHANGED buf BY <1>4, <2>1, <3>2 DEF Works
    <3>3. QED BY <2>4, <3>1, <3>2 DEF Process
  <2>5. QED BY <1>5, <2>2, <2>3, <2>4
<1>6. ASSUME NEW c \in Calls, NEW ks, NEW n, NEW o, Drain(c, ks, n, o) PROVE LostInv'
  <2>1. PICK gone : buf' = [e \in Calls |-> IF Of(e) = Of(c) /\ Idx(e) \in gone THEN "closed" ELSE buf[e]]
    BY <1>6 DEF Drain
  <2>2. \A e \in Calls : buf'[e] = "lost" => buf[e] = "lost" BY ONLY <2>1
  <2>3. work[c] = "callback" /\ work' = [work EXCEPT ![c] = o] /\ UNCHANGED err BY <1>6 DEF Drain, Works, callerVars
  <2>4. QED BY <1>4, <2>2, <2>3
<1>7. ASSUME NEW c \in Calls, Save(c) PROVE LostInv'
  <2>1. work[c] = "callback" /\ UNCHANGED err /\ buf' = [buf EXCEPT ![c] = "closed"] BY <1>7 DEF Save, Works, callerVars
  <2>2. \E o : work' = [work EXCEPT ![c] = o] BY <1>7 DEF Save, Works
  <2>3. \A e \in Calls : buf'[e] = "lost" => buf[e] = "lost" BY <1>a, <2>1
  <2>4. QED BY <1>4, <2>1, <2>2, <2>3
<1>8. ASSUME NEW c \in Calls, Report(c) PROVE LostInv'
  <2>1. /\ work' = [work EXCEPT ![c] = "over"] /\ buf' = buf
        /\ err' = [err EXCEPT ![Of(c)] = @ \/ DoFailed(c)]
        /\ DoFailed(c) \/ work[c] = "succeeded"
    BY <1>8 DEF Report
  <2>2. err'[Of(c)] <=> err[Of(c)] \/ DoFailed(c) BY <1>a, <2>1
  <2>3. \A d \in Downloads : err[d] => err'[d] BY <1>a, <2>1, <2>2
  <2>4. work[c] = "failed" => err'[Of(c)] BY <2>2 DEF DoFailed
  <2>5. work'[c] = "over" /\ \A e \in Calls \ {c} : work'[e] = work[e] BY <1>a, <2>1
  <2>6. work[c] # "over" BY <2>1 DEF DoFailed
  <2>7. ASSUME NEW e \in Calls, buf'[e] = "lost" PROVE work'[e] = "failed" \/ (work'[e] = "over" /\ err'[Of(e)])
    <3>1. work[e] = "failed" \/ (work[e] = "over" /\ err[Of(e)]) BY <1>a, <2>1, <2>7 DEF LostInv
    <3>2. CASE e = c BY <2>4, <2>5, <2>6, <3>1, <3>2
    <3>3. CASE e # c BY <1>a, <2>3, <2>5, <3>1, <3>3
    <3>4. QED BY <3>2, <3>3
  <2>8. QED BY <2>7 DEF LostInv
<1>9. ASSUME NEW c \in Calls, WriteAll(c) \/ WriteFails(c) PROVE LostInv' BY <1>6, <1>9 DEF WriteAll, WriteFails
<1>10. CASE UNCHANGED <<work, buf, err>> BY <1>1, <1>10
<1>11. LimiterStep => UNCHANGED <<work, buf, err>> BY LimiterMoves DEF IInv, callerVars, workVars
<1>12. ASSUME NEW d \in Downloads, Call(d) \/ Launch(d) \/ Cancel(d) PROVE UNCHANGED <<work, buf, err>>
  BY <1>12 DEF Call, Launch, Cancel, callerVars, workVars
<1>13. ASSUME NEW c \in Calls, SendStep(c) \/ Finish(c) PROVE UNCHANGED <<work, buf, err>>
  BY <1>13 DEF SendStep, Finish, callerVars, workVars
<1>14. UNCHANGED vars => UNCHANGED <<work, buf, err>> BY DEF vars, callerVars, workVars
<1>15. QED BY <1>2, <1>3, <1>5, <1>7, <1>8, <1>9, <1>10, <1>11, <1>12, <1>13, <1>14, NextSteps

-----------------------------------------------------------------------------
LEMMA AppendRange ==
  ASSUME NEW s \in Seq(Nat), NEW x \in Nat
  PROVE  {Append(s, x)[k] : k \in 1..Len(Append(s, x))} = {s[k] : k \in 1..Len(s)} \cup {x}
<1>1. /\ Len(s) \in Nat /\ Len(Append(s, x)) = Len(s) + 1 /\ Append(s, x)[Len(s) + 1] = x
      /\ \A k \in 1..Len(s) : Append(s, x)[k] = s[k]
  BY AppendProperties, LenProperties
<1>2. 1..Len(Append(s, x)) = 1..Len(s) \cup {Len(s) + 1} BY <1>1
<1>3. QED BY <1>1, <1>2

\* What a callback that copies to the writer does.
LEMMA DrainOrder ==
  ASSUME IInv, NEW c \in Calls, NEW n \in Nat, NEW o \in {"failed", "succeeded"}, Drain(c, Kept(c), n, o),
         IF o = "succeeded" THEN n = Cardinality(ReadyWith(c)) ELSE n >= 1,
         Of(c) \in Writers
  PROVE  OrderInv'
<1> DEFINE d == Of(c)
           r == required[d]
           gone == r..(r + n - 1)
<1>1. /\ work[c] = "callback" /\ work' = [work EXCEPT ![c] = o]
      /\ cs' = [cs EXCEPT ![d] = Kept(c) \ gone]
      /\ required' = [required EXCEPT ![d] = r + n]
      /\ written' = [written EXCEPT ![d] = @ \o Consecutive(r, IF o = "failed" THEN n - 1 ELSE n)]
      /\ err' = err
  BY DEF Drain, Works, callerVars
<1>2. /\ d \in Downloads /\ NSrcs[d] \in Nat /\ r \in Nat \ {0} /\ Idx(c) \in 1..NSrcs[d]
      /\ work \in [Calls -> WorkStates] /\ required \in [Downloads -> Nat \ {0}] /\ cs \in [Downloads -> SUBSET Nat]
      /\ written \in [Downloads -> Seq(Nat)] /\ OrderInv
  BY CallOf DEF IInv, BufInv, CallerTypeOK, OrderInv
<1>3. Kept(c) = cs[d] \cup {Idx(c)} BY DEF Kept
<1>4. /\ required'[d] = r + n /\ cs'[d] = Kept(c) \ gone /\ work'[c] = o
      /\ written'[d] = written[d] \o Consecutive(r, IF o = "failed" THEN n - 1 ELSE n)
      /\ \A e \in Calls \ {c} : work'[e] = work[e]
      /\ \A e \in Downloads \ {d} : required'[e] = required[e] /\ cs'[e] = cs[e] /\ written'[e] = written[e]
  BY <1>1, <1>2
<1>5. d \in Writers OBVIOUS
<1>6. \A e \in Calls : Of(e) \in Downloads /\ Idx(e) \in Nat BY CallOf
<1>7. n >= 1 \/ o = "succeeded" OBVIOUS
<1>8. o = "succeeded" => r + n \notin Kept(c)
  <2>1. PICK m \in Nat : Cardinality(ReadyWith(c)) = m /\ r + m \notin Kept(c) BY <1>1, WrittenRun
  <2>2. QED BY <2>1
<1> HIDE DEF d, gone, r
<1>9. written' \in [Downloads -> Seq(Nat)]
  <2>1. (IF o = "failed" THEN n - 1 ELSE n) \in Nat BY <1>7
  <2>2. PICK m \in Nat : m = IF o = "failed" THEN n - 1 ELSE n BY <2>1
  <2>3. Consecutive(r, m) \in Seq(Nat) BY <1>2, ConsecutiveDef
  <2>4. written[d] \o Consecutive(r, m) \in Seq(Nat) BY <1>2, <2>3, ConcatProperties
  <2>5. QED BY <1>1, <1>2, <2>2, <2>4
<1>10. \A e \in Downloads : Clean(e)' => Clean(e) /\ (e = d => o = "succeeded")
  BY <1>1, <1>2, <1>4 DEF Clean, d
<1>11. \A e \in Writers : Clean(e)' => written'[e] = Consecutive(1, required'[e] - 1) /\ required'[e] \notin cs'[e]
  <2> SUFFICES ASSUME NEW e \in Writers, Clean(e)'
               PROVE  written'[e] = Consecutive(1, required'[e] - 1) /\ required'[e] \notin cs'[e]
    OBVIOUS
  <2>1. e \in Downloads /\ Clean(e) BY <1>10, DownloaderAssumption
  <2>2. written[e] = Consecutive(1, required[e] - 1) /\ required[e] \notin cs[e] BY <1>2, <2>1 DEF OrderInv
  <2>3. CASE e # d BY <1>4, <2>1, <2>2, <2>3
  <2>4. CASE e = d
    <3>1. o = "succeeded" BY <1>10, <2>1, <2>4
    <3>2. required'[d] \notin cs'[d] BY <1>4, <1>8, <3>1
    <3>3. PICK k \in Nat : r = k + 1
      <4>1. r - 1 \in Nat /\ r = (r - 1) + 1 BY <1>2
      <4>2. QED BY <4>1
    <3>4. written[d] = Consecutive(1, k)
      <4>1. required[d] - 1 = k BY <1>2, <3>3 DEF r
      <4>2. QED BY <2>2, <2>4, <4>1
    <3>5. written'[d] = Consecutive(1, k) \o Consecutive(k + 1, n)
      <4>1. (IF o = "failed" THEN n - 1 ELSE n) = n BY <3>1
      <4>2. QED BY ONLY <1>4, <3>3, <3>4, <4>1
    <3>6. Consecutive(1, k) \o Consecutive(k + 1, n) = Consecutive(1, k + n) BY ConsecutiveAppend
    <3>7. required'[d] - 1 = k + n BY <1>4, <3>3
    <3>8. QED BY <2>4, <3>2, <3>5, <3>6, <3>7
  <2>5. QED BY <2>3, <2>4
<1>12. \A e \in Downloads \ Writers : Written(e)' \subseteq 1..NSrcs[e]
  <2> SUFFICES ASSUME NEW e \in Downloads \ Writers PROVE Written(e)' \subseteq 1..NSrcs[e] OBVIOUS
  <2>1. written'[e] = written[e] BY <1>4, <1>5
  <2>2. Written(e)' = Written(e) BY <2>1 DEF Written
  <2>3. Written(e) \subseteq 1..NSrcs[e] BY <1>2 DEF OrderInv
  <2>4. QED BY <2>2, <2>3
<1>13. \A e \in Calls : work'[e] \in {"succeeded", "over"} /\ ~err'[Of(e)] =>
         IF Of(e) \in Writers THEN Idx(e) \in cs'[Of(e)] \/ Idx(e) < required'[Of(e)]
                              ELSE Idx(e) \in Written(Of(e))'
  <2> SUFFICES ASSUME NEW e \in Calls, work'[e] \in {"succeeded", "over"}, ~err'[Of(e)]
               PROVE  IF Of(e) \in Writers THEN Idx(e) \in cs'[Of(e)] \/ Idx(e) < required'[Of(e)]
                                           ELSE Idx(e) \in Written(Of(e))'
    OBVIOUS
  <2>1. CASE Of(e) # d
    <3>1. e # c /\ Of(e) \in Downloads BY <1>6, <2>1 DEF d
    <3>2. UNCHANGED <<cs[Of(e)], required[Of(e)], written[Of(e)]>> /\ work'[e] = work[e] /\ err' = err
      BY <1>1, <1>4, <2>1, <3>1
    <3>3. QED BY <1>2, <3>2 DEF OrderInv, Written
  <2>2. CASE Of(e) = d
    <3>1. Idx(e) \in Kept(c) \/ Idx(e) < r
      <4>1. CASE e = c BY <1>3, <4>1
      <4>2. CASE e # c
        <5>1. Idx(e) \in cs[Of(e)] \/ Idx(e) < required[Of(e)]
          BY <1>1, <1>2, <1>4, <1>5, <2>2, <4>2 DEF OrderInv
        <5>2. QED BY <1>3, <2>2, <5>1 DEF r
      <4>3. QED BY <4>1, <4>2
    <3>2. Idx(e) \in gone => Idx(e) < r + n BY <1>2, <1>6 DEF gone
    <3>3. Idx(e) < r => Idx(e) < r + n BY <1>2, <1>6
    <3>4. QED BY <1>4, <1>5, <2>2, <3>1, <3>2, <3>3
  <2>3. QED BY <2>1, <2>2
<1>14. QED BY <1>9, <1>11, <1>12, <1>13 DEF OrderInv

LEMMA OrderNext == IInv /\ [Next]_vars => OrderInv'
<1> SUFFICES ASSUME IInv, [Next]_vars PROVE OrderInv' OBVIOUS
<1>a. OrderInv /\ work \in [Calls -> WorkStates] /\ err \in [Downloads -> BOOLEAN] BY DEF IInv, CallerTypeOK
<1>b. Writers \subseteq Downloads /\ \A c \in Calls : Of(c) \in Downloads BY DownloaderAssumption, CallOf
<1>1. ASSUME UNCHANGED <<cs, required, written>>, \A d \in Downloads : Clean(d)' => Clean(d),
             \A c \in Calls : work'[c] \in {"succeeded", "over"} /\ ~err'[Of(c)] =>
               work[c] \in {"succeeded", "over"} /\ ~err[Of(c)]
      PROVE  OrderInv'
  BY <1>a, <1>b, <1>1 DEF OrderInv, Written
<1>2. ASSUME NEW d \in Downloads, Skip(d) PROVE OrderInv'
  <2>1. UNCHANGED <<work, cs, required, written>> /\ err' = [err EXCEPT ![d] = TRUE] BY <1>2 DEF Skip, workVars
  <2>2. \A e \in Downloads : err[e] => err'[e] BY <1>a, <2>1
  <2>3. QED BY <1>1, <1>b, <2>1, <2>2 DEF Clean
<1>3. ASSUME NEW c \in Calls, Begin(c) \/ TakeBuffer(c) \/ Process(c) PROVE OrderInv'
  <2>1. /\ work[c] \in {"idle", "do", "copy"} /\ \E w \in {"do", "copy", "callback", "failed"} : work' = [work EXCEPT ![c] = w]
        /\ UNCHANGED <<err, cs, required, written>>
    BY <1>3 DEF Begin, TakeBuffer, Process, Works, callerVars
  <2>2. \A e \in Calls : /\ work[e] = "failed" => work'[e] = "failed"
                         /\ work'[e] \in {"succeeded", "over"} => work[e] \in {"succeeded", "over"}
    BY <1>a, <2>1
  <2>3. QED BY <1>1, <2>1, <2>2 DEF Clean
<1>4. ASSUME NEW c \in Calls, WriteAll(c) PROVE OrderInv'
  <2>1. work[c] = "callback" BY <1>4 DEF WriteAll, Drain, Works
  <2>2. PICK n \in Nat : Cardinality(ReadyWith(c)) = n BY <2>1, WrittenRun
  <2>3. QED BY <1>4, <2>2, DrainOrder DEF WriteAll
<1>5. ASSUME NEW c \in Calls, WriteFails(c) PROVE OrderInv'
  <2>1. PICK n \in 1..Cardinality(ReadyWith(c)) : Drain(c, Kept(c), n, "failed") BY <1>5 DEF WriteFails
  <2>2. work[c] = "callback" BY <2>1 DEF Drain, Works
  <2>3. PICK m \in Nat : Cardinality(ReadyWith(c)) = m BY <2>2, WrittenRun
  <2>4. n \in Nat /\ n >= 1 BY <2>1, <2>3
  <2>5. QED BY <1>5, <2>1, <2>4, DrainOrder DEF WriteFails
<1>6. ASSUME NEW c \in Calls, Save(c) PROVE OrderInv'
  <2>1. Of(c) \in Downloads \ Writers /\ Idx(c) \in 1..NSrcs[Of(c)] /\ Idx(c) \in Nat BY <1>6, CallOf DEF Save
  <2>2. UNCHANGED <<err, cs, required>> BY <1>6 DEF Save, callerVars
  <2>3. CASE Works(c, "callback", "failed") /\ UNCHANGED written
    <3>1. \A e \in Calls : /\ work[e] = "failed" => work'[e] = "failed"
                           /\ work'[e] \in {"succeeded", "over"} => work[e] \in {"succeeded", "over"}
      BY <1>a, <2>3 DEF Works
    <3>2. QED BY <1>1, <2>2, <2>3, <3>1 DEF Clean
  <2>4. CASE Works(c, "callback", "succeeded") /\ written' = [written EXCEPT ![Of(c)] = Append(@, Idx(c))]
    <3>1. work[c] = "callback" /\ work' = [work EXCEPT ![c] = "succeeded"] BY <2>4 DEF Works
    <3>2. written[Of(c)] \in Seq(Nat) /\ written'[Of(c)] = Append(written[Of(c)], Idx(c))
      BY <1>a, <2>1, <2>4 DEF OrderInv
    <3>3. Written(Of(c))' = Written(Of(c)) \cup {Idx(c)}
      <4>1. PICK s \in Seq(Nat) : s = written[Of(c)] BY <3>2
      <4>2. {Append(s, Idx(c))[k] : k \in 1..Len(Append(s, Idx(c)))} = {s[k] : k \in 1..Len(s)} \cup {Idx(c)}
        BY <2>1, AppendRange
      <4>3. Written(Of(c)) = {s[k] : k \in 1..Len(s)} BY ONLY <4>1 DEF Written
      <4>4. written'[Of(c)] = Append(s, Idx(c)) BY ONLY <3>2, <4>1
      <4>5. PICK t : t = Append(s, Idx(c)) OBVIOUS
      <4>6. written'[Of(c)] = t BY ONLY <4>4, <4>5
      <4>7. Written(Of(c))' = {t[k] : k \in 1..Len(t)}
        <5>1. Written(Of(c))' = {(written'[Of(c)])[k] : k \in 1..Len(written'[Of(c)])} BY DEF Written, Of
        <5>2. QED BY ONLY <4>6, <5>1
      <4>8. QED BY ONLY <4>2, <4>3, <4>5, <4>7
    <3>4. \A e \in Downloads \ {Of(c)} : written'[e] = written[e] /\ Written(e)' = Written(e)
      BY <1>a, <2>1, <2>4 DEF OrderInv, Written
    <3>5. written' \in [Downloads -> Seq(Nat)]
      <4>1. Append(written[Of(c)], Idx(c)) \in Seq(Nat) BY <2>1, <3>2, AppendProperties
      <4>2. QED BY <1>a, <2>4, <4>1 DEF OrderInv
    <3>6. \A e \in Downloads : Clean(e)' => Clean(e) BY <1>a, <2>2, <3>1 DEF Clean
    <3>7. \A e \in Writers : e # Of(c) BY <2>1
    <3>8. \A e \in Calls : /\ e = c => Idx(e) \in Written(Of(e))' /\ Of(e) \notin Writers
                           /\ e # c => work'[e] = work[e]
                           /\ Written(Of(e)) \subseteq Written(Of(e))'
      BY <1>a, <1>b, <2>1, <3>1, <3>3, <3>4
    <3>9. \A e \in Downloads \ Writers : Written(e)' \subseteq 1..NSrcs[e]
      BY <1>a, <2>1, <3>3, <3>4 DEF OrderInv
    <3>10. \A e \in Writers : Clean(e)' => written'[e] = Consecutive(1, required'[e] - 1) /\ required'[e] \notin cs'[e]
      BY <1>a, <1>b, <2>2, <3>4, <3>6, <3>7 DEF OrderInv
    <3>11. \A e \in Calls : work'[e] \in {"succeeded", "over"} /\ ~err'[Of(e)] =>
             IF Of(e) \in Writers THEN Idx(e) \in cs'[Of(e)] \/ Idx(e) < required'[Of(e)]
                                  ELSE Idx(e) \in Written(Of(e))'
      BY <1>a, <2>2, <3>8 DEF OrderInv
    <3>12. QED BY <3>5, <3>9, <3>10, <3>11 DEF OrderInv
  <2>5. QED BY <1>6, <2>3, <2>4 DEF Save
<1>7. ASSUME NEW c \in Calls, Report(c) PROVE OrderInv'
  <2>1. /\ DoFailed(c) \/ work[c] = "succeeded"
        /\ err' = [err EXCEPT ![Of(c)] = @ \/ DoFailed(c)] /\ UNCHANGED <<cs, required, written>>
    BY <1>7 DEF Report
  <2>2. work' = [work EXCEPT ![c] = "over"] BY <1>7 DEF Report
  <2>3. err'[Of(c)] <=> err[Of(c)] \/ DoFailed(c) BY <1>a, <1>b, <2>1
  <2>4. \A d \in Downloads \ {Of(c)} : err'[d] = err[d] BY <1>a, <2>1
  <2>5. \A d \in Downloads : err[d] => err'[d] BY <2>3, <2>4
  <2>6. work'[c] = "over" /\ \A e \in Calls \ {c} : work'[e] = work[e] BY <1>a, <2>2
  <2>7. \A d \in Downloads : Clean(d)' => Clean(d)
    <3> SUFFICES ASSUME NEW d \in Downloads, Clean(d)' PROVE Clean(d) OBVIOUS
    <3>1. ~err[d] /\ ~err'[d] BY <2>5 DEF Clean
    <3>2. ASSUME NEW e \in Calls, Of(e) = d, work[e] = "failed" PROVE FALSE
      <4>1. CASE e = c BY <2>3, <3>1, <3>2, <4>1 DEF DoFailed
      <4>2. CASE e # c BY <2>6, <3>2, <4>2 DEF Clean
      <4>3. QED BY <4>1, <4>2
    <3>3. QED BY <3>1, <3>2 DEF Clean
  <2>8. ASSUME NEW e \in Calls, work'[e] \in {"succeeded", "over"}, ~err'[Of(e)]
        PROVE  work[e] \in {"succeeded", "over"} /\ ~err[Of(e)]
    <3>1. ~err[Of(e)] BY <1>b, <2>5, <2>8
    <3>2. CASE e = c BY <2>1, <2>3, <2>8, <3>1, <3>2
    <3>3. CASE e # c BY <2>6, <2>8, <3>1, <3>3
    <3>4. QED BY <3>2, <3>3
  <2>9. QED BY <1>1, <2>1, <2>7, <2>8
<1>8. CASE UNCHANGED <<err, work, cs, required, written>> BY <1>1, <1>8 DEF Clean
<1>9. QED
  BY <1>2, <1>3, <1>4, <1>5, <1>6, <1>7, <1>8, NextSteps, LimiterMoves
     DEF IInv, Call, Launch, Return, Cancel, SendStep, Finish, vars, callerVars, workVars

-----------------------------------------------------------------------------
LEMMA Inductive == IInv /\ [Next]_vars => IInv'
BY LimiterNextInv, FlowNext, CountNext, SendNext, BufNext, LostNext, OrderNext DEF IInv

LEMMA Always == Spec => []IInv
BY InitIInv, Inductive, PTL DEF Spec

LEMMA InvTypeOK == IInv => TypeOK
BY DEF IInv, LimiterInv, CallerTypeOK, CountInv, SendInv, BufInv, OrderInv, TypeOK

\* Once a download has returned, the func of each of its srcs is over or never ran.
LEMMA Returned ==
  ASSUME IInv, NEW c \in Calls, main[Of(c)] = "returned"
  PROVE  /\ work[c] \in {"idle", "over"}
         /\ ~err[Of(c)] => work[c] = "over"
<1> USE CallOf DEF IInv, FlowInv, CountInv
<1>1. Idx(c) \notin Pending(Of(c)) /\ Idx(c) \in 1..NSrcs[Of(c)] /\ c = <<Of(c), Idx(c)>> OBVIOUS
<1>2. ~(Idx(c) >= next[Of(c)]) /\ (pc[c] = "idle" \/ work[c] = "over") BY <1>1 DEF Pending
<1>3. next[Of(c)] \in Nat /\ Idx(c) \in Nat BY <1>1 DEF CallerTypeOK
<1>4. Idx(c) < next[Of(c)] BY <1>2, <1>3
<1>5. QED BY <1>2, <1>4

-----------------------------------------------------------------------------
\* A download that returns no error wrote every body whole: to a writer in the order of
\* the srcs, whatever the order in which they came.
THEOREM NoBodyMissing == Spec => []Complete
<1>1. IInv => Complete
  <2> SUFFICES ASSUME IInv, NEW d \in Downloads, main[d] = "returned", ~err[d]
               PROVE  IF d \in Writers THEN written[d] = Consecutive(1, NSrcs[d])
                                       ELSE {written[d][k] : k \in 1..Len(written[d])} = 1..NSrcs[d]
    BY InvTypeOK DEF Complete
  <2>1. \A c \in Calls : Of(c) = d => work[c] = "over" BY Returned
  <2>2. Clean(d) BY <2>1 DEF Clean
  <2>3. OrderInv /\ BufInv BY DEF IInv
  <2>4. ASSUME NEW i \in 1..NSrcs[d]
        PROVE  IF d \in Writers THEN i \in cs[d] \/ i < required[d] ELSE i \in Written(d)
    <3>1. PICK c \in Calls : Of(c) = d /\ Idx(c) = i BY SrcIsCall
    <3>2. QED BY <2>1, <2>3, <3>1 DEF OrderInv
  <2>5. NSrcs[d] \in Nat /\ required[d] \in 1..NSrcs[d] + 1 BY <2>3, DownloaderAssumption DEF BufInv
  <2>6. CASE d \in Writers
    <3>1. written[d] = Consecutive(1, required[d] - 1) /\ required[d] \notin cs[d] BY <2>2, <2>3, <2>6 DEF OrderInv
    <3>2. required[d] = NSrcs[d] + 1 BY <2>4, <2>5, <2>6, <3>1
    <3>3. QED BY <2>5, <2>6, <3>1, <3>2
  <2>7. CASE d \notin Writers
    <3>1. Written(d) \subseteq 1..NSrcs[d] BY <2>3, <2>7 DEF OrderInv
    <3>2. QED BY <2>4, <2>7, <3>1 DEF Written
  <2>8. QED BY <2>6, <2>7
<1>2. QED BY <1>1, Always, PTL

\* Nothing goes on behind the back of the caller of a download that has returned: no func,
\* no open body, and no buffer that reached a callback and was not closed; one that do took
\* and lost before the callback comes with an error of the download.
THEOREM NothingGoesOn == Spec => []NothingBehind
<1>1. IInv => NothingBehind
  <2> SUFFICES ASSUME IInv PROVE NothingBehind OBVIOUS
  <2>0. \A c \in Calls : main[Of(c)] = "returned" /\ buf[c] = "lost" => err[Of(c)]
    BY Returned DEF IInv, LostInv
  <2>1. BodiesClosed /\ BuffersOwned BY <2>0 DEF IInv, SendInv, BufInv, BuffersOwned
  <2>2. ASSUME NEW c \in Calls, main[Of(c)] = "returned" PROVE work[c] \in {"idle", "over"} /\ bodies[c] = 0
    <3>1. work[c] \in {"idle", "over"} BY <2>2, Returned
    <3>2. spc[c] \in {"idle", "failed", "closed"} BY <3>1 DEF IInv, SendInv
    <3>3. QED BY <2>1, <3>1, <3>2 DEF BodiesClosed, S!BodiesClosed
  <2>3. QED BY <2>1, <2>2 DEF NothingBehind
<1>2. QED BY <1>1, Always, PTL

-----------------------------------------------------------------------------
\* A download uses the limiter as any caller does: what holds of the limiter for every
\* order of calls holds under the downloads.
THEOREM UsesLimiter == Spec => L!Spec
<1>1. Init => L!Init BY DEF Init
<1>2. IInv /\ [Next]_vars => [L!Next]_(L!vars)
  <2> SUFFICES ASSUME IInv, [Next]_vars PROVE L!Next \/ UNCHANGED L!vars BY DEF L!vars
  <2> USE DEF L!Next, L!Step, L!vars, limiterVars
  <2>1. CASE LimiterStep BY <2>1 DEF LimiterStep, HandleCtx, Close, DoStep
  <2>2. ASSUME NEW d \in Downloads, Launch(d) PROVE L!Next
    <3>1. next[d] \in 1..NSrcs[d] BY <2>2, DownloaderAssumption DEF IInv, CallerTypeOK, Launch, Looping
    <3>2. <<d, next[d]>> \in Calls BY ONLY <3>1, SrcIsCall, Zenon
    <3>3. PICK c \in Calls : c = <<d, next[d]>> BY <3>2
    <3>4. L!CallDo(c) BY ONLY <2>2, <3>3 DEF Launch
    <3>5. QED BY <3>4
  <2>3. ASSUME NEW c \in Calls, Begin(c) \/ Finish(c) PROVE L!Next BY <2>3 DEF Begin, Finish
  <2>4. CASE UNCHANGED limiterVars BY <2>4
  <2>5. ASSUME NEW d \in Downloads, Call(d) \/ Skip(d) \/ Return(d) \/ Cancel(d) PROVE UNCHANGED limiterVars
    BY ONLY <2>5 DEF Call, Skip, Return, Cancel, limiterVars
  <2>6. ASSUME NEW c \in Calls, SendStep(c) \/ TakeBuffer(c) \/ Process(c) \/ WriteAll(c) \/ WriteFails(c) \/ Save(c) \/ Report(c)
        PROVE  UNCHANGED limiterVars
    BY ONLY <2>6 DEF SendStep, TakeBuffer, Process, WriteAll, WriteFails, Drain, Save, Report, limiterVars
  <2>7. UNCHANGED vars => UNCHANGED limiterVars BY ONLY DEF vars, limiterVars
  <2>8. QED BY <2>1, <2>2, <2>3, <2>4, <2>5, <2>6, <2>7, NextSteps
<1>3. QED BY <1>1, <1>2, Always, PTL DEF Spec, L!Spec
=============================================================================
