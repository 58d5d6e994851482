---------------------------- MODULE Piper_proofs ----------------------------
(***************************************************************************)
(* For every set of chunks, number of reads, with and without a timeout:   *)
(* the reader gets the chunks in the order of the writes, indexes no empty *)
(* buffer, and misses no signal of Write or Close.                         *)
(***************************************************************************)
EXTENDS Piper, TLAPS

\* While Read holds the lock of the cond, what it saw changes only with a signal to come.
Pended == rpc = "empty" => /\ buf # <<>> => \E c \in Chunks : wpc[c] = "signal"
                           /\ closed => cpc = "signal"
CloseOnce == closed <=> cpc # "open"
ReadNumber == rpc # "out" => read \in Reads

IInv == TypeOK /\ InOrder /\ NoLostWakeup /\ CopyHasChunk /\ Pended /\ CloseOnce /\ ReadNumber

\* A chunk added to what is left is added to the whole.
LEMMA AppendLast ==
  ASSUME NEW s \in Seq(Chunks), NEW t \in Seq(Chunks), NEW c \in Chunks
  PROVE  s \o Append(t, c) = Append(s \o t, c)
OBVIOUS

LEMMA InitIInv == Init => IInv
<1> SUFFICES ASSUME Init PROVE IInv OBVIOUS
<1>1. buf \in Seq(Chunks) /\ appended \in Seq(Chunks) /\ got \in Seq(Chunks) BY DEF Init
<1>2. TypeOK
  <2>1. timer \in [Reads -> {"none", "armed", "expired", "signalled", "cancelled"}] BY DEF Init
  <2>2. wpc \in [Chunks -> {"idle", "check", "append", "signal", "written", "refused"}] BY DEF Init
  <2>3. read \in 0..MaxReads /\ rpc \in ReadStates /\ cpc \in {"open", "signal", "closed"}
    BY PiperAssumption DEF Init, ReadStates
  <2>4. closed \in BOOLEAN BY DEF Init
  <2>5. QED BY <1>1, <2>1, <2>2, <2>3, <2>4 DEF TypeOK
<1>3. InOrder BY DEF Init, InOrder
<1>4. QED BY <1>2, <1>3 DEF Init, IInv, NoLostWakeup, CopyHasChunk, Pended, CloseOnce, ReadNumber

LEMMA NextIInv == IInv /\ [Next]_vars => IInv'
<1> SUFFICES ASSUME IInv, [Next]_vars PROVE IInv' OBVIOUS
<1> USE PiperAssumption DEF IInv, TypeOK, NoLostWakeup, CopyHasChunk, Pended, CloseOnce, ReadNumber,
        ReadStates, Goto, WriteGoto, Return, Signal, CondFree, Reads
<1>1. CASE CallRead BY <1>1 DEF CallRead, InOrder
<1>2. CASE ReadTimesOut BY <1>2 DEF ReadTimesOut, InOrder
<1>3. CASE EnterRead BY <1>3 DEF EnterRead, InOrder
<1>4. CASE ReadEOF BY <1>4 DEF ReadEOF, InOrder
<1>5. CASE LookEmpty BY <1>5 DEF LookEmpty, InOrder
<1>6. CASE Wait BY <1>6 DEF Wait, InOrder
<1>7. CASE LookFull BY <1>7 DEF LookFull, InOrder
<1>8. CASE WaitReturns BY <1>8 DEF WaitReturns, InOrder
<1>9. CASE Copy
  <2>1. buf # <<>> /\ got' = Append(got, Head(buf)) /\ buf' = Tail(buf) /\ appended' = appended
    BY <1>9 DEF Copy
  <2>2. InOrder' 
    <3>1. got \o buf = Append(got, Head(buf)) \o Tail(buf)
      <4>1. got \in Seq(Chunks) /\ buf \in Seq(Chunks) /\ buf # <<>> BY <2>1
      <4>2. QED BY ONLY <4>1
    <3>2. QED BY <2>1, <3>1 DEF InOrder
  <2>3. got' \in Seq(Chunks) /\ buf' \in Seq(Chunks) BY <2>1
  <2>4. QED BY <1>9, <2>2, <2>3 DEF Copy
<1>10. CASE Close BY <1>10 DEF Close, InOrder
<1>11. CASE CloseSignal BY <1>11 DEF CloseSignal, InOrder
<1>12. ASSUME NEW c \in Chunks, CallWrite(c) \/ WriteCheck(c) PROVE IInv'
  <2>1. CASE CallWrite(c) BY <2>1 DEF CallWrite, InOrder
  <2>2. CASE WriteCheck(c) BY <2>2 DEF WriteCheck, InOrder
  <2>3. QED BY <1>12, <2>1, <2>2
<1>13. ASSUME NEW c \in Chunks, WriteAppend(c) PROVE IInv'
  <2> USE <1>13 DEF WriteAppend
  <2>1. buf' = Append(buf, c) /\ appended' = Append(appended, c) /\ got' = got OBVIOUS
  <2>2. InOrder'
    <3>1. got \in Seq(Chunks) /\ buf \in Seq(Chunks) /\ got \o buf = appended BY DEF InOrder
    <3>2. got \o Append(buf, c) = Append(got \o buf, c) BY <3>1, AppendLast
    <3>3. QED BY <2>1, <3>1, <3>2 DEF InOrder
  <2>3. TypeOK' BY <2>1
  <2>4. NoLostWakeup' /\ Pended'
    <3>1. wpc'[c] = "signal" OBVIOUS
    <3>2. UNCHANGED <<rpc, closed, cpc>> OBVIOUS
    <3>3. QED BY <3>1, <3>2
  <2>5. CopyHasChunk' /\ CloseOnce' /\ ReadNumber'
    <3>1. buf' # <<>>
      <4>1. buf \in Seq(Chunks) OBVIOUS
      <4>2. Len(Append(buf, c)) = Len(buf) + 1 /\ Len(buf) \in Nat BY ONLY <4>1, c \in Chunks
      <4>3. Len(<<>>) = 0 OBVIOUS
      <4>4. QED BY ONLY <2>1, <4>2, <4>3
    <3>2. UNCHANGED <<rpc, closed, cpc, read>> OBVIOUS
    <3>3. CloseOnce /\ ReadNumber OBVIOUS
    <3>4. QED BY ONLY <3>1, <3>2, <3>3 DEF CopyHasChunk, CloseOnce, ReadNumber
  <2>6. QED BY <2>2, <2>3, <2>4, <2>5
<1>14. ASSUME NEW c \in Chunks, WriteSignal(c) PROVE IInv' BY <1>14 DEF WriteSignal, InOrder
<1>15. ASSUME NEW r \in Reads, Expire(r) \/ Watch(r) PROVE IInv'
  <2>1. CASE Expire(r) BY <2>1 DEF Expire, InOrder
  <2>2. CASE Watch(r) BY <2>2 DEF Watch, InOrder
  <2>3. QED BY <1>15, <2>1, <2>2
<1>16. CASE UNCHANGED vars BY <1>16 DEF vars, InOrder
<1>17. QED
  BY <1>1, <1>2, <1>3, <1>4, <1>5, <1>6, <1>7, <1>8, <1>9, <1>10, <1>11, <1>12, <1>13, <1>14, <1>15, <1>16
     DEF Next, Read, Write

LEMMA Inductive == Spec => []IInv
BY InitIInv, NextIInv, PTL DEF Spec

\* The variables keep their types.
THEOREM Typing == Spec => []TypeOK
<1>1. IInv => TypeOK BY DEF IInv
<1>2. QED BY <1>1, Inductive, PTL

\* The reader gets what was written, in order, whatever the timeouts and Close do.
THEOREM Order == Spec => []InOrder
<1>1. IInv => InOrder BY DEF IInv
<1>2. QED BY <1>1, Inductive, PTL

\* No signal of Write or Close is missed by a reader that waits.
THEOREM NoWakeupIsLost == Spec => []NoLostWakeup
<1>1. IInv => NoLostWakeup BY DEF IInv
<1>2. QED BY <1>1, Inductive, PTL

\* Read never indexes an empty buffer.
THEOREM ChunkIsThere == Spec => []CopyHasChunk
<1>1. IInv => CopyHasChunk BY DEF IInv
<1>2. QED BY <1>1, Inductive, PTL
=============================================================================
