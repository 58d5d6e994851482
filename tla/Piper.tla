------------------------------- MODULE Piper -------------------------------
(***************************************************************************)
(* Piper (src/io.go): a pipe whose writes never block. buf and closed are  *)
(* guarded by m, and a sync.Cond tells the reader that one of them changed.*)
(* Read holds the lock of the cond from the look at both to Wait, but tests*)
(* its timeout before it takes that lock. One goroutine reads, as the doc  *)
(* of the type asks.                                                       *)
(***************************************************************************)
EXTENDS Naturals, Sequences

CONSTANTS Chunks,     \* what is written: each chunk by one call of Write
          MaxReads,   \* bound: the number of calls of Read, one after another
          Timeouts    \* whether PiperOptions.ReadTimeout is positive

ASSUME PiperAssumption == MaxReads \in Nat /\ Timeouts \in BOOLEAN

Reads == 1..MaxReads

VARIABLES buf,        \* Piper.buf
          closed,     \* Piper.closed
          read,       \* the current call of Read, 0 before the first
          rpc,        \* where it is
          timer,      \* its timeout and the goroutine of each earlier one:
                      \* "none", "armed", "expired", "signalled" or "cancelled"
          wpc,        \* where the Write of each chunk is
          cpc,        \* where Close is
          appended,   \* history: the chunks put in the buffer, in that order
          got         \* history: the chunks returned by Read, in that order

vars == <<buf, closed, read, rpc, timer, wpc, cpc, appended, got>>

ReadStates == {"out", "top", "look", "empty", "parked", "woken", "copy"}

Init == /\ buf = <<>> /\ closed = FALSE /\ read = 0 /\ rpc = "out" /\ cpc = "open"
        /\ timer = [r \in Reads |-> "none"]
        /\ wpc = [c \in Chunks |-> "idle"]
        /\ appended = <<>> /\ got = <<>>

Goto(from, to) == rpc = from /\ rpc' = to
WriteGoto(c, from, to) == wpc[c] = from /\ wpc' = [wpc EXCEPT ![c] = to]

CondIgnored == TRUE      \* mutant: look and Wait are not under the lock

\* The lock of the cond is free.
CondFree == rpc # "empty"

\* c.Signal(): the reader, if it waits, goes on.
Signal == rpc' = IF rpc = "parked" THEN "woken" ELSE rpc

-----------------------------------------------------------------------------
\* Read: create the context, if there is a timeout.
CallRead == /\ read < MaxReads /\ Goto("out", "top")
            /\ read' = read + 1
            /\ timer' = IF Timeouts THEN [timer EXCEPT ![read + 1] = "armed"] ELSE timer
            /\ UNCHANGED <<buf, closed, wpc, cpc, appended, got>>

\* The deferred cancel: a timeout that has not expired never will.
Return(from) == /\ Goto(from, "out")
                /\ timer' = [timer EXCEPT ![read] = IF @ = "armed" THEN "cancelled" ELSE @]

TimedOut == timer[read] \in {"expired", "signalled"}

\* Check context.
ReadTimesOut == /\ Return("top") /\ TimedOut
                /\ UNCHANGED <<buf, closed, read, wpc, cpc, appended, got>>

EnterRead == /\ Goto("top", "look") /\ ~TimedOut
             /\ UNCHANGED <<buf, closed, read, timer, wpc, cpc, appended, got>>

\* Under both locks: closed ...
ReadEOF == /\ closed /\ Return("look")
           /\ UNCHANGED <<buf, closed, read, wpc, cpc, appended, got>>

\* ... nothing in the buffer, we need to wait ...
LookEmpty == /\ Goto("look", "empty") /\ ~closed /\ buf = <<>>
             /\ UNCHANGED <<buf, closed, read, timer, wpc, cpc, appended, got>>

Wait == /\ Goto("empty", "parked")
        /\ UNCHANGED <<buf, closed, read, timer, wpc, cpc, appended, got>>

\* ... or something.
LookFull == /\ Goto("look", "copy") /\ ~closed /\ buf # <<>>
            /\ UNCHANGED <<buf, closed, read, timer, wpc, cpc, appended, got>>

WaitReturns == /\ Goto("woken", "top")
               /\ UNCHANGED <<buf, closed, read, timer, wpc, cpc, appended, got>>

CopyLast == /\ Return("copy")      \* mutant: the newest chunk
            /\ got' = Append(got, buf[Len(buf)]) /\ buf' = SubSeq(buf, 1, Len(buf) - 1)
            /\ UNCHANGED <<closed, read, wpc, cpc, appended>>

\* Copy the first chunk.
Copy == /\ Return("copy")
        /\ got' = Append(got, Head(buf)) /\ buf' = Tail(buf)
        /\ UNCHANGED <<closed, read, wpc, cpc, appended>>

Expire(r) == /\ timer[r] = "armed" /\ timer' = [timer EXCEPT ![r] = "expired"]
             /\ UNCHANGED <<buf, closed, read, rpc, wpc, cpc, appended, got>>

\* The goroutine that watches the context signals once it has timed out.
Watch(r) == /\ timer[r] = "expired" /\ CondFree /\ timer' = [timer EXCEPT ![r] = "signalled"]
            /\ Signal
            /\ UNCHANGED <<buf, closed, read, wpc, cpc, appended, got>>

-----------------------------------------------------------------------------
CallWrite(c) == /\ WriteGoto(c, "idle", "check")
                /\ UNCHANGED <<buf, closed, read, rpc, timer, cpc, appended, got>>

\* Write: closed?
WriteCheck(c) == /\ WriteGoto(c, "check", IF closed THEN "refused" ELSE "append")
                 /\ UNCHANGED <<buf, closed, read, rpc, timer, cpc, appended, got>>

\* Append, whatever was closed meanwhile.
WriteAppend(c) == /\ WriteGoto(c, "append", "signal")
                  /\ buf' = Append(buf, c) /\ appended' = Append(appended, c)
                  /\ UNCHANGED <<closed, read, rpc, timer, cpc, got>>

WriteSignal(c) == /\ CondFree /\ WriteGoto(c, "signal", "written")
                  /\ Signal
                  /\ UNCHANGED <<buf, closed, read, timer, cpc, appended, got>>

\* Close: update closed, then signal. A second call does nothing.
Close == /\ cpc = "open" /\ cpc' = "signal"
         /\ closed' = TRUE
         /\ UNCHANGED <<buf, read, rpc, timer, wpc, appended, got>>

CloseSilently == /\ cpc = "signal" /\ cpc' = "closed"     \* mutant: no signal
                 /\ UNCHANGED <<buf, closed, read, rpc, timer, wpc, appended, got>>

CloseSignal == /\ cpc = "signal" /\ CondFree /\ cpc' = "closed"
               /\ Signal
               /\ UNCHANGED <<buf, closed, read, timer, wpc, appended, got>>

Read == \/ ReadTimesOut \/ EnterRead \/ ReadEOF \/ LookEmpty \/ Wait \/ LookFull
        \/ WaitReturns \/ Copy

Write(c) == WriteCheck(c) \/ WriteAppend(c) \/ WriteSignal(c)

Next == \/ CallRead \/ Read \/ Close \/ CloseSignal
        \/ \E c \in Chunks : CallWrite(c) \/ Write(c)
        \/ \E r \in Reads : Expire(r) \/ Watch(r)

Spec == Init /\ [][Next]_vars

\* Goroutines that can run do, and armed timers expire.
Fairness == /\ WF_vars(Read) /\ WF_vars(CloseSignal)
            /\ \A c \in Chunks : WF_vars(Write(c))
            /\ \A r \in Reads : WF_vars(Expire(r)) /\ WF_vars(Watch(r))

FairSpec == Spec /\ Fairness

-----------------------------------------------------------------------------
\* Every variable has its type.
TypeOK == /\ buf \in Seq(Chunks) /\ appended \in Seq(Chunks) /\ got \in Seq(Chunks)
          /\ closed \in BOOLEAN /\ read \in 0..MaxReads /\ rpc \in ReadStates
          /\ timer \in [Reads -> {"none", "armed", "expired", "signalled", "cancelled"}]
          /\ wpc \in [Chunks -> {"idle", "check", "append", "signal", "written", "refused"}]
          /\ cpc \in {"open", "signal", "closed"}

\* The reader gets what was written in the order of the writes, nothing twice
\* and nothing left out, and what is left is in the buffer.
InOrder == got \o buf = appended

\* The reader never waits beside a chunk or a closed pipe: a signal is still to come.
NoLostWakeup == rpc = "parked" =>
  /\ buf # <<>> => \E c \in Chunks : wpc[c] = "signal"
  /\ closed => cpc = "signal"

\* The chunk Read is about to copy is there: a look at the length is still good
\* after both locks were released.
CopyHasChunk == rpc = "copy" => buf # <<>>

\* Closing interrupts any ongoing read.
CloseEndsRead == closed ~> rpc = "out"

-----------------------------------------------------------------------------
\* What the documentation says and the code does not always do: with a timeout
\* no read goes on for ever.
ReadEnds == \A r \in Reads : (read = r /\ rpc # "out") ~> (read # r \/ rpc = "out")
=============================================================================
