--------------------------- MODULE HTTPDownloader ---------------------------
(***************************************************************************)
(* HTTPDownloader (src/http.go): each download sends one request per src   *)
(* through the GoroutineLimiter of the downloader and its HTTPSender, and  *)
(* handles each body in the order in which they come: a writer gets them   *)
(* in the order of the srcs, a directory one file each. The func of a src  *)
(* is a call of Do of the limiter and of Send of the sender.               *)
(* err is read and written without a lock; since it is never reset, all    *)
(* that a race can change is which error is kept, and err is a Boolean.    *)
(***************************************************************************)
EXTENDS Integers, FiniteSets, Sequences

CONSTANTS Downloads,  \* the calls of DownloadInWriter and DownloadInDirectory
          Writers,    \* those of DownloadInWriter
          NSrcs,      \* the number of srcs of each
          Max,        \* GoroutineLimiterOptions.Max
          RetryMax    \* HTTPSenderOptions.RetryMax

ASSUME DownloaderAssumption ==
  Writers \subseteq Downloads /\ NSrcs \in [Downloads -> Nat] /\ IsFiniteSet(Downloads)
  /\ Max \in Int /\ RetryMax \in Nat

Calls == UNION {{d} \X (1..NSrcs[d]) : d \in Downloads}
Of(c) == c[1]      \* the download of a src
Idx(c) == c[2]     \* its index, from 1

VARIABLES busy, closed, leaked, handler, pc,      \* of the limiter
          spc, left, answer, bodies,              \* of the sender
          main,       \* where each download is: "new", "loop" or "returned"
          next,       \* the src its loop is at
          err,        \* whether its err is set
          undone,     \* the counter of its wait group
          cancelled,  \* the downloads whose context is done
          work,       \* where the func of each src is
          buf,        \* its buffer: "none", "held", "closed", or "lost" when do returned
                      \* with it before the callback, which is who closes it
          cs,         \* the indexes of the chunks kept for the writer of each download
          required,   \* requiredIdx
          written     \* history: the indexes written whole to its destination, in that order

L == INSTANCE GoroutineLimiter
S == INSTANCE HTTPSender WITH Requests <- Calls

limiterVars == <<busy, closed, leaked, handler, pc>>
sendVars == <<spc, left, answer, bodies>>
callerVars == <<main, next, err, undone>>
workVars == <<work, buf, cs, required, written>>
vars == <<limiterVars, sendVars, callerVars, cancelled, workVars>>

WorkStates == {"idle", "do", "copy", "callback", "failed", "succeeded", "over"}

Init == /\ L!Init /\ S!SenderInit
        /\ main = [d \in Downloads |-> "new"] /\ next = [d \in Downloads |-> 1]
        /\ err = [d \in Downloads |-> FALSE] /\ undone = [d \in Downloads |-> 0]
        /\ cancelled = {}
        /\ work = [c \in Calls |-> "idle"] /\ buf = [c \in Calls |-> "none"]
        /\ cs = [d \in Downloads |-> {}] /\ required = [d \in Downloads |-> 1]
        /\ written = [d \in Downloads |-> <<>>]

-----------------------------------------------------------------------------
\* download: nothing to download, or one Done to come per src.
Call(d) == /\ main[d] = "new"
           /\ main' = [main EXCEPT ![d] = IF NSrcs[d] = 0 THEN "returned" ELSE "loop"]
           /\ undone' = [undone EXCEPT ![d] = NSrcs[d]]
           /\ UNCHANGED <<limiterVars, sendVars, next, err, cancelled, workVars>>

\* The loop is inside Do, which returns once the func runs or is refused.
InDo(d) == \E c \in Calls : Of(c) = d /\ pc[c] \in {"check", "lock", "parked", "woken"}

Looping(d) == main[d] = "loop" /\ ~InDo(d) /\ next[d] <= NSrcs[d]

NextSrc(d) == next' = [next EXCEPT ![d] = @ + 1]

SkipUndone(d) == /\ Looping(d) /\ (d \in cancelled \/ err[d])   \* mutant: no wg.Done
                 /\ NextSrc(d) /\ err' = [err EXCEPT ![d] = TRUE]
                 /\ UNCHANGED <<limiterVars, sendVars, main, undone, cancelled, workVars>>

\* The context is done or there is an error: do nothing.
Skip(d) == /\ Looping(d) /\ (d \in cancelled \/ err[d])
           /\ NextSrc(d) /\ err' = [err EXCEPT ![d] = TRUE]
           /\ undone' = [undone EXCEPT ![d] = @ - 1]
           /\ UNCHANGED <<limiterVars, sendVars, main, cancelled, workVars>>

Launch(d) == /\ Looping(d) /\ d \notin cancelled /\ ~err[d]
             /\ NextSrc(d) /\ L!CallDo(<<d, next[d]>>)
             /\ UNCHANGED <<sendVars, main, err, undone, cancelled, workVars>>

\* Do waits, or gives up: its error is ignored, and so is the Done of its src.
DoStep(c) == /\ L!CheckOpen(c) \/ L!Wait(c) \/ L!Refuse(c)
             /\ UNCHANGED <<sendVars, callerVars, cancelled, workVars>>

HandleCtx == L!HandleCtx /\ UNCHANGED <<sendVars, callerVars, cancelled, workVars>>

CloseKept(d) == buf' = [c \in Calls |-> IF Of(c) = d /\ Idx(c) \in cs[d] THEN "closed" ELSE buf[c]]

ReturnEarly(d) == /\ main[d] = "loop" /\ ~InDo(d) /\ next[d] > NSrcs[d]
                  /\ main' = [main EXCEPT ![d] = "returned"]  \* mutant: wg.Wait is forgotten
                  /\ CloseKept(d)
                  /\ UNCHANGED <<limiterVars, sendVars, next, err, undone, cancelled,
                                 work, cs, required, written>>

\* The wait group is done: close the buffers of the chunks left.
Return(d) == /\ main[d] = "loop" /\ ~InDo(d) /\ next[d] > NSrcs[d] /\ undone[d] = 0
             /\ main' = [main EXCEPT ![d] = "returned"]
             /\ CloseKept(d)
             /\ UNCHANGED <<limiterVars, sendVars, next, err, undone, cancelled,
                            work, cs, required, written>>

-----------------------------------------------------------------------------
Works(c, from, to) == work[c] = from /\ work' = [work EXCEPT ![c] = to]

\* Do runs the func: do creates the request and sends it.
Begin(c) == /\ L!Run(c)
            /\ \/ Works(c, "idle", "do") /\ S!Send(c)
               \/ Works(c, "idle", "failed") /\ UNCHANGED sendVars
            /\ UNCHANGED <<callerVars, cancelled, buf, cs, required, written>>

\* The context of the request is done with the download's, or when its own timeout
\* has expired.
SendStep(c) == /\ \E done \in BOOLEAN : (Of(c) \in cancelled => done) /\ S!SendStep(c, done)
               /\ UNCHANGED <<limiterVars, callerVars, cancelled, workVars>>

\* do takes a buffer from the pool as soon as it has an answer ...
TakeBuffer(c) == /\ spc[c] = "sent" /\ Works(c, "do", "copy")
                 /\ buf' = [buf EXCEPT ![c] = "held"]
                 /\ UNCHANGED <<limiterVars, sendVars, callerVars, cancelled, cs, required, written>>

\* ... processes the response and copies the body: either may fail, the copy does once
\* the context is done, and then do returns and the pool never gets the buffer back.
Process(c) == /\ \/ Works(c, "copy", "failed") /\ buf' = [buf EXCEPT ![c] = "lost"]
                 \/ Works(c, "copy", "callback") /\ Of(c) \notin cancelled /\ UNCHANGED buf
              /\ UNCHANGED <<limiterVars, sendVars, callerVars, cancelled, cs, required, written>>

\* The indexes of the chunks ks from the required one r on, without a hole.
Ready(ks, r) == {i \in ks : r..i \subseteq ks}

Consecutive(i, n) == [k \in 1..n |-> i + k - 1]

\* Under the lock m the chunk is added and n chunks are copied to the writer,
\* closed and removed; the last copy of the run may fail.
Drain(c, ks, n, outcome) ==
  LET d == Of(c)
      gone == required[d]..(required[d] + n - 1)
  IN /\ Works(c, "callback", outcome)
     /\ buf' = [e \in Calls |-> IF Of(e) = d /\ Idx(e) \in gone THEN "closed" ELSE buf[e]]
     /\ cs' = [cs EXCEPT ![d] = ks \ gone]
     /\ required' = [required EXCEPT ![d] = @ + n]
     /\ written' = [written EXCEPT ![d] = @ \o Consecutive(required[d], IF outcome = "failed" THEN n - 1 ELSE n)]
     /\ UNCHANGED <<limiterVars, sendVars, callerVars, cancelled>>

Kept(c) == cs[Of(c)] \cup {Idx(c)}
ReadyWith(c) == Ready(Kept(c), required[Of(c)])

WriteFirst(c) == LET n == Cardinality(ReadyWith(c)) IN     \* mutant: the loop misses idxChunk--
  /\ Of(c) \in Writers
  /\ Drain(c, Kept(c), IF n > 1 THEN 1 ELSE n, "succeeded")

WriteAll(c) == /\ Of(c) \in Writers /\ (Of(c) \in cancelled => ReadyWith(c) = {})
               /\ Drain(c, Kept(c), Cardinality(ReadyWith(c)), "succeeded")

WriteFails(c) == /\ Of(c) \in Writers
                 /\ \E n \in 1..Cardinality(ReadyWith(c)) : Drain(c, Kept(c), n, "failed")

\* DownloadInDirectory: a file of its own for each src, and the buffer is closed
\* whatever happens.
Save(c) == /\ Of(c) \notin Writers
           /\ \/ Works(c, "callback", "failed") /\ UNCHANGED written
              \/ /\ Works(c, "callback", "succeeded") /\ Of(c) \notin cancelled
                 /\ written' = [written EXCEPT ![Of(c)] = Append(@, Idx(c))]
           /\ buf' = [buf EXCEPT ![c] = "closed"]
           /\ UNCHANGED <<limiterVars, sendVars, callerVars, cancelled, cs, required>>

DoFailed(c) == work[c] = "failed" \/ (work[c] = "do" /\ spc[c] = "failed")

\* do returns, which closes the body; err keeps the first error; wg.Done(). They are one
\* step because whoever sees the first two come early only does what it does later: the
\* caller waits for the third, and the loop skips a src of a download that failed.
Report(c) == /\ DoFailed(c) \/ work[c] = "succeeded"
             /\ work' = [work EXCEPT ![c] = "over"]
             /\ IF spc[c] = "sent" THEN S!CloseAnswer(c) ELSE UNCHANGED sendVars
             /\ err' = [err EXCEPT ![Of(c)] = @ \/ DoFailed(c)]
             /\ undone' = [undone EXCEPT ![Of(c)] = @ - 1]
             /\ UNCHANGED <<limiterVars, main, next, cancelled, buf, cs, required, written>>

Finish(c) == /\ work[c] = "over" /\ L!Finish(c)
             /\ UNCHANGED <<sendVars, callerVars, cancelled, workVars>>

Cancel(d) == /\ cancelled' = cancelled \cup {d}
             /\ UNCHANGED <<limiterVars, sendVars, callerVars, workVars>>

Close == L!Close /\ UNCHANGED <<sendVars, callerVars, cancelled, workVars>>

Work(c) == SendStep(c) \/ TakeBuffer(c) \/ Process(c) \/ WriteAll(c) \/ WriteFails(c) \/ Save(c)
           \/ Report(c) \/ Finish(c)
Loop(d) == Skip(d) \/ Launch(d) \/ Return(d)

\* What goes on once a download is called.
Running == \/ HandleCtx \/ \E d \in Downloads : Loop(d)
           \/ \E c \in Calls : DoStep(c) \/ Begin(c) \/ Work(c)

Next == Running \/ Close \/ \E d \in Downloads : Call(d) \/ Cancel(d)

Spec == Init /\ [][Next]_vars

\* As long as a goroutine can run one does, and the client answers or fails. Every
\* call ends after finitely many steps, so no more is needed.
Fairness == WF_vars(Running)

FairSpec == Spec /\ Fairness

-----------------------------------------------------------------------------
\* Every variable has its type.
TypeOK == /\ L!TypeOK /\ S!SenderTypeOK
          /\ main \in [Downloads -> {"new", "loop", "returned"}]
          /\ next \in [Downloads -> Nat \ {0}] /\ err \in [Downloads -> BOOLEAN]
          /\ undone \in [Downloads -> Nat] /\ cancelled \subseteq Downloads
          /\ work \in [Calls -> WorkStates]
          /\ buf \in [Calls -> {"none", "held", "closed", "lost"}]
          /\ cs \in [Downloads -> SUBSET Nat] /\ required \in [Downloads -> Nat \ {0}]
          /\ written \in [Downloads -> Seq(Nat)]

\* A download that returns no error wrote every body whole: to a writer in the
\* order of the srcs, whatever the order in which they came. The error of any of
\* them is not lost in the race for err.
Complete == TypeOK /\ \A d \in Downloads : main[d] = "returned" /\ ~err[d] =>
  IF d \in Writers THEN written[d] = Consecutive(1, NSrcs[d])
                   ELSE {written[d][k] : k \in 1..Len(written[d])} = 1..NSrcs[d]

\* Across retries, timeouts and the end of the context, no body of an answer that
\* is not handed over stays open.
BodiesClosed == S!BodiesClosed

\* A buffer that reached a callback is closed before its download returns, and never
\* while its chunk waits for its turn: the pool would hand it to another download. The
\* pool loses a buffer only to a src of which the download that has returned tells the
\* error.
BuffersOwned == \A c \in Calls :
  /\ Idx(c) \in cs[Of(c)] /\ main[Of(c)] # "returned" => buf[c] = "held"
  /\ main[Of(c)] = "returned" => /\ buf[c] # "held"
                                 /\ buf[c] = "lost" => err[Of(c)]

\* Nothing goes on behind the back of the caller: once a download has returned, no
\* func of it is at work, every answer's body is closed, and every buffer that reached
\* a callback was closed; those whose response or copy failed are never closed, and
\* then the download returns an error (src/http.go:425-440, 456-490, 534-597).
NothingBehind ==
  /\ BodiesClosed /\ BuffersOwned
  /\ \A c \in Calls : main[Of(c)] = "returned" => work[c] \in {"idle", "over"} /\ bodies[c] = 0

\* Every download returns, unless the downloader is closed meanwhile.
DownloadReturns == \A d \in Downloads : main[d] = "loop" ~> (main[d] = "returned" \/ closed)
=============================================================================
