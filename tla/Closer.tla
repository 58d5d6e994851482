------------------------------- MODULE Closer -------------------------------
(***************************************************************************)
(* Closer (src/defer.go): Close holds mc while it calls the funcs it found *)
(* under mf, which may be the Close of a child, and then resets them       *)
(* without mf; Add and Append change them under mf only, so that they can  *)
(* be used in the func of Do, which holds mc. A goroutine is a stack of    *)
(* calls: a call in progress is a frame, and the innermost one runs.       *)
(***************************************************************************)
EXTENDS Naturals, Sequences, FiniteSets, SequencesExt

CONSTANTS Procs,      \* goroutines
          Closers,    \* closers, of which ...
          Roots,      \* ... these are made by NewCloser, and the others by NewChild
          Funcs,      \* the funcs that may be added, each by one call of Add
          Appends,    \* bound: the pairs <<c, dst>> c.Append(dst) may be called with
          NoOne,     \* not a goroutine
          MaxCalls    \* bound: the calls of each goroutine

ASSUME CloserAssumption == /\ NoOne \notin Procs /\ MaxCalls \in [Procs -> Nat] /\ Roots \subseteq Closers
                           /\ Appends \subseteq Closers \X Closers

VARIABLES fs,         \* Closer.fs: funcs, and children whose Close is called
          closed,     \* Closer.closed
          callback,   \* the closers whose onClosed is set
          mc, mf,     \* who holds the two mutexes of a closer
          stack,      \* the frames of a goroutine, the innermost first
          calls,      \* how many calls it has made
          made,       \* the closers and funcs that were created
          result,     \* whether its last Close returned an error
          told,       \* whether the last callback of a closer was given an error
          failed,     \* history: whether a func that Close called returned one
          added,      \* history: how often something was added to a closer
          called,     \* history: how often a closer called it
          raced       \* history: the closers changed by Add while their Close ran

closerVars == <<fs, closed, callback, mc, mf, stack, calls, made, result, told, failed, added, called, raced>>

Things == Closers \cup Funcs

CloserInit == /\ fs = [c \in Closers |-> <<>>] /\ closed = [c \in Closers |-> FALSE]
              /\ mc = [c \in Closers |-> NoOne] /\ mf = [c \in Closers |-> NoOne]
              /\ stack = [p \in Procs |-> <<>>] /\ calls = [p \in Procs |-> 0] /\ made = Roots
              /\ callback = {} /\ told = [c \in Closers |-> FALSE] /\ result = [p \in Procs |-> FALSE]
              /\ failed = [p \in Procs |-> FALSE]
              /\ added = [c \in Closers |-> [x \in Things |-> 0]] /\ called = added
              /\ raced = {}

\* A frame: the call, the closer it is made on, where it is, its other argument,
\* the funcs it has copied, and the errors it has met.
Frame(op, c, arg) == [op |-> op, on |-> c, at |-> "start", arg |-> arg, left |-> <<>>, err |-> FALSE]

Top(p) == Head(stack[p])
Runs(p, op, at) == stack[p] # <<>> /\ Top(p).op = op /\ Top(p).at = at
Becomes(p, frame) == stack' = [stack EXCEPT ![p] = <<frame>> \o Tail(@)]
Pop(p) == stack' = [stack EXCEPT ![p] = Tail(@)]
Push(p, frame) == stack' = [stack EXCEPT ![p] = <<frame>> \o @]
Lock(mutex, c, p) == mutex[c] = NoOne /\ mutex' = [mutex EXCEPT ![c] = p]
Unlock(mutex, c) == mutex' = [mutex EXCEPT ![c] = NoOne]

Frames(p) == ToSet(stack[p])
\* The goroutines whose Close has taken the funcs of c and not reset them yet.
Closing(c) == {p \in Procs : \E f \in Frames(p) : f.op = "close" /\ f.on = c /\ f.at = "call"}

Copies(s, x) == Cardinality({i \in DOMAIN s : s[i] = x})
Count(history, c, s) == [history EXCEPT ![c] = [x \in Things |-> @[x] + Copies(s, x)]]
Race(c) == IF Closing(c) # {} THEN raced \cup {c} ELSE raced

-----------------------------------------------------------------------------
\* Close: lock mc ...
CloseLock(p) == /\ Runs(p, "close", "start") /\ Lock(mc, Top(p).on, p)
                /\ Becomes(p, [Top(p) EXCEPT !.at = "funcs"])
                /\ UNCHANGED <<fs, closed, mf, calls, made, result, failed, added, called, raced, callback, told>>

\* ... get the funcs, under mf ...
CloseGet(p) == /\ Runs(p, "close", "funcs") /\ mf[Top(p).on] = NoOne
               /\ Becomes(p, [Top(p) EXCEPT !.at = "call", !.left = fs[Top(p).on]])
               /\ UNCHANGED <<fs, closed, mc, mf, calls, made, result, failed, added, called, raced, callback, told>>

Calls(p, x) == /\ Runs(p, "close", "call") /\ Top(p).left # <<>> /\ Head(Top(p).left) = x
               /\ called' = Count(called, Top(p).on, <<x>>)
               /\ UNCHANGED <<fs, closed, mc, mf, calls, made, result, added, raced, callback, told>>

\* ... call them, each of which may fail ...
CallFunc(p, f) == /\ Calls(p, f)
                  /\ \E bad \in BOOLEAN :
                       /\ Becomes(p, [Top(p) EXCEPT !.left = Tail(Top(p).left), !.err = Top(p).err \/ bad])
                       /\ failed' = [failed EXCEPT ![p] = @ \/ bad]

\* ... or be the Close of a child ...
CallChild(p, k) == /\ Calls(p, k)
                   /\ stack' = [stack EXCEPT ![p] =
                        <<Frame("close", k, k), [Top(p) EXCEPT !.left = Tail(Top(p).left)]>> \o Tail(@)]
                   /\ UNCHANGED failed

\* The error goes to the caller: a parent's Close adds it to its own.
Return(p) == LET s == stack[p] IN stack' = [stack EXCEPT ![p] =
  IF Len(s) > 1 THEN <<[s[2] EXCEPT !.err = s[2].err \/ Top(p).err]>> \o SubSeq(s, 3, Len(s)) ELSE <<>>]

FinishKeeping(p) ==                 \* mutant: the funcs are not reset
  /\ Runs(p, "close", "call") /\ Top(p).left = <<>>
  /\ closed' = [closed EXCEPT ![Top(p).on] = TRUE]
  /\ Unlock(mc, Top(p).on) /\ Return(p)
  /\ result' = [result EXCEPT ![p] = Top(p).err]
  /\ told' = [told EXCEPT ![Top(p).on] = IF Top(p).on \in callback THEN Top(p).err ELSE @]
  /\ UNCHANGED <<fs, mf, calls, made, failed, added, called, raced, callback>>

\* ... reset them without mf, update closed, call onClosed, unlock and return. The
\* callback gets the *Errors of the call, which is never nil: told is whether it holds one.
CloseFinish(p) ==
  /\ Runs(p, "close", "call") /\ Top(p).left = <<>>
  /\ fs' = [fs EXCEPT ![Top(p).on] = <<>>] /\ closed' = [closed EXCEPT ![Top(p).on] = TRUE]
  /\ Unlock(mc, Top(p).on) /\ Return(p)
  /\ result' = [result EXCEPT ![p] = Top(p).err]
  /\ told' = [told EXCEPT ![Top(p).on] = IF Top(p).on \in callback THEN Top(p).err ELSE @]
  /\ UNCHANGED <<mf, calls, made, failed, added, called, raced, callback>>

-----------------------------------------------------------------------------
\* AddWithError: under mf, read the funcs ...
AddRead(p) == /\ Runs(p, "add", "start") /\ Lock(mf, Top(p).on, p)
              /\ Becomes(p, [Top(p) EXCEPT !.at = "write", !.left = fs[Top(p).on]])
              /\ raced' = Race(Top(p).on)
              /\ UNCHANGED <<fs, closed, mc, calls, made, result, failed, added, called, callback, told>>

\* ... and put the new one first.
AddWrite(p) == /\ Runs(p, "add", "write")
               /\ fs' = [fs EXCEPT ![Top(p).on] = <<Top(p).arg>> \o Top(p).left]
               /\ added' = Count(added, Top(p).on, <<Top(p).arg>>)
               /\ Unlock(mf, Top(p).on) /\ Pop(p)
               /\ raced' = Race(Top(p).on)
               /\ UNCHANGED <<closed, mc, calls, made, result, failed, called, callback, told>>

\* Append: lock both mutexes mf ...
AppendLock(p) == /\ Runs(p, "append", "start") /\ Lock(mf, Top(p).on, p)
                 /\ Becomes(p, [Top(p) EXCEPT !.at = "second"])
                 /\ UNCHANGED <<fs, closed, mc, calls, made, result, failed, added, called, raced, callback, told>>

AppendRead(p) == /\ Runs(p, "append", "second") /\ Lock(mf, Top(p).arg, p)
                 /\ Becomes(p, [Top(p) EXCEPT !.at = "write", !.left = fs[Top(p).on] \o fs[Top(p).arg]])
                 /\ raced' = Race(Top(p).on)
                 /\ added' = Count(added, Top(p).on, fs[Top(p).arg])
                 /\ UNCHANGED <<fs, closed, mc, calls, made, result, failed, called, callback, told>>

AppendKeeping(p) ==                 \* mutant: dst is not unlocked
  /\ Runs(p, "append", "write") /\ Unlock(mf, Top(p).on) /\ Pop(p)
  /\ fs' = [fs EXCEPT ![Top(p).on] = Top(p).left] /\ raced' = Race(Top(p).on)
  /\ UNCHANGED <<closed, mc, calls, made, result, failed, added, called, callback, told>>

\* ... and add the funcs of dst, which keeps them.
AppendWrite(p) == /\ Runs(p, "append", "write")
                  /\ fs' = [fs EXCEPT ![Top(p).on] = Top(p).left]
                  /\ mf' = [mf EXCEPT ![Top(p).on] = NoOne, ![Top(p).arg] = NoOne] /\ Pop(p)
                  /\ raced' = Race(Top(p).on)
                  /\ UNCHANGED <<closed, mc, calls, made, result, failed, added, called, callback, told>>

\* Do and IsClosed: lock mc ...
DoUnchecked(p) == /\ Runs(p, "do", "start") /\ Lock(mc, Top(p).on, p)
                  /\ Becomes(p, [Top(p) EXCEPT !.at = "fn"])     \* mutant: closed is not looked at
                  /\ UNCHANGED <<fs, closed, mf, calls, made, result, failed, added, called, raced, callback, told>>

DoLock(p) == /\ Runs(p, "do", "start") /\ ~closed[Top(p).on] /\ Lock(mc, Top(p).on, p)
             /\ Becomes(p, [Top(p) EXCEPT !.at = "fn"])
             /\ UNCHANGED <<fs, closed, mf, calls, made, result, failed, added, called, raced, callback, told>>

\* ... and return at once if the closer is closed ...
DoClosed(p) == /\ Runs(p, "do", "start") /\ closed[Top(p).on] /\ mc[Top(p).on] = NoOne
               /\ Pop(p)
               /\ UNCHANGED <<fs, closed, mc, mf, calls, made, result, failed, added, called, raced, callback, told>>

\* ... or once fn has returned.
DoReturn(p) == /\ Runs(p, "do", "fn") /\ Unlock(mc, Top(p).on) /\ Pop(p)
               /\ UNCHANGED <<fs, closed, mf, calls, made, result, failed, added, called, raced, callback, told>>

\* OnClosed, under mc.
OnClosed(p) == /\ Runs(p, "onclosed", "start") /\ mc[Top(p).on] = NoOne
               /\ callback' = callback \cup {Top(p).on} /\ Pop(p)
               /\ UNCHANGED <<fs, closed, mc, mf, calls, made, result, told, failed, added, called, raced>>

-----------------------------------------------------------------------------
\* A goroutine calls a method, from outside or from the fn of Do.
Call(p, frame) == /\ calls[p] < MaxCalls[p] /\ frame.on \in made
                  /\ calls' = [calls EXCEPT ![p] = @ + 1]
                  /\ Push(p, frame)
                  /\ UNCHANGED <<fs, closed, mc, mf, result, added, called, raced, callback, told>>

CallClose(p, c) == /\ stack[p] = <<>> /\ Call(p, Frame("close", c, c))
                   /\ failed' = [failed EXCEPT ![p] = FALSE]
                   /\ UNCHANGED made

CallAdd(p, c, f) == /\ stack[p] = <<>> \/ Runs(p, "do", "fn")
                    /\ f \notin made /\ made' = made \cup {f}
                    /\ Call(p, Frame("add", c, f))
                    /\ UNCHANGED failed

CallAppend(p, c, dst) == /\ stack[p] = <<>> /\ dst \in made /\ Call(p, Frame("append", c, dst))
                         /\ UNCHANGED <<made, failed>>

CallDo(p, c) == stack[p] = <<>> /\ Call(p, Frame("do", c, c)) /\ UNCHANGED <<made, failed>>

CallOnClosed(p, c) == /\ stack[p] = <<>> /\ c \notin callback /\ Call(p, Frame("onclosed", c, c))
                      /\ UNCHANGED <<made, failed>>

Step(p) == \/ CloseLock(p) \/ CloseGet(p) \/ CloseFinish(p)
           \/ \E f \in Funcs : CallFunc(p, f)
           \/ \E k \in Closers : CallChild(p, k)
           \/ AddRead(p) \/ AddWrite(p) \/ AppendLock(p) \/ AppendRead(p) \/ AppendWrite(p)
           \/ DoLock(p) \/ DoClosed(p) \/ DoReturn(p)
           \/ OnClosed(p)

\* NewChild is an Add of the Close of a closer nobody else knows.
CloserNext == \E p \in Procs :
  \/ Step(p)
  \/ \E c \in Closers : CallClose(p, c) \/ CallDo(p, c) \/ CallOnClosed(p, c)
  \/ \E c \in Closers, x \in Things : CallAdd(p, c, x)
  \/ \E a \in Appends : CallAppend(p, a[1], a[2])

CloserSpec == CloserInit /\ [][CloserNext]_closerVars

-----------------------------------------------------------------------------
\* Every variable has its type.
CloserTypeOK == /\ fs \in [Closers -> Seq(Things)] /\ closed \in [Closers -> BOOLEAN]
                /\ mc \in [Closers -> Procs \cup {NoOne}] /\ mf \in [Closers -> Procs \cup {NoOne}]
                /\ \A p \in Procs : \A f \in Frames(p) :
                     /\ f.op \in {"close", "add", "append", "do", "onclosed"}
                     /\ f.on \in Closers /\ f.arg \in Things
                     /\ f.left \in Seq(Things) /\ f.err \in BOOLEAN
                /\ calls \in [Procs -> Nat] /\ made \subseteq Things
                /\ result \in [Procs -> BOOLEAN] /\ failed \in [Procs -> BOOLEAN]
                /\ raced \subseteq Closers /\ callback \subseteq Closers /\ told \in [Closers -> BOOLEAN]

\* What a closer has still to call: what Close has copied, and else its funcs.
Pending(c) == IF Closing(c) = {} THEN fs[c]
              ELSE LET p == CHOOSE p \in Closing(c) : TRUE
                       f == CHOOSE f \in Frames(p) : f.op = "close" /\ f.on = c /\ f.at = "call"
                   IN  f.left

\* Close returns an error if and only if a func failed that it called, itself or
\* through the Close of children.
ErrorsReported == \A p \in Procs : stack[p] = <<>> => result[p] = failed[p]

\* Whatever was added to a closer, from the fn of Do, from NewChild or before
\* Close took the funcs, is called by it once for each time it was added and
\* nothing is called twice, across concurrent Closes of it and of its parent; and
\* Close returns an error exactly if one of them failed, at any depth. Only an Add
\* that overlaps the calls of a Close is outside of that promise (src/defer.go:48-66).
CallsEach == /\ CloserTypeOK /\ ErrorsReported
             /\ \A c \in Closers \ raced : \A x \in Things :
                  /\ mf[c] = NoOne => added[c][x] = called[c][x] + Copies(Pending(c), x)
                  /\ called[c][x] <= added[c][x]

\* While the fn of Do runs its closer is neither closed nor about to call a func.
DoProtects == \A p \in Procs : \A f \in Frames(p) :
  f.op = "do" /\ f.at = "fn" => ~closed[f.on] /\ Closing(f.on) = {}

\* The Appends allowed are not in a circle, and made on closers that are nobody's child:
\* appended to a child, the funcs of its parent would make it call its own Close.
AppendsOneWay == /\ \A a \in Appends : a[1] \in Roots
                 /\ \A circle \in SUBSET Appends \ {{}} : \E a \in circle : \A b \in circle : b[1] # a[2]

\* All that a call ever waits for is a mutex that somebody holds.
Waits(p) ==
  \/ Top(p).op \in {"close", "do", "onclosed"} /\ Top(p).at = "start" /\ mc[Top(p).on] # NoOne
  \/ Top(p).op = "close" /\ Top(p).at = "funcs" /\ mf[Top(p).on] # NoOne
  \/ Top(p).op \in {"add", "append"} /\ Top(p).at = "start" /\ mf[Top(p).on] # NoOne
  \/ Top(p).op = "append" /\ Top(p).at = "second" /\ mf[Top(p).arg] # NoOne

\* Calls do not wait for each other in a circle, although mc is held while funcs and
\* the Close of a child are called, and Append holds two mutexes: as long as a call is
\* in progress some goroutine can go on. A call has finitely many steps and
\* sync.Mutex starves nobody, so that every call returns (src/defer.go:33-125).
NobodyStuck == (\E p \in Procs : stack[p] # <<>>) => \E p \in Procs : stack[p] # <<>> /\ ~Waits(p)
=============================================================================
