----------------------------- MODULE HTTPSender -----------------------------
(***************************************************************************)
(* HTTPSender (src/http.go): sends a request, again when the client timed  *)
(* out or the retry func says so, at most RetryMax more times. The client  *)
(* is external: it answers, or fails in a temporary or a permanent way,    *)
(* and each answer has a body that somebody must close. A request is one   *)
(* call of Send; its context may end at any time.                          *)
(***************************************************************************)
EXTENDS Naturals

CONSTANTS Requests,   \* the calls of Send
          RetryMax    \* HTTPSenderOptions.RetryMax

VARIABLES spc,        \* where each Send is
          left,       \* its retriesLeft
          answer,     \* its resp: "none", "good", or "bad" if the retry func wants another
          bodies      \* the number of bodies it opened that nobody closed

senderVars == <<spc, left, answer, bodies>>

SendStates == {"idle", "do", "answered", "sent", "failed", "closed"}
Answers == {"none", "good", "bad"}

SenderInit == /\ spc = [r \in Requests |-> "idle"] /\ left = [r \in Requests |-> 0]
              /\ answer = [r \in Requests |-> "none"] /\ bodies = [r \in Requests |-> 0]

Sends(r, from, to) == spc[r] = from /\ spc' = [spc EXCEPT ![r] = to]

\* resp.Body.Close(), if there is a response.
CloseBody(r) == bodies' = [bodies EXCEPT ![r] = IF answer[r] = "none" THEN @ ELSE @ - 1]

\* It runs at least once even if RetryMax is 0.
Send(r) == /\ Sends(r, "idle", "do")
           /\ left' = [left EXCEPT ![r] = RetryMax + 1]
           /\ UNCHANGED <<answer, bodies>>

\* The client answers ...
Answered(r) == /\ Sends(r, "do", "answered")
               /\ \E a \in {"good", "bad"} : answer' = [answer EXCEPT ![r] = a]
               /\ bodies' = [bodies EXCEPT ![r] = @ + 1]
               /\ UNCHANGED left

\* ... or has a temporary error, which is looked at like an answer ...
TimedOut(r) == /\ Sends(r, "do", "answered")
               /\ answer' = [answer EXCEPT ![r] = "none"]
               /\ UNCHANGED <<left, bodies>>

\* Send returns: what it knew is gone.
Ends(r, from, to) == /\ Sends(r, from, to)
                     /\ left' = [left EXCEPT ![r] = 0] /\ answer' = [answer EXCEPT ![r] = "none"]

\* ... or any other error: stop.
Fails(r) == Ends(r, "do", "failed") /\ UNCHANGED bodies

\* Request has timed out: make sure to close response body.
Expired(r, done) == Ends(r, "answered", "failed") /\ done /\ CloseBody(r)

WantsRetry(r) == answer[r] # "good"

\* Retry, after a sleep that does not look at the context.
Retry(r, done) == /\ Sends(r, "answered", "do") /\ ~done /\ WantsRetry(r) /\ left[r] > 1
                  /\ left' = [left EXCEPT ![r] = @ - 1]
                  /\ answer' = [answer EXCEPT ![r] = "none"]
                  /\ CloseBody(r)

\* Max retries limit reached: the last answer, however bad, is returned.
GiveUp(r, done) == /\ ~done /\ WantsRetry(r) /\ left[r] = 1
                   /\ Ends(r, "answered", IF answer[r] = "none" THEN "failed" ELSE "sent")
                   /\ UNCHANGED bodies

Returns(r, done) == Ends(r, "answered", "sent") /\ ~done /\ ~WantsRetry(r) /\ UNCHANGED bodies

\* The caller of Send closes the body of the answer it got.
CloseAnswer(r) == /\ Sends(r, "sent", "closed")
                  /\ bodies' = [bodies EXCEPT ![r] = @ - 1]
                  /\ UNCHANGED <<left, answer>>

\* A step of Send, whose context is done or not.
SendStep(r, done) == \/ Answered(r) \/ TimedOut(r) \/ Fails(r) \/ Expired(r, done)
                     \/ Retry(r, done) \/ GiveUp(r, done) \/ Returns(r, done)

-----------------------------------------------------------------------------
SenderTypeOK == /\ spc \in [Requests -> SendStates] /\ left \in [Requests -> 0..RetryMax + 1]
                /\ answer \in [Requests -> Answers] /\ bodies \in [Requests -> Nat]

\* Across retries, timeouts and the end of the context, the only body that is
\* open while Send is not reading an answer is the one it hands over.
BodiesClosed == \A r \in Requests :
  bodies[r] = IF (spc[r] = "answered" /\ answer[r] # "none") \/ spc[r] = "sent" THEN 1 ELSE 0
=============================================================================
