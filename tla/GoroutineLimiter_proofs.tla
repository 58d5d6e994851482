----------------------- MODULE GoroutineLimiter_proofs -----------------------
(***************************************************************************)
(* For every Max and every finite set of calls: busy counts the funcs that *)
(* run, at most Limit run at once, and a Do waits for a reason.            *)
(***************************************************************************)
EXTENDS GoroutineLimiter, FiniteSetTheorems, TLAPS

IInv == TypeOK /\ CountsRunning /\ busy <= Limit /\ NoRoomLost

LEMMA LimitPositive == Limit \in Nat /\ Limit >= 1
BY LimiterAssumption DEF Limit

\* The calls in one state are finitely many; a step moves one call out or in.
LEMMA AtFinite == ASSUME NEW state PROVE IsFiniteSet(At(state)) /\ Cardinality(At(state)) \in Nat
<1>1. At(state) \subseteq Calls BY DEF At
<1>2. QED BY <1>1, LimiterAssumption, FS_Subset, FS_CardinalityType

LEMMA AtGrows == ASSUME NEW c \in Calls, NEW state, At(state)' = At(state) \cup {c}, c \notin At(state)
                 PROVE Cardinality(At(state)') = Cardinality(At(state)) + 1
BY AtFinite, FS_AddElement

LEMMA AtShrinks == ASSUME NEW c \in Calls, NEW state, At(state)' = At(state) \ {c}, c \in At(state)
                   PROVE Cardinality(At(state)') = Cardinality(At(state)) - 1
BY AtFinite, FS_RemoveElement

LEMMA InitIInv == Init => IInv
<1> SUFFICES ASSUME Init PROVE IInv OBVIOUS
<1>1. At("running") = {} /\ At("parked") = {} BY DEF Init, At
<1>2. Cardinality({}) = 0 BY FS_EmptySet
<1>3. TypeOK BY DEF Init, TypeOK, CallStates
<1>4. QED BY <1>1, <1>2, <1>3, LimitPositive DEF Init, IInv, CountsRunning, NoRoomLost

LEMMA NextIInv == IInv /\ [Next]_vars => IInv'
<1> SUFFICES ASSUME IInv, [Next]_vars PROVE IInv' OBVIOUS
<1>a. TypeOK BY DEF IInv
<1>b. Cardinality(At("running")) \in Nat /\ Cardinality(At("woken")) \in Nat
      /\ Cardinality(At("woken")') \in Nat
  <2>1. IsFiniteSet(At("woken")')
    <3>1. At("woken")' \subseteq Calls BY DEF At
    <3>2. QED BY <3>1, LimiterAssumption, FS_Subset
  <2>2. QED BY <2>1, AtFinite, FS_CardinalityType
<1> USE LimitPositive DEF IInv, CountsRunning, NoRoomLost, CallStates
<1>1. ASSUME NEW c \in Calls, CallDo(c) \/ CheckOpen(c) PROVE IInv'
  <2>1. At("running")' = At("running") /\ At("woken")' = At("woken") /\ At("parked")' = At("parked")
    BY <1>1, <1>a DEF CallDo, CheckOpen, Goto, At, TypeOK
  <2>2. TypeOK' /\ busy' = busy /\ leaked' = leaked BY <1>1, <1>a DEF CallDo, CheckOpen, Goto, TypeOK
  <2>3. QED BY <2>1, <2>2, <1>b
<1>2. ASSUME NEW c \in Calls, Wait(c) PROVE IInv'
  <2>1. At("running")' = At("running") BY <1>2, <1>a DEF Wait, Goto, At, TypeOK
  <2>2. TypeOK' /\ busy' = busy /\ leaked' = leaked BY <1>2, <1>a DEF Wait, Goto, TypeOK
  <2>3. busy >= Limit BY <1>2 DEF Wait
  <2>4. QED BY <2>1, <2>2, <2>3, <1>a, <1>b DEF TypeOK
<1>3. ASSUME NEW c \in Calls, Refuse(c) PROVE IInv'
  <2>1. At("running")' = At("running") BY <1>3, <1>a DEF Refuse, Goto, At, TypeOK
  <2>2. TypeOK' /\ busy' = busy /\ leaked' BY <1>3, <1>a DEF Refuse, Goto, TypeOK
  <2>3. QED BY <2>1, <2>2, <1>b
<1>4. ASSUME NEW c \in Calls, Run(c) PROVE IInv'
  <2>1. At("running")' = At("running") \cup {c} /\ c \notin At("running")
    BY <1>4, <1>a DEF Run, Goto, At, TypeOK
  <2>2. Cardinality(At("running")') = Cardinality(At("running")) + 1 BY <2>1, AtGrows
  <2>3. At("parked")' = At("parked") BY <1>4, <1>a DEF Run, Goto, At, TypeOK
  <2>4. At("woken")' = At("woken") \/ (c \in At("woken") /\ At("woken")' = At("woken") \ {c})
    BY <1>4, <1>a DEF Run, Goto, At, TypeOK
  <2>5. Cardinality(At("woken")') >= Cardinality(At("woken")) - 1 BY <2>4, AtShrinks, <1>b
  <2>6. TypeOK' /\ busy' = busy + 1 /\ leaked' = leaked /\ busy < Limit
    BY <1>4, <1>a DEF Run, Goto, TypeOK
  <2>7. QED BY <2>2, <2>3, <2>5, <2>6, <1>a, <1>b DEF TypeOK
<1>5. ASSUME NEW c \in Calls, Finish(c) PROVE IInv'
  <2>1. c \in At("running") /\ At("running")' = At("running") \ {c}
    BY <1>5, <1>a DEF Finish, At, TypeOK
  <2>2. Cardinality(At("running")') = Cardinality(At("running")) - 1 BY <2>1, AtShrinks
  <2>3. busy' = busy - 1 /\ leaked' = leaked BY <1>5 DEF Finish
  <2>4. TypeOK'
    <3>1. busy' \in Nat
      <4>1. busy' = Cardinality(At("running")') BY <2>2, <2>3
      <4>2. IsFiniteSet(At("running")') BY <2>1, AtFinite, FS_RemoveElement
      <4>3. QED BY <4>1, <4>2, FS_CardinalityType
    <3>2. pc' \in [Calls -> CallStates] BY <1>5, <1>a DEF Finish, At, TypeOK
    <3>3. closed' = closed /\ leaked' = leaked /\ handler' = handler BY <1>5 DEF Finish
    <3>4. QED BY <3>1, <3>2, <3>3, <1>a DEF TypeOK
  <2>5. At("parked")' # {} => Cardinality(At("woken")') = Cardinality(At("woken")) + 1
    <3>1. CASE At("parked") = {}
      <4>1. At("parked")' = {} BY <1>5, <1>a, <3>1 DEF Finish, At, TypeOK
      <4>2. QED BY <4>1
    <3>2. ASSUME NEW p \in At("parked"), pc' = [pc EXCEPT ![c] = "done", ![p] = "woken"]
          PROVE Cardinality(At("woken")') = Cardinality(At("woken")) + 1
      <4>1. p \in Calls /\ p \notin At("woken") /\ At("woken")' = At("woken") \cup {p}
        BY <1>5, <1>a, <3>2 DEF Finish, At, TypeOK
      <4>2. QED BY <4>1, AtGrows
    <3>3. QED BY <1>5, <3>1, <3>2 DEF Finish
  <2>6. At("parked")' \subseteq At("parked") BY <1>5, <1>a DEF Finish, At, TypeOK
  <2>7. QED BY <2>2, <2>3, <2>4, <2>5, <2>6, <1>a, <1>b DEF TypeOK
<1>6. ASSUME Close PROVE IInv'
  <2>1. TypeOK' /\ UNCHANGED <<busy, leaked, pc>> BY <1>6, <1>a DEF Close, TypeOK
  <2>2. QED BY <2>1, <1>b DEF At
<1>7. ASSUME HandleCtx PROVE IInv'
  <2>1. At("parked")' = {} /\ At("running")' = At("running") BY <1>7, <1>a DEF HandleCtx, At, TypeOK
  <2>2. TypeOK' /\ busy' = busy BY <1>7, <1>a DEF HandleCtx, TypeOK
  <2>3. QED BY <2>1, <2>2
<1>8. CASE UNCHANGED vars
  <2>1. TypeOK' BY <1>8, <1>a DEF vars, TypeOK
  <2>2. QED BY <1>8, <2>1, <1>b DEF vars, At
<1>9. QED BY <1>1, <1>2, <1>3, <1>4, <1>5, <1>6, <1>7, <1>8 DEF Next, Step

LEMMA Inductive == Spec => []IInv
BY InitIInv, NextIInv, PTL DEF Spec

\* The variables keep their types.
THEOREM Typing == Spec => []TypeOK
<1>1. IInv => TypeOK BY DEF IInv
<1>2. QED BY <1>1, Inductive, PTL

\* The limiter keeps its promise: at most Limit funcs run in parallel.
THEOREM Bound == Spec => []AtMostLimit
<1>1. IInv => AtMostLimit BY DEF IInv, CountsRunning, AtMostLimit
<1>2. QED BY <1>1, Inductive, PTL

\* A Do that waits is waiting for funcs that run, or for Dos that were woken.
THEOREM RoomIsUsed == Spec => []NoRoomLost
<1>1. IInv => NoRoomLost BY DEF IInv
<1>2. QED BY <1>1, Inductive, PTL

\* Once the limiter is closed no func starts.
THEOREM ClosedStartsNothing == Spec => NoStartAfterClose
<1>1. TypeOK /\ [Next]_vars => [\A c \in Calls : closed => ~(pc[c] # "running" /\ pc'[c] = "running")]_vars
  BY DEF TypeOK, Next, Step, CallDo, CheckOpen, Wait, Refuse, Run, Finish, Close, HandleCtx, Goto, At, vars
<1>2. QED BY <1>1, Typing, PTL DEF Spec, NoStartAfterClose
=============================================================================
