----------------------- MODULE CircuitBreaker_proofs -----------------------
(***************************************************************************)
(* The safety properties of CircuitBreaker, for any number of calls in     *)
(* flight and any settings.  The counter decides the state, and the state  *)
(* decides which calls may be in flight: that is the induction.            *)
(***************************************************************************)
EXTENDS CircuitBreaker, TLAPS

IInv ==
    /\ TypeOK
    /\ ClosedBelowThreshold
    /\ HalfOpenHasProbe
    /\ OpenIsBounded
    /\ OldCallsOnly

\* A breaker starts CLOSED, without failures and without calls.
LEMMA InitIInv == Init => IInv
  BY SettingsAssumption
  DEF Init, IInv, TypeOK, States, ClosedBelowThreshold, HalfOpenHasProbe,
      OpenIsBounded, OldCallsOnly

\* Admission: never while OPEN, so no call in flight is younger than the
\* opening.
LEMMA AdmitKeeps ==
    ASSUME IInv, NEW c \in Calls, Admit(c)
    PROVE  IInv'
  <1> USE SettingsAssumption DEF IInv, TypeOK, States, Admit, CanAttempt
  <1>1. TypeOK'
    OBVIOUS
  <1>2. state' # "OPEN"
    OBVIOUS
  <1>3. ClosedBelowThreshold'
    BY DEF ClosedBelowThreshold
  <1>4. HalfOpenHasProbe'
    BY DEF HalfOpenHasProbe
  <1>5. OpenIsBounded'
    BY <1>2 DEF OpenIsBounded
  <1>6. OldCallsOnly'
    BY <1>2 DEF OldCallsOnly
  <1> QED BY <1>1, <1>3, <1>4, <1>5, <1>6

\* A success closes the breaker.
LEMMA SucceedKeeps ==
    ASSUME IInv, NEW c \in Calls, Succeed(c)
    PROVE  IInv'
  BY SettingsAssumption
  DEF IInv, TypeOK, States, Succeed, Answered, MarkSuccess, ClosedBelowThreshold,
      HalfOpenHasProbe, OpenIsBounded, OldCallsOnly

\* A failure opens it, or, when it is open, moves the window: the call that
\* failed was admitted before the opening and is within its deadline.
LEMMA FailKeeps ==
    ASSUME IInv, NEW c \in Calls, Fail(c)
    PROVE  IInv'
  <1> USE SettingsAssumption DEF IInv, TypeOK, States, Fail, Answered, MarkFailure
  <1>1. TypeOK'
    OBVIOUS
  <1>2. ClosedBelowThreshold' /\ state' # "HALF_OPEN"
    BY DEF ClosedBelowThreshold
  <1>3. HalfOpenHasProbe'
    BY <1>2 DEF HalfOpenHasProbe
  <1>4. OpenIsBounded'
    <2>1. CASE state = "OPEN"
      <3>1. now <= openedAt + Deadline
        BY <2>1 DEF OldCallsOnly
      <3>2. nextAttemptAt' = now + ResetTimeout /\ openedAt' = openedAt
        BY <2>1 DEF ClosedBelowThreshold
      <3> QED BY <3>1, <3>2 DEF OpenIsBounded
    <2>2. CASE state # "OPEN"
      BY <2>2 DEF OpenIsBounded
    <2> QED BY <2>1, <2>2
  <1>5. OldCallsOnly'
    BY DEF OldCallsOnly, ClosedBelowThreshold
  <1> QED BY <1>1, <1>2, <1>3, <1>4, <1>5

\* Time stops at the deadline of a call in flight.
LEMMA TickKeeps ==
    ASSUME IInv, Tick
    PROVE  IInv'
  BY SettingsAssumption
  DEF IInv, TypeOK, Tick, breaker, ClosedBelowThreshold, HalfOpenHasProbe,
      OpenIsBounded, OldCallsOnly

\* The inductive invariant holds in every reachable state.
THEOREM Invariance == Safe => []IInv
  <1>1. Init => IInv
    BY InitIInv
  <1>2. IInv /\ [Next]_vars => IInv'
    <2> SUFFICES ASSUME IInv, [Next]_vars PROVE IInv'
      OBVIOUS
    <2>1. CASE UNCHANGED vars
      BY <2>1 DEF vars, breaker, IInv, TypeOK, ClosedBelowThreshold,
                  HalfOpenHasProbe, OpenIsBounded, OldCallsOnly
    <2> QED
      BY <2>1, AdmitKeeps, SucceedKeeps, FailKeeps, TickKeeps DEF Next
  <1> QED BY <1>1, <1>2, PTL DEF Safe

\* Every variable keeps its type.
THEOREM TypeCorrect == Safe => []TypeOK
  <1>1. IInv => TypeOK
    BY DEF IInv
  <1> QED BY <1>1, Invariance, PTL

\* CLOSED exactly while fewer than FailureThreshold calls failed in a row, and
\* a half-open breaker has a probe in flight.
THEOREM StateTheorem == Safe => []StateIsEarned
  <1>1. IInv => StateIsEarned
    BY DEF IInv, StateIsEarned
  <1> QED BY <1>1, Invariance, PTL

\* An open breaker asks again within ResetTimeout + Deadline of its opening.
THEOREM BoundTheorem == Safe => []OpenIsBounded
  <1>1. IInv => OpenIsBounded
    BY DEF IInv
  <1> QED BY <1>1, Invariance, PTL

=============================================================================
