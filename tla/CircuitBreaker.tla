--------------------------- MODULE CircuitBreaker ---------------------------
(***************************************************************************)
(* One circuit breaker of apiGateway: every gRPC call of the gateway to    *)
(* one service goes through it, many at a time.  The calls that were       *)
(* admitted in one state of the breaker are answered in another, and every *)
(* answer moves it.  A gRPC call ends by its deadline.                     *)
(*                                                                         *)
(* A call that canAttempt refuses changes nothing and is not a step.       *)
(***************************************************************************)
EXTENDS Integers

CONSTANTS
    Calls,              \* calls that may be in flight at the same time
    FailureThreshold,   \* GRPC_CIRCUIT_BREAKER_FAILURE_THRESHOLD
    ResetTimeout,       \* GRPC_CIRCUIT_BREAKER_RESET_TIMEOUT_MS, in ticks
    Deadline,           \* GRPC_DEADLINE_MS, in ticks
    MaxTime             \* bound: ticks in a behaviour

ASSUME SettingsAssumption ==
    {FailureThreshold, ResetTimeout, Deadline} \subseteq Nat \ {0}
ASSUME MaxTimeAssumption == MaxTime \in Nat

VARIABLES
    state,                 \* CLOSED, OPEN or HALF_OPEN
    consecutiveFailures,
    nextAttemptAt,
    now,                   \* Date.now()
    inFlight,              \* the calls admitted and not yet answered
    startedAt,             \* when each of them was admitted
    openedAt               \* history: when the breaker last became OPEN

breaker == <<state, consecutiveFailures, nextAttemptAt, openedAt>>
vars    == <<breaker, now, inFlight, startedAt>>

States == {"CLOSED", "OPEN", "HALF_OPEN"}

Init ==
    /\ state = "CLOSED"
    /\ consecutiveFailures = 0
    /\ nextAttemptAt = 0
    /\ now = 0
    /\ inFlight = {}
    /\ startedAt = [c \in Calls |-> 0]
    /\ openedAt = 0

-----------------------------------------------------------------------------

\* markSuccess: whatever the state, and whenever the call was admitted.
MarkSuccess ==
    /\ consecutiveFailures' = 0
    /\ nextAttemptAt' = 0
    /\ state' = "CLOSED"
    /\ UNCHANGED openedAt

\* Faulty variant: the threshold has to be exceeded.
MarkFailure_offByOne ==
    /\ consecutiveFailures' = consecutiveFailures + 1
    /\ IF state = "HALF_OPEN" \/ consecutiveFailures' > FailureThreshold
       THEN /\ nextAttemptAt' = now + ResetTimeout
            /\ state' = "OPEN"
            /\ openedAt' = IF state = "OPEN" THEN openedAt ELSE now
       ELSE UNCHANGED <<nextAttemptAt, state, openedAt>>

\* Faulty variant: a failed probe is only counted.
MarkFailure_halfOpenIgnored ==
    /\ consecutiveFailures' = consecutiveFailures + 1
    /\ IF state # "HALF_OPEN" /\ consecutiveFailures' >= FailureThreshold
       THEN /\ nextAttemptAt' = now + ResetTimeout
            /\ state' = "OPEN"
            /\ openedAt' = IF state = "OPEN" THEN openedAt ELSE now
       ELSE UNCHANGED <<nextAttemptAt, state, openedAt>>

\* markFailure: a failure while OPEN starts the window again.
MarkFailure ==
    /\ consecutiveFailures' = consecutiveFailures + 1
    /\ IF state = "HALF_OPEN" \/ consecutiveFailures' >= FailureThreshold
       THEN /\ nextAttemptAt' = now + ResetTimeout
            /\ state' = "OPEN"
            /\ openedAt' = IF state = "OPEN" THEN openedAt ELSE now
       ELSE UNCHANGED <<nextAttemptAt, state, openedAt>>

\* Faulty variant: an open breaker refuses nothing.
CanAttempt_always == UNCHANGED state

\* canAttempt, where it returns true: any number of calls while CLOSED or
\* HALF_OPEN; the first one after the window makes OPEN HALF_OPEN.
CanAttempt ==
    \/ state # "OPEN" /\ UNCHANGED state
    \/ state = "OPEN" /\ now >= nextAttemptAt /\ state' = "HALF_OPEN"

\* execute, up to the await of the call.
Admit(c) ==
    /\ c \notin inFlight
    /\ CanAttempt
    /\ inFlight' = inFlight \cup {c}
    /\ startedAt' = [startedAt EXCEPT ![c] = now]
    /\ UNCHANGED <<consecutiveFailures, nextAttemptAt, openedAt, now>>

\* The call is no longer in flight.
Answered(c) ==
    /\ c \in inFlight
    /\ inFlight' = inFlight \ {c}
    /\ UNCHANGED <<startedAt, now>>

Succeed(c) == Answered(c) /\ MarkSuccess

\* Any gRPC error, a refusal of the request by the service included, or the
\* deadline.
Fail(c) == Answered(c) /\ MarkFailure

\* Time passes, never beyond the deadline of a call in flight.
Tick ==
    /\ now < MaxTime
    /\ \A c \in inFlight : now < startedAt[c] + Deadline
    /\ now' = now + 1
    /\ UNCHANGED <<breaker, inFlight, startedAt>>

Next ==
    \/ \E c \in Calls : Admit(c) \/ Succeed(c) \/ Fail(c)
    \/ Tick

\* Every call is answered, at the latest by its deadline.
Fairness == \A c \in Calls : WF_vars(Succeed(c) \/ Fail(c))

Safe == Init /\ [][Next]_vars
Spec == Safe /\ Fairness

-----------------------------------------------------------------------------
(* Safety *)

\* Every variable has its type.
TypeOK ==
    /\ state \in States
    /\ consecutiveFailures \in Nat
    /\ nextAttemptAt \in Nat
    /\ now \in Nat
    /\ inFlight \in SUBSET Calls
    /\ startedAt \in [Calls -> Nat]
    /\ openedAt \in Nat

\* The counter and the state never disagree, whatever the order in which the
\* answers of several generations of calls come in: the breaker is CLOSED
\* exactly while fewer than FailureThreshold calls have failed in a row.
ClosedBelowThreshold ==
    state = "CLOSED" <=> consecutiveFailures < FailureThreshold

\* HALF_OPEN is never a dead end: a call whose answer will end it is in
\* flight.
HalfOpenHasProbe == state = "HALF_OPEN" => inFlight # {}

\* So every state has its reason, and a way out.
StateIsEarned == ClosedBelowThreshold /\ HalfOpenHasProbe

\* A breaker that opens asks again within ResetTimeout + Deadline: failures of
\* calls admitted earlier move the window, but only until their deadlines.
OpenIsBounded ==
    state = "OPEN" => nextAttemptAt <= openedAt + Deadline + ResetTimeout

\* What makes it inductive: while OPEN, every call in flight was admitted
\* before it opened and is within its deadline.
OldCallsOnly ==
    \A c \in inFlight :
        /\ startedAt[c] <= now /\ now <= startedAt[c] + Deadline
        /\ state = "OPEN" => startedAt[c] <= openedAt

(* Liveness *)

\* A half-open breaker decides.
HalfOpenResolves == state = "HALF_OPEN" ~> state # "HALF_OPEN"

=============================================================================
