---------------------------- MODULE CircuitBreaker ----------------------------
(***************************************************************************)
(* The circuit breaker value object of litefs/domain/circuit_breaker.py.   *)
(* The class is a frozen dataclass: a method returns a new breaker, so     *)
(* each method is an operator on a record.  success_count is written by    *)
(* the code and read by nothing, and is left out.                          *)
(***************************************************************************)
EXTENDS Integers

CONSTANTS
  Threshold,     \* failures before the circuit opens
  ResetTimeout,  \* seconds before an open circuit lets a probe through
  Disabled       \* TRUE when the breaker is switched off in the settings

\* __post_init__ refuses a threshold below 1 and a timeout that is not positive.
ASSUME BreakerAssumption ==
  /\ Threshold \in Nat \ {0}
  /\ ResetTimeout \in Nat \ {0}
  /\ Disabled \in BOOLEAN

CLOSED    == "CLOSED"
OPEN      == "OPEN"
HALF_OPEN == "HALF_OPEN"
BreakerStates == {CLOSED, OPEN, HALF_OPEN}

NotOpened == -1   \* opened_at is None

Breakers == [state : BreakerStates, failure_count : Nat, opened_at : Nat \cup {NotOpened}]

NewBreaker == [state |-> CLOSED, failure_count |-> 0, opened_at |-> NotOpened]

\* The circuit opens, its timeout running from current_time.
Opened(count, current_time) ==
  [state |-> OPEN, failure_count |-> count, opened_at |-> current_time]

\* A failed probe reopens; the threshold opens (and re-stamps a circuit that is
\* already open); any other failure only counts.
RecordFailure(b, current_time) ==
  CASE b.state = HALF_OPEN -> Opened(1, current_time)
    [] b.state # HALF_OPEN /\ b.failure_count + 1 >= Threshold
         -> Opened(b.failure_count + 1, current_time)
    [] OTHER -> [b EXCEPT !.failure_count = @ + 1]

\* Mutant: a success in CLOSED does not clear the count.
BugRecordSuccessKeepsCount(b) == IF b.state = HALF_OPEN THEN NewBreaker ELSE b

\* A success closes a half-open circuit.  In CLOSED and in OPEN alike it only
\* clears the count: a success that arrives late does not close the circuit.
RecordSuccess(b) ==
  IF b.state = HALF_OPEN THEN NewBreaker ELSE [b EXCEPT !.failure_count = 0]

TimeoutElapsed(b, current_time) ==
  b.opened_at # NotOpened /\ current_time > b.opened_at + ResetTimeout

ShouldAllowRequest(b, current_time) ==
  \/ Disabled
  \/ b.state \in {CLOSED, HALF_OPEN}
  \/ b.state = OPEN /\ TimeoutElapsed(b, current_time)

IsHalfOpen(b, current_time) ==
  \/ b.state = HALF_OPEN
  \/ b.state = OPEN /\ TimeoutElapsed(b, current_time)

TransitionToHalfOpen(b) == [b EXCEPT !.state = HALF_OPEN]
===============================================================================
