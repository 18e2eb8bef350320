---------------------------- MODULE BreakerContract ----------------------------
(***************************************************************************)
(* What a circuit breaker promises to those who share it: the state        *)
(* machine of the class docstring (litefs/domain/circuit_breaker.py:25-30) *)
(* over the outcomes it is told of, with none of the threads, counters or  *)
(* locks.  Outcomes may be told in any state and any number of them.       *)
(***************************************************************************)
EXTENDS Naturals

CONSTANTS Threshold, ResetTimeout

VARIABLES
  phase,   \* "CLOSED", "OPEN" or "HALF_OPEN"
  streak,  \* failures told since the last success told
  opened,  \* when the failure that opened the circuit happened
  time

contract == <<phase, streak, opened, time>>

Init == phase = "CLOSED" /\ streak = 0 /\ time \in Nat /\ opened \notin Nat

\* A failure that happened at some moment up to now.
ToldFailure ==
  /\ streak' = streak + 1
  /\ \/ /\ phase = "CLOSED" /\ streak' < Threshold
        /\ UNCHANGED <<phase, opened>>
     \/ /\ phase = "CLOSED" => streak' = Threshold
        /\ phase' = "OPEN"
        /\ opened' \in 0 .. time
     \/ /\ phase = "OPEN"     \* a late one need not extend the timeout
        /\ UNCHANGED <<phase, opened>>
  /\ UNCHANGED time

\* Only a half-open circuit closes.
ToldSuccess ==
  /\ streak' = 0
  /\ IF phase = "HALF_OPEN"
       THEN phase' = "CLOSED" /\ opened' \notin Nat
       ELSE UNCHANGED <<phase, opened>>
  /\ UNCHANGED time

\* The timeout has run out and somebody asks.
Probe ==
  /\ phase = "OPEN" /\ time > opened + ResetTimeout
  /\ phase' = "HALF_OPEN"
  /\ UNCHANGED <<streak, opened, time>>

Pass == time' > time /\ UNCHANGED <<phase, streak, opened>>

Next == ToldFailure \/ ToldSuccess \/ Probe \/ Pass

Spec == Init /\ [][Next]_contract
===============================================================================
