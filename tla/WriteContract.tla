----------------------------- MODULE WriteContract -----------------------------
(***************************************************************************)
(* What the nodes of a cluster promise the client of a write, in either    *)
(* framework: a client that is told of a success has its write executed, a *)
(* client that is refused may send it again, since it is not and will not  *)
(* be executed, and any other client does not know.  No write is executed  *)
(* more often than MaxExecutions says.                                     *)
(***************************************************************************)
EXTENDS Naturals

CONSTANTS Writes, MaxExecutions

VARIABLES
  executions,  \* how often an application has executed a write
  told         \* what its client was told: "nothing", "success", "refused" or "unknown"

contract == <<executions, told>>

Init ==
  /\ executions = [w \in Writes |-> 0]
  /\ told = [w \in Writes |-> "nothing"]

Tell(w, what) ==
  /\ told[w] = "nothing"
  /\ told' = [told EXCEPT ![w] = what]

Count(w) ==
  /\ executions[w] < MaxExecutions
  /\ executions' = [executions EXCEPT ![w] = @ + 1]

\* The node that was asked executes the write and says so.
ExecuteHere(w) == Count(w) /\ Tell(w, "success")

\* Another one executes it, perhaps after the client has been told that nobody knows.
ExecuteThere(w) == Count(w) /\ told[w] # "refused" /\ UNCHANGED told

Succeed(w) == executions[w] > 0 /\ Tell(w, "success") /\ UNCHANGED executions

Refuse(w) == executions[w] = 0 /\ Tell(w, "refused") /\ UNCHANGED executions

GiveUp(w) == Tell(w, "unknown") /\ UNCHANGED executions

Next ==
  \E w \in Writes : ExecuteHere(w) \/ ExecuteThere(w) \/ Succeed(w) \/ Refuse(w) \/ GiveUp(w)

Spec == Init /\ [][Next]_contract
===============================================================================
