----------------------------- MODULE WriteDelivery -----------------------------
(***************************************************************************)
(* What becomes of the writes that WriteForwarding sends: every attempt is *)
(* a copy of the write on its way to the primary (external), whose         *)
(* application executes it before the attempt is answered, after the       *)
(* sender has given it up, or never.  A write has no key by which the      *)
(* primary could know a copy from the write it has executed before.        *)
(***************************************************************************)
EXTENDS WriteForwarding

VARIABLES
  write,       \* write[t]: the write that the request of t is
  served,      \* served[t]: the copy that t waits for was executed
  late,        \* late[w]: the copies that nobody waits for any more
  executions,  \* history: how often an application has executed a write
  told         \* history: what its client was told

delivery == <<write, served, late, executions, told>>
deliveryVars == <<vars, delivery>>

Writes == 1 .. MaxRequests

DeliveryInit ==
  /\ Init
  /\ write = [t \in Threads |-> 0]
  /\ served = [t \in Threads |-> FALSE]
  /\ late = [w \in Writes |-> 0]
  /\ executions = [w \in Writes |-> 0]
  /\ told = [w \in Writes |-> "nothing"]

\* What an answer tells a client of its write: it was handled by an application, it was
\* not sent, or nobody knows.
ToldOf(r) ==
  IF r \in {"local", "forwarded"} THEN "success"
  ELSE IF r \in {"circuit_open", "unknown"} THEN "refused" ELSE "unknown"

\* If the step of t ends its request, the client hears of it.
Tell(t) ==
  told' = IF pc'[t] = "idle" THEN [told EXCEPT ![write'[t]] = ToldOf(reply'[t])] ELSE told

-------------------------------------------------------------------------------
\* The next write arrives, at a node that is the primary or that is not.
TakeLocally(t) ==
  /\ HandleLocally(t)
  /\ write' = [write EXCEPT ![t] = arrived']
  /\ executions' = [executions EXCEPT ![arrived'] = @ + 1]
  /\ Tell(t)
  /\ UNCHANGED <<served, late>>

Take(t) ==
  /\ StartForward(t)
  /\ write' = [write EXCEPT ![t] = arrived']
  /\ UNCHANGED <<served, late, executions, told>>

SendCopy(t) ==
  /\ Send(t)
  /\ served' = [served EXCEPT ![t] = FALSE]
  /\ UNCHANGED <<write, late, executions, told>>

\* The primary's application executes a copy, while t waits for its answer ...
Serve(t) ==
  /\ pc[t] = "await" /\ ~served[t]
  /\ served' = [served EXCEPT ![t] = TRUE]
  /\ executions' = [executions EXCEPT ![write[t]] = @ + 1]
  /\ UNCHANGED <<vars, write, late, told>>

\* ... or later, whether or not the client has been answered.
ServeLate(w) ==
  /\ late[w] > 0
  /\ late' = [late EXCEPT ![w] = @ - 1]
  /\ executions' = [executions EXCEPT ![w] = @ + 1]
  /\ UNCHANGED <<vars, write, served, told>>

\* A status other than 502, 503 and 504 is the answer of the primary's application.
AnswerReturns(t) ==
  /\ served[t]
  /\ Respond(t)
  /\ UNCHANGED delivery

\* Any other end of an attempt says nothing of its copy.
AnswerIsLost(t) ==
  /\ Fail(t) \/ Escape(t)
  /\ late' = IF served[t] THEN late ELSE [late EXCEPT ![write[t]] = @ + 1]
  /\ UNCHANGED <<write, served, executions>>
  /\ Tell(t)

GoesOn(t) ==
  /\ \/ Admit(t) \/ Reject(t) \/ MaybeHalfOpen(t) \/ Resolve(t) \/ Wake(t)
     \/ RecordSuccessStep(t) \/ RecordFailureAndRetry(t) \/ RecordFailureAndStop(t)
  /\ UNCHANGED <<write, served, late, executions>>
  /\ Tell(t)

DeliveryNext ==
  \/ \E t \in Threads :
       \/ TakeLocally(t) \/ Take(t) \/ SendCopy(t) \/ Serve(t)
       \/ AnswerReturns(t) \/ AnswerIsLost(t) \/ GoesOn(t)
  \/ \E w \in Writes : ServeLate(w)
  \/ (Tick \/ Done) /\ UNCHANGED delivery

DeliverySpec == DeliveryInit /\ [][DeliveryNext]_deliveryVars

-------------------------------------------------------------------------------
\* Every variable keeps its type.
DeliveryTypeOK ==
  /\ TypeOK
  /\ write \in [Threads -> 0 .. MaxRequests]
  /\ served \in [Threads -> BOOLEAN]
  /\ late \in [Writes -> Nat]
  /\ executions \in [Writes -> Nat]
  /\ told \in [Writes -> {"nothing", "success", "refused", "unknown"}]

\* A client that is told of a success has its write executed; one that is refused may
\* send it again; and no write is executed more often than the retries allow, though
\* copies that were given up are executed after the retry, or after the answer.
Promise == INSTANCE WriteContract WITH MaxExecutions <- MaxRetries + 1

KeepsPromise == Promise!Spec
===============================================================================
