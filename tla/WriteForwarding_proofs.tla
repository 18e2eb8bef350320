------------------------- MODULE WriteForwarding_proofs -------------------------
(***************************************************************************)
(* Proofs about WriteForwarding.tla and, in the end, WriteDelivery.tla,    *)
(* for any set of threads, threshold, timeout, retry count, and any        *)
(* behaviour of the port, the resolver and the primary.                    *)
(***************************************************************************)
EXTENDS WriteDelivery, TLAPS

\* The position of a thread in the retry loop fixes how often it has sent, how
\* often it has told the breaker, and which attempt it is at.
LoopInv ==
  \A t \in Threads :
    /\ now[t] <= clock
    /\ pc[t] \in {"check", "half_open", "resolve", "send"} =>
         sends[t] = attempt[t] /\ recorded[t] = attempt[t]
    /\ pc[t] \in {"check", "half_open", "resolve"} => attempt[t] = 0
    /\ pc[t] \in {"await", "record_success", "record_failure"} =>
         sends[t] = attempt[t] + 1 /\ recorded[t] = attempt[t]
    /\ pc[t] = "record_success" => result[t] = "other"
    /\ pc[t] = "record_failure" => result[t] \in {"gateway", "transient", "permanent"}
    /\ pc[t] = "backoff" =>
         /\ attempt[t] < MaxRetries
         /\ sends[t] = attempt[t] + 1 /\ recorded[t] = attempt[t] + 1

IndInv ==
  /\ TypeOK
  /\ BreakerConsistent
  /\ CountsConsecutiveFailures
  /\ LoopInv
  /\ AnswersAreTrue
  /\ FailuresAllRecorded

-------------------------------------------------------------------------------
\* What the breaker's operators return, for a caller that read the time earlier.

LEMMA RecordFailureType ==
  ASSUME NEW b \in Breakers, NEW time \in Nat
  PROVE  RecordFailure(b, time) \in Breakers
  BY BreakerAssumption DEF Breakers, RecordFailure, Opened, BreakerStates, CLOSED, OPEN, HALF_OPEN, NotOpened

LEMMA RecordSuccessType ==
  ASSUME NEW b \in Breakers
  PROVE  RecordSuccess(b) \in Breakers
  BY DEF Breakers, RecordSuccess, NewBreaker, BreakerStates, CLOSED, OPEN, HALF_OPEN, NotOpened

LEMMA HalfOpenType ==
  ASSUME NEW b \in Breakers
  PROVE  TransitionToHalfOpen(b) \in Breakers
  BY DEF Breakers, TransitionToHalfOpen, BreakerStates, CLOSED, OPEN, HALF_OPEN

-------------------------------------------------------------------------------
LEMMA InitIndInv == Init => IndInv
  BY BreakerAssumption, ForwardingAssumption
  DEF Init, IndInv, TypeOK, BreakerConsistent, CountsConsecutiveFailures, LoopInv, AnswersAreTrue,
      FailuresAllRecorded, Breakers, NewBreaker, NotOpened, BreakerStates, CLOSED, OPEN, HALF_OPEN,
      PCs, Replies, AllPortResults

USE DEF GoTo, Answer, locals, history

\* Every step keeps the types.
LEMMA TypeStep == IndInv /\ [Next]_vars => TypeOK'
  <1> SUFFICES ASSUME IndInv, [Next]_vars PROVE TypeOK'
    OBVIOUS
  <1> USE BreakerAssumption, ForwardingAssumption DEF IndInv, TypeOK, PCs, Replies
  <1>1. ASSUME NEW t \in Threads, HandleLocally(t) PROVE TypeOK'
    BY <1>1 DEF HandleLocally
  <1>2. ASSUME NEW t \in Threads, StartForward(t) PROVE TypeOK'
    BY <1>2 DEF StartForward
  <1>3. ASSUME NEW t \in Threads, Admit(t) PROVE TypeOK'
    BY <1>3 DEF Admit
  <1>4. ASSUME NEW t \in Threads, Reject(t) PROVE TypeOK'
    BY <1>4 DEF Reject
  <1>5. ASSUME NEW t \in Threads, MaybeHalfOpen(t) PROVE TypeOK'
    <2>1. breaker' \in Breakers
      BY <1>5, HalfOpenType DEF MaybeHalfOpen
    <2>2. QED
      BY <1>5, <2>1 DEF MaybeHalfOpen
  <1>6. ASSUME NEW t \in Threads, Resolve(t) PROVE TypeOK'
    BY <1>6 DEF Resolve
  <1>7. ASSUME NEW t \in Threads, Send(t) PROVE TypeOK'
    BY <1>7 DEF Send
  <1>8. ASSUME NEW t \in Threads, Respond(t) PROVE TypeOK'
    BY <1>8 DEF Respond, AllPortResults
  <1>9. ASSUME NEW t \in Threads, Fail(t) PROVE TypeOK'
    BY <1>9 DEF Fail, AllPortResults
  <1>10. ASSUME NEW t \in Threads, Escape(t) PROVE TypeOK'
    BY <1>10 DEF Escape, AllPortResults
  <1>11. ASSUME NEW t \in Threads, RecordSuccessStep(t) PROVE TypeOK'
    BY <1>11, RecordSuccessType DEF RecordSuccessStep
  <1>12. ASSUME NEW t \in Threads, RecordFailureAndRetry(t) PROVE TypeOK'
    <2>1. breaker' \in Breakers
      BY <1>12, RecordFailureType DEF RecordFailureAndRetry, TellFailure
    <2>2. QED
      BY <1>12, <2>1 DEF RecordFailureAndRetry, TellFailure
  <1>13. ASSUME NEW t \in Threads, RecordFailureAndStop(t) PROVE TypeOK'
    <2>1. breaker' \in Breakers
      BY <1>13, RecordFailureType DEF RecordFailureAndStop, TellFailure
    <2>2. QED
      BY <1>13, <2>1 DEF RecordFailureAndStop, TellFailure
  <1>14. ASSUME NEW t \in Threads, Wake(t) PROVE TypeOK'
    BY <1>14 DEF Wake, LoopInv
  <1>15. CASE Tick
    BY <1>15 DEF Tick
  <1>16. CASE UNCHANGED vars
    BY <1>16 DEF vars
  <1>17. QED
    BY <1>1, <1>2, <1>3, <1>4, <1>5, <1>6, <1>7, <1>8, <1>9, <1>10, <1>11, <1>12, <1>13, <1>14,
       <1>15, <1>16 DEF Next, Proceed, Done

\* The breaker's fields stay consistent, and its count stays the streak: only
\* three steps write it.
LEMMA BreakerStep ==
  IndInv /\ [Next]_vars => BreakerConsistent' /\ CountsConsecutiveFailures'
  <1> DEFINE Good == BreakerConsistent /\ CountsConsecutiveFailures
  <1> SUFFICES ASSUME IndInv, [Next]_vars PROVE Good'
    OBVIOUS
  <1> USE BreakerAssumption
      DEF IndInv, TypeOK, BreakerConsistent, CountsConsecutiveFailures, Breakers, BreakerStates,
          NotOpened, CLOSED, OPEN, HALF_OPEN
  <1>1. ASSUME NEW t \in Threads, MaybeHalfOpen(t) PROVE Good'
    BY <1>1 DEF MaybeHalfOpen, IsHalfOpen, TimeoutElapsed, TransitionToHalfOpen
  <1>2. ASSUME NEW t \in Threads, RecordSuccessStep(t) PROVE Good'
    BY <1>2 DEF RecordSuccessStep, RecordSuccess, NewBreaker
  <1>3. ASSUME NEW t \in Threads, TellFailure(t) PROVE Good'
    <2>1. now[t] \in Nat /\ now[t] <= clock
      BY ForwardingAssumption DEF LoopInv
    <2>2. CASE breaker.state = HALF_OPEN
      BY <1>3, <2>1, <2>2 DEF TellFailure, RecordFailure, Opened
    <2>3. CASE breaker.state # HALF_OPEN /\ breaker.failure_count + 1 >= Threshold
      BY <1>3, <2>1, <2>3 DEF TellFailure, RecordFailure, Opened
    <2>4. CASE breaker.state # HALF_OPEN /\ ~(breaker.failure_count + 1 >= Threshold)
      BY <1>3, <2>1, <2>4 DEF TellFailure, RecordFailure
    <2>5. QED
      BY <2>2, <2>3, <2>4
  <1>4. CASE Tick
    BY <1>4, ForwardingAssumption DEF Tick
  <1>5. CASE UNCHANGED <<breaker, clock, streak>>
    BY <1>5
  <1>6. QED
    BY <1>1, <1>2, <1>3, <1>4, <1>5
    DEF Next, Proceed, Done, vars, HandleLocally, StartForward, Admit, Reject, Resolve, Send,
        Respond, Fail, Escape, RecordFailureAndRetry, RecordFailureAndStop, Wake

\* The retry loop's bookkeeping, and what the answers say of it.
LEMMA LoopStep ==
  IndInv /\ [Next]_vars => LoopInv' /\ AnswersAreTrue' /\ FailuresAllRecorded'
  <1> DEFINE Good == LoopInv /\ AnswersAreTrue /\ FailuresAllRecorded
  <1> SUFFICES ASSUME IndInv, [Next]_vars PROVE Good'
    OBVIOUS
  <1> USE ForwardingAssumption
      DEF IndInv, TypeOK, LoopInv, AnswersAreTrue, FailuresAllRecorded
  <1>1. ASSUME NEW t \in Threads, HandleLocally(t) PROVE Good'
    BY <1>1 DEF HandleLocally
  <1>2. ASSUME NEW t \in Threads, StartForward(t) PROVE Good'
    BY <1>2 DEF StartForward
  <1>3. ASSUME NEW t \in Threads, Admit(t) PROVE Good'
    BY <1>3 DEF Admit
  <1>4. ASSUME NEW t \in Threads, Reject(t) PROVE Good'
    BY <1>4 DEF Reject
  <1>5. ASSUME NEW t \in Threads, MaybeHalfOpen(t) PROVE Good'
    BY <1>5 DEF MaybeHalfOpen
  <1>6. ASSUME NEW t \in Threads, Resolve(t) PROVE Good'
    BY <1>6 DEF Resolve
  <1>7. ASSUME NEW t \in Threads, Send(t) PROVE Good'
    BY <1>7 DEF Send
  <1>8. ASSUME NEW t \in Threads, Respond(t) PROVE Good'
    BY <1>8 DEF Respond
  <1>9. ASSUME NEW t \in Threads, Fail(t) PROVE Good'
    BY <1>9 DEF Fail
  <1>10. ASSUME NEW t \in Threads, Escape(t) PROVE Good'
    BY <1>10 DEF Escape
  <1>11. ASSUME NEW t \in Threads, RecordSuccessStep(t) PROVE Good'
    BY <1>11 DEF RecordSuccessStep
  <1>12. ASSUME NEW t \in Threads, RecordFailureAndRetry(t) PROVE Good'
    BY <1>12 DEF RecordFailureAndRetry, TellFailure, WillRetry
  <1>13. ASSUME NEW t \in Threads, RecordFailureAndStop(t) PROVE Good'
    BY <1>13 DEF RecordFailureAndStop, TellFailure, WillRetry
  <1>14. ASSUME NEW t \in Threads, Wake(t) PROVE Good'
    BY <1>14 DEF Wake
  <1>15. CASE Tick
    BY <1>15 DEF Tick
  <1>16. CASE UNCHANGED vars
    BY <1>16 DEF vars
  <1>17. QED
    BY <1>1, <1>2, <1>3, <1>4, <1>5, <1>6, <1>7, <1>8, <1>9, <1>10, <1>11, <1>12, <1>13,
       <1>14, <1>15, <1>16 DEF Next, Proceed, Done

\* No request is sent more often than the retries allow.
LEMMA SendsBounded ==
  ASSUME IndInv, NEW t \in Threads, pc[t] # "idle"
  PROVE  sends[t] <= MaxRetries + 1
  BY ForwardingAssumption DEF IndInv, TypeOK, LoopInv, PCs

-------------------------------------------------------------------------------
\* The inductive invariant holds of every behaviour of the middleware.
LEMMA Invariance == Init /\ [][Next]_vars => []IndInv
  <1>1. IndInv /\ [Next]_vars => IndInv'
    BY TypeStep, BreakerStep, LoopStep DEF IndInv
  <1>2. QED
    BY InitIndInv, <1>1, PTL

\* Type correctness of the middleware's state.
THEOREM TypeCorrect == Spec => []TypeOK
  BY Invariance, PTL DEF Spec, IndInv

\* However the locked sections of the request threads interleave, the shared
\* breaker is consistent.
THEOREM BreakerStaysConsistent == Spec => []BreakerConsistent
  BY Invariance, PTL DEF Spec, IndInv

\* While the circuit is closed, its count is the number of failures told since
\* the last success of any thread: no update is lost.
THEOREM NoFailureLost == Spec => []CountsConsecutiveFailures
  BY Invariance, PTL DEF Spec, IndInv

\* Every answer of the middleware is true of what was sent.
THEOREM AnswersTrue == Spec => []AnswersAreTrue
  BY Invariance, PTL DEF Spec, IndInv

\* Every failed attempt of an answered request was recorded in the breaker.
THEOREM AllRecorded == Spec => []FailuresAllRecorded
  BY Invariance, PTL DEF Spec, IndInv

-------------------------------------------------------------------------------
\* The middleware's breaker, under any interleaving of its threads and with the
\* times they read before they took the lock, implements the state machine of
\* BreakerContract: the initial states agree, and each step is a step of the
\* contract or changes nothing it sees.
THEOREM ImplementsBreakerContract == Spec => ImplementsContract
  <1> USE BreakerAssumption, ForwardingAssumption
      DEF NotOpened, CLOSED, OPEN, HALF_OPEN
  <1>1. Init => Contract!Init
    BY DEF Init, Contract!Init, NewBreaker
  <1>2. IndInv /\ [Next]_vars => [Contract!Next]_(Contract!contract)
    <2> SUFFICES ASSUME IndInv, [Next]_vars
                 PROVE  Contract!Next \/ UNCHANGED Contract!contract
      OBVIOUS
    <2> USE DEF IndInv, TypeOK, Breakers, BreakerStates, Contract!contract, Contract!Next
    <2>1. ASSUME NEW t \in Threads, MaybeHalfOpen(t)
          PROVE  Contract!Probe \/ UNCHANGED Contract!contract
      BY <2>1 DEF MaybeHalfOpen, IsHalfOpen, TimeoutElapsed, TransitionToHalfOpen, LoopInv,
                  Contract!Probe
    <2>2. ASSUME NEW t \in Threads, RecordSuccessStep(t)
          PROVE  Contract!ToldSuccess
      BY <2>2 DEF RecordSuccessStep, RecordSuccess, NewBreaker, Contract!ToldSuccess
    <2>3. ASSUME NEW t \in Threads, TellFailure(t)
          PROVE  Contract!ToldFailure
      <3>1. now[t] \in 0 .. clock
        BY DEF LoopInv
      <3>2. CASE breaker.state = HALF_OPEN
        BY <2>3, <3>1, <3>2 DEF TellFailure, RecordFailure, Opened, Contract!ToldFailure
      <3>3. CASE breaker.state # HALF_OPEN /\ breaker.failure_count + 1 >= Threshold
        BY <2>3, <3>1, <3>3
        DEF TellFailure, RecordFailure, Opened, BreakerConsistent, CountsConsecutiveFailures,
            Contract!ToldFailure
      <3>4. CASE breaker.state # HALF_OPEN /\ ~(breaker.failure_count + 1 >= Threshold)
        BY <2>3, <3>1, <3>4
        DEF TellFailure, RecordFailure, BreakerConsistent, CountsConsecutiveFailures,
            Contract!ToldFailure
      <3>5. QED
        BY <3>2, <3>3, <3>4
    <2>4. CASE Tick
      BY <2>4 DEF Tick, Contract!Pass
    <2>5. CASE UNCHANGED <<breaker, clock, streak>>
      BY <2>5
    <2>6. QED
      BY <2>1, <2>2, <2>3, <2>4, <2>5
      DEF Next, Proceed, Done, vars, HandleLocally, StartForward, Admit, Reject, Resolve, Send,
          Respond, Fail, Escape, RecordFailureAndRetry, RecordFailureAndStop, Wake
  <1>3. QED
    BY Invariance, <1>1, <1>2, PTL DEF Spec, ImplementsContract, Contract!Spec

-------------------------------------------------------------------------------
\* A copy of the write of t is on its way, and t waits for it.
Waiting(t) == IF pc[t] = "await" /\ ~served[t] THEN 1 ELSE 0

\* Of the copies of a write in progress each was executed, is still to be executed if
\* ever, or is the one that is waited for; its client has been told nothing.
OpenInv(t) ==
  pc[t] # "idle" =>
    /\ write[t] \in 1 .. arrived
    /\ told[write[t]] = "nothing"
    /\ executions[write[t]] + late[write[t]] + Waiting(t) = sends[t]
    /\ pc[t] = "await" /\ served[t] => executions[write[t]] > 0
    /\ pc[t] = "record_success" => executions[write[t]] > 0

\* No two threads work on one write.
Distinct ==
  \A t, u \in Threads : pc[t] # "idle" /\ pc[u] # "idle" /\ write[t] = write[u] => t = u

\* A write has no more copies than attempts are allowed, and none if it was refused.
WriteInv(w) ==
  /\ w > arrived => executions[w] = 0 /\ late[w] = 0 /\ told[w] = "nothing"
  /\ executions[w] + late[w] <= MaxRetries + 1
  /\ told[w] = "refused" => executions[w] = 0 /\ late[w] = 0

DeliveryInv ==
  /\ DeliveryTypeOK
  /\ \A t \in Threads : OpenInv(t)
  /\ Distinct
  /\ \A w \in Writes : WriteInv(w)

-------------------------------------------------------------------------------
\* What the primary does is no step of the middleware, and everything else is one.
LEMMA DeliveryImplementsForwarding == [DeliveryNext]_deliveryVars => [Next]_vars
  BY DEF DeliveryNext, deliveryVars, Next, Proceed, TakeLocally, Take, SendCopy, Serve, ServeLate,
     AnswerReturns, AnswerIsLost, GoesOn

\* A step of t leaves the other threads and their writes alone.
OwnStep(t) ==
  /\ \A u \in Threads \ {t} :
       pc'[u] = pc[u] /\ write'[u] = write[u] /\ served'[u] = served[u] /\ sends'[u] = sends[u]
  /\ \A w \in Writes \ {write'[t]} :
       executions'[w] = executions[w] /\ late'[w] = late[w] /\ told'[w] = told[w]
  /\ \/ pc[t] # "idle" /\ write'[t] = write[t] /\ arrived' = arrived
     \/ pc[t] = "idle" /\ write'[t] = arrived + 1 /\ arrived' = arrived + 1

LEMMA OwnStepKeeps ==
  ASSUME DeliveryInv, DeliveryTypeOK', NEW t \in Threads, OwnStep(t),
         OpenInv(t)', WriteInv(write[t])'
  PROVE  DeliveryInv'
<1>1. arrived \in Nat /\ arrived' \in Nat /\ arrived <= arrived' /\ arrived' <= MaxRequests
  BY ForwardingAssumption DEF DeliveryInv, DeliveryTypeOK, TypeOK, OwnStep
<1>2. ASSUME NEW u \in Threads \ {t}, pc[u] # "idle"
      PROVE  write[u] \in Writes /\ write[u] # write'[t] /\ write[u] \in 1 .. arrived'
  <2>1. OpenInv(u) /\ write[u] \in 1 .. arrived
    BY <1>2 DEF DeliveryInv, OpenInv
  <2>2. CASE pc[t] # "idle"
    BY <1>1, <1>2, <2>1, <2>2, ForwardingAssumption DEF DeliveryInv, Distinct, OwnStep, Writes
  <2>3. CASE pc[t] = "idle"
    BY <1>1, <2>1, <2>3, ForwardingAssumption DEF OwnStep, Writes
  <2> QED
    BY <2>2, <2>3
<1>3. ASSUME NEW u \in Threads \ {t} PROVE OpenInv(u)'
  <2>1. pc'[u] = pc[u] /\ write'[u] = write[u] /\ served'[u] = served[u] /\ sends'[u] = sends[u]
    BY DEF OwnStep
  <2>2. CASE pc[u] # "idle"
    <3>1. /\ executions'[write[u]] = executions[write[u]] /\ late'[write[u]] = late[write[u]]
          /\ told'[write[u]] = told[write[u]]
      BY <1>2, <2>2 DEF OwnStep
    <3>2. OpenInv(u)
      BY DEF DeliveryInv
    <3> QED
      BY <1>2, <2>1, <2>2, <3>1, <3>2 DEF OpenInv, Waiting
  <2> QED
    BY <2>1, <2>2 DEF OpenInv
<1>4. Distinct'
  BY <1>2 DEF Distinct, DeliveryInv, OwnStep
<1>5. ASSUME NEW w \in Writes, w # write'[t] PROVE WriteInv(w)'
  <2>1. executions'[w] = executions[w] /\ late'[w] = late[w] /\ told'[w] = told[w]
    BY <1>5 DEF OwnStep
  <2>2. WriteInv(w) /\ w \in Nat
    BY ForwardingAssumption DEF DeliveryInv, Writes
  <2>3. w > arrived' => w > arrived
    BY <1>1, <2>2
  <2> QED
    BY <2>1, <2>2, <2>3 DEF WriteInv
<1> QED
  BY <1>3, <1>4, <1>5 DEF DeliveryInv

\* The types of a write in progress.
LEMMA OpenTypes ==
  ASSUME IndInv, DeliveryInv, NEW t \in Threads, pc[t] # "idle"
  PROVE  /\ write[t] \in Writes /\ OpenInv(t) /\ WriteInv(write[t])
         /\ executions[write[t]] \in Nat /\ late[write[t]] \in Nat /\ Waiting(t) \in {0, 1}
         /\ executions[write[t]] + late[write[t]] + Waiting(t) = sends[t]
         /\ arrived \in Nat /\ write[t] \in Nat /\ ~(write[t] > arrived)
         /\ sends[t] \in Nat /\ sends[t] <= MaxRetries + 1
<1>1. OpenInv(t) /\ arrived \in Nat /\ arrived <= MaxRequests
  BY ForwardingAssumption DEF DeliveryInv, IndInv, TypeOK
<1>2. write[t] \in 1 .. arrived /\ write[t] \in Writes /\ write[t] \in Nat
  BY <1>1, ForwardingAssumption DEF OpenInv, Writes
<1>3. sends[t] <= MaxRetries + 1 /\ sends[t] \in Nat
  BY SendsBounded DEF IndInv, TypeOK
<1>4. executions[write[t]] \in Nat /\ late[write[t]] \in Nat /\ WriteInv(write[t])
  BY <1>2 DEF DeliveryInv, DeliveryTypeOK
<1> QED
  BY <1>1, <1>2, <1>3, <1>4 DEF OpenInv, Waiting

\* A step of t that neither sends nor ends its request, and executes nothing.
LEMMA QuietStep ==
  ASSUME IndInv, DeliveryInv, DeliveryTypeOK', NEW t \in Threads, pc[t] # "idle",
         pc'[t] \notin {"idle", "await", "record_success"},
         \A u \in Threads \ {t} : pc'[u] = pc[u],
         late' = [late EXCEPT ![write[t]] = @ + Waiting(t)],
         UNCHANGED <<write, served, executions, told, sends, arrived>>
  PROVE  DeliveryInv'
<1>1. OwnStep(t)
  BY DEF OwnStep, DeliveryInv, DeliveryTypeOK
<1>2. late'[write[t]] = late[write[t]] + Waiting(t)
  BY OpenTypes DEF DeliveryInv, DeliveryTypeOK
<1>3. OpenInv(t)'
  BY OpenTypes, <1>2 DEF OpenInv, Waiting
<1>4. WriteInv(write[t])'
  BY OpenTypes, <1>2, ForwardingAssumption DEF OpenInv, WriteInv
<1> QED
  BY <1>1, <1>3, <1>4, OwnStepKeeps

\* A step of t that ends its request, with an answer that is true.
LEMMA EndingStep ==
  ASSUME IndInv, DeliveryInv, DeliveryTypeOK', NEW t \in Threads, pc[t] # "idle", pc'[t] = "idle",
         \A u \in Threads \ {t} : pc'[u] = pc[u],
         late' = [late EXCEPT ![write[t]] = @ + Waiting(t)], Tell(t),
         ToldOf(reply'[t]) = "refused" => sends[t] = 0,
         ToldOf(reply'[t]) = "success" => executions[write[t]] > 0,
         UNCHANGED <<write, served, executions, sends, arrived>>
  PROVE  DeliveryInv' /\ Promise!Next
<1>1. OwnStep(t)
  BY OpenTypes DEF OwnStep, Tell, DeliveryInv, DeliveryTypeOK
<1>2. late'[write[t]] = late[write[t]] + Waiting(t) /\ told'[write[t]] = ToldOf(reply'[t])
  BY OpenTypes DEF Tell, DeliveryInv, DeliveryTypeOK
<1>3. OpenInv(t)'
  BY DEF OpenInv
<1>4. WriteInv(write[t])'
  BY OpenTypes, <1>2, ForwardingAssumption DEF WriteInv
<1>5. DeliveryInv'
  BY <1>1, <1>3, <1>4, OwnStepKeeps
<1>6. told[write[t]] = "nothing" /\ told' = [told EXCEPT ![write[t]] = ToldOf(reply'[t])]
  BY OpenTypes DEF OpenInv, Tell
<1>7. ToldOf(reply'[t]) \in {"success", "refused", "unknown"}
  BY DEF ToldOf
<1>8. \/ Promise!Succeed(write[t])
      \/ Promise!Refuse(write[t])
      \/ Promise!GiveUp(write[t])
  <2>1. sends[t] = 0 => executions[write[t]] = 0
    BY OpenTypes
  <2> QED
    BY <2>1, <1>6, <1>7 DEF Promise!Succeed, Promise!Refuse, Promise!GiveUp, Promise!Tell
<1> QED
  BY <1>5, <1>8, OpenTypes DEF Promise!Next

-------------------------------------------------------------------------------
\* The next write is known to nobody yet.
LEMMA NextWrite ==
  ASSUME IndInv, DeliveryInv, arrived < MaxRequests
  PROVE  /\ arrived \in Nat /\ arrived + 1 \in Writes /\ told[arrived + 1] = "nothing"
         /\ executions[arrived + 1] = 0 /\ late[arrived + 1] = 0
<1>1. arrived \in Nat /\ arrived + 1 \in Writes /\ arrived + 1 > arrived
  BY ForwardingAssumption DEF IndInv, TypeOK, Writes
<1> QED
  BY <1>1 DEF DeliveryInv, WriteInv

LEMMA TakeLocallyStep ==
  ASSUME IndInv, DeliveryInv, DeliveryTypeOK', NEW t \in Threads, TakeLocally(t)
  PROVE  DeliveryInv' /\ Promise!Next
<1> USE DEF TakeLocally, HandleLocally
<1> DEFINE w == arrived + 1
<1>1. /\ pc[t] = "idle" /\ pc'[t] = "idle" /\ \A u \in Threads \ {t} : pc'[u] = pc[u]
      /\ write'[t] = w /\ \A u \in Threads \ {t} : write'[u] = write[u] /\ sends'[u] = sends[u]
      /\ reply'[t] = "local" /\ arrived' = w
  BY DEF DeliveryInv, DeliveryTypeOK, TypeOK
<1>2. told' = [told EXCEPT ![w] = "success"] /\ executions' = [executions EXCEPT ![w] = @ + 1]
  BY <1>1 DEF Tell, ToldOf
<1>3. OwnStep(t)
  BY <1>1, <1>2 DEF OwnStep, DeliveryInv, DeliveryTypeOK
<1>4. OpenInv(t)'
  BY <1>1 DEF OpenInv
<1>5. executions'[w] = 1 /\ late'[w] = 0 /\ told'[w] = "success"
  BY <1>2, NextWrite DEF DeliveryInv, DeliveryTypeOK
<1>6. WriteInv(write[t])'
  BY <1>1, <1>5, NextWrite, ForwardingAssumption DEF WriteInv
<1>7. DeliveryInv'
  BY <1>3, <1>4, <1>6, OwnStepKeeps
<1>8. Promise!ExecuteHere(w)
  BY <1>2, NextWrite, ForwardingAssumption DEF Promise!ExecuteHere, Promise!Count, Promise!Tell
<1> QED
  BY <1>7, <1>8, NextWrite DEF Promise!Next

LEMMA TakeStep ==
  ASSUME IndInv, DeliveryInv, DeliveryTypeOK', NEW t \in Threads, Take(t)
  PROVE  DeliveryInv' /\ UNCHANGED Promise!contract
<1> USE DEF Take, StartForward
<1> DEFINE w == arrived + 1
<1>1. /\ pc[t] = "idle" /\ pc'[t] = "check" /\ \A u \in Threads \ {t} : pc'[u] = pc[u]
      /\ write'[t] = w /\ \A u \in Threads \ {t} : write'[u] = write[u] /\ sends'[u] = sends[u]
      /\ sends'[t] = 0 /\ arrived' = w
  BY DEF DeliveryInv, DeliveryTypeOK, TypeOK
<1>2. OwnStep(t)
  BY <1>1 DEF OwnStep
<1>3. executions'[w] = 0 /\ late'[w] = 0 /\ told'[w] = "nothing" /\ w \in 1 .. w
  BY NextWrite
<1>4. OpenInv(t)'
  BY <1>1, <1>3 DEF OpenInv, Waiting
<1>5. WriteInv(write[t])'
  BY <1>1, <1>3, ForwardingAssumption DEF WriteInv
<1> QED
  BY <1>2, <1>4, <1>5, OwnStepKeeps DEF Promise!contract

LEMMA SendCopyStep ==
  ASSUME IndInv, DeliveryInv, DeliveryTypeOK', NEW t \in Threads, SendCopy(t)
  PROVE  DeliveryInv' /\ UNCHANGED Promise!contract
<1> USE DEF SendCopy, Send
<1>1. /\ pc[t] = "send" /\ pc'[t] = "await" /\ \A u \in Threads \ {t} : pc'[u] = pc[u]
      /\ \A u \in Threads \ {t} : served'[u] = served[u] /\ sends'[u] = sends[u]
      /\ sends'[t] = sends[t] + 1 /\ ~served'[t]
  BY DEF DeliveryInv, DeliveryTypeOK, TypeOK
<1>2. OwnStep(t)
  BY <1>1 DEF OwnStep
<1>3. executions'[write[t]] + late'[write[t]] = sends[t]
  BY <1>1, OpenTypes DEF Waiting
<1>4. OpenInv(t)'
  BY <1>1, <1>3, OpenTypes DEF OpenInv, Waiting
<1>5. WriteInv(write[t])'
  BY <1>1, OpenTypes DEF WriteInv
<1> QED
  BY <1>2, <1>4, <1>5, OwnStepKeeps DEF Promise!contract

LEMMA ServeStep ==
  ASSUME IndInv, DeliveryInv, DeliveryTypeOK', NEW t \in Threads, Serve(t)
  PROVE  DeliveryInv' /\ Promise!Next
<1> USE DEF Serve
<1>1. /\ pc[t] = "await" /\ ~served[t] /\ served'[t]
      /\ \A u \in Threads \ {t} : served'[u] = served[u]
      /\ UNCHANGED <<pc, sends, arrived, write, late, told>>
  BY DEF DeliveryInv, DeliveryTypeOK, vars
<1>2. /\ executions'[write[t]] = executions[write[t]] + 1
      /\ \A w \in Writes \ {write[t]} : executions'[w] = executions[w]
  BY <1>1, OpenTypes DEF DeliveryInv, DeliveryTypeOK
<1>3. OwnStep(t)
  BY <1>1, <1>2 DEF OwnStep
<1>4. executions[write[t]] + late[write[t]] + 1 = sends[t] /\ told[write[t]] = "nothing"
  BY <1>1, OpenTypes DEF Waiting, OpenInv
<1>5. OpenInv(t)'
  BY <1>1, <1>2, <1>4, OpenTypes DEF OpenInv, Waiting
<1>6. WriteInv(write[t])'
  BY <1>1, <1>2, <1>4, OpenTypes, ForwardingAssumption DEF WriteInv
<1>7. DeliveryInv'
  BY <1>3, <1>5, <1>6, OwnStepKeeps
<1>8. Promise!ExecuteThere(write[t])
  BY <1>1, <1>4, OpenTypes, ForwardingAssumption DEF Promise!ExecuteThere, Promise!Count
<1> QED
  BY <1>1, <1>7, <1>8, OpenTypes DEF Promise!Next

LEMMA ServeLateStep ==
  ASSUME IndInv, DeliveryInv, DeliveryTypeOK', NEW w \in Writes, ServeLate(w)
  PROVE  DeliveryInv' /\ Promise!Next
<1> USE DEF ServeLate
<1>1. UNCHANGED <<pc, sends, arrived, write, served, told>> /\ late[w] > 0
  BY DEF vars
<1>2. /\ late[w] \in Nat /\ executions[w] \in Nat /\ WriteInv(w)
      /\ late'[w] = late[w] - 1 /\ executions'[w] = executions[w] + 1
      /\ \A v \in Writes \ {w} : late'[v] = late[v] /\ executions'[v] = executions[v]
  BY DEF DeliveryInv, DeliveryTypeOK
<1>3. ASSUME NEW t \in Threads PROVE OpenInv(t)'
  <2>1. CASE pc[t] = "idle"
    BY <1>1, <2>1 DEF OpenInv
  <2>2. CASE pc[t] # "idle" /\ write[t] = w
    BY <1>1, <1>2, <2>2, OpenTypes DEF OpenInv, Waiting
  <2>3. CASE pc[t] # "idle" /\ write[t] # w
    <3>1. late'[write[t]] = late[write[t]] /\ executions'[write[t]] = executions[write[t]]
      BY <1>2, <2>3, OpenTypes
    <3> QED
      BY <1>1, <3>1, <2>3, OpenTypes DEF OpenInv, Waiting
  <2> QED
    BY <2>1, <2>2, <2>3
<1>4. ASSUME NEW v \in Writes PROVE WriteInv(v)'
  <2>1. CASE v = w
    BY <1>1, <1>2, <2>1, ForwardingAssumption DEF WriteInv
  <2>2. CASE v # w
    <3>1. WriteInv(v)
      BY DEF DeliveryInv
    <3> QED
      BY <1>1, <1>2, <2>2, <3>1 DEF WriteInv
  <2> QED
    BY <2>1, <2>2
<1>5. Distinct'
  BY <1>1 DEF Distinct, DeliveryInv
<1>6. Promise!ExecuteThere(w)
  BY <1>1, <1>2, ForwardingAssumption DEF WriteInv, Promise!ExecuteThere, Promise!Count
<1> QED
  BY <1>3, <1>4, <1>5, <1>6 DEF DeliveryInv, Promise!Next

LEMMA AnswerReturnsStep ==
  ASSUME IndInv, DeliveryInv, DeliveryTypeOK', NEW t \in Threads, AnswerReturns(t)
  PROVE  DeliveryInv' /\ UNCHANGED Promise!contract
<1> USE DEF AnswerReturns, Respond, delivery
<1>1. /\ pc[t] = "await" /\ served[t] /\ pc'[t] = "record_success"
      /\ \A u \in Threads \ {t} : pc'[u] = pc[u]
  BY DEF DeliveryInv, DeliveryTypeOK, TypeOK
<1>2. OwnStep(t)
  BY <1>1 DEF OwnStep
<1>3. OpenInv(t)'
  BY <1>1, OpenTypes DEF OpenInv, Waiting
<1>4. WriteInv(write[t])'
  BY <1>1, OpenTypes DEF WriteInv
<1> QED
  BY <1>2, <1>3, <1>4, OwnStepKeeps DEF Promise!contract

LEMMA AnswerIsLostStep ==
  ASSUME IndInv, DeliveryInv, DeliveryTypeOK', NEW t \in Threads, AnswerIsLost(t)
  PROVE  DeliveryInv' /\ [Promise!Next]_(Promise!contract)
<1> USE DEF AnswerIsLost
<1>1. pc[t] = "await" /\ \A u \in Threads \ {t} : pc'[u] = pc[u]
  BY DEF Fail, Escape, IndInv, TypeOK
<1>2. late' = [late EXCEPT ![write[t]] = @ + Waiting(t)]
  <2>1. late \in [Writes -> Nat] /\ write[t] \in Writes
    BY <1>1, OpenTypes DEF DeliveryInv, DeliveryTypeOK
  <2>2. CASE served[t]
    <3>1. Waiting(t) = 0 /\ late' = late
      BY <2>2 DEF Waiting
    <3>2. late[write[t]] \in Nat /\ late[write[t]] + 0 = late[write[t]]
      BY <2>1
    <3>3. late = [late EXCEPT ![write[t]] = late[write[t]]]
      BY <2>1
    <3> QED
      BY <3>1, <3>2, <3>3
  <2>3. CASE ~served[t]
    <3>1. Waiting(t) = 1 /\ late' = [late EXCEPT ![write[t]] = @ + 1]
      BY <1>1, <2>3 DEF Waiting
    <3> QED
      BY <3>1
  <2> QED
    BY <2>2, <2>3
<1>3. CASE Fail(t)
  <2>1. pc'[t] = "record_failure" /\ UNCHANGED <<sends, arrived>>
    BY <1>3 DEF Fail, IndInv, TypeOK
  <2>2. UNCHANGED told
    BY <2>1 DEF Tell
  <2> QED
    BY <1>1, <1>2, <2>1, <2>2, QuietStep DEF Promise!contract
<1>4. CASE Escape(t)
  <2>1. pc'[t] = "idle" /\ ToldOf(reply'[t]) = "unknown" /\ UNCHANGED <<sends, arrived>>
    BY <1>4 DEF Escape, ToldOf, IndInv, TypeOK
  <2> QED
    BY <1>1, <1>2, <2>1, EndingStep
<1> QED
  BY <1>3, <1>4

LEMMA GoesOnStep ==
  ASSUME IndInv, DeliveryInv, DeliveryTypeOK', NEW t \in Threads, GoesOn(t)
  PROVE  DeliveryInv' /\ [Promise!Next]_(Promise!contract)
<1> USE DEF GoesOn, Admit, Reject, MaybeHalfOpen, Resolve, Wake, RecordSuccessStep,
            RecordFailureAndRetry, RecordFailureAndStop, TellFailure
<1>1. /\ pc[t] \notin {"idle", "await"} /\ pc'[t] \notin {"await", "record_success"}
      /\ \A u \in Threads \ {t} : pc'[u] = pc[u]
      /\ UNCHANGED <<sends, arrived>>
  BY DEF IndInv, TypeOK
<1>2. late' = [late EXCEPT ![write[t]] = @ + Waiting(t)]
  BY <1>1, OpenTypes DEF Waiting, DeliveryInv, DeliveryTypeOK
<1>3. CASE pc'[t] # "idle"
  <2>1. UNCHANGED told
    BY <1>3 DEF Tell
  <2> QED
    BY <1>1, <1>2, <1>3, <2>1, QuietStep DEF Promise!contract
<1>4. CASE pc'[t] = "idle"
  <2>1. \/ pc[t] \in {"check", "resolve"} /\ reply'[t] \in {"circuit_open", "unknown", "error"}
        \/ pc[t] = "record_success" /\ reply'[t] = "forwarded"
        \/ reply'[t] \in {"gateway_error", "failed"}
    BY <1>4 DEF IndInv, TypeOK
  <2>2. ToldOf(reply'[t]) = "refused" => sends[t] = 0
    BY <2>1 DEF ToldOf, IndInv, LoopInv
  <2>3. ToldOf(reply'[t]) = "success" => executions[write[t]] > 0
    BY <1>1, <2>1, OpenTypes DEF ToldOf, OpenInv
  <2> QED
    BY <1>1, <1>2, <1>4, <2>2, <2>3, EndingStep
<1> QED
  BY <1>3, <1>4

-------------------------------------------------------------------------------
LEMMA DeliveryTypeStep ==
  ASSUME IndInv, DeliveryInv, [DeliveryNext]_deliveryVars
  PROVE  DeliveryTypeOK'
<1>1. TypeOK'
  BY TypeStep, DeliveryImplementsForwarding
<1>2. \A t \in Threads : pc[t] # "idle" => write[t] \in Writes
  BY OpenTypes
<1>3. \A r : ToldOf(r) \in {"success", "refused", "unknown"}
  BY DEF ToldOf
<1>4. /\ write \in [Threads -> 0 .. MaxRequests]
      /\ served \in [Threads -> BOOLEAN]
      /\ late \in [Writes -> Nat]
      /\ executions \in [Writes -> Nat]
      /\ told \in [Writes -> {"nothing", "success", "refused", "unknown"}]
  BY DEF DeliveryInv, DeliveryTypeOK
<1>5. ASSUME NEW t \in Threads, Tell(t)
      PROVE  told' \in [Writes -> {"nothing", "success", "refused", "unknown"}]
  BY <1>3, <1>4, <1>5 DEF Tell
<1> USE <1>1, <1>4 DEF DeliveryTypeOK
<1>6. ASSUME NEW t \in Threads, TakeLocally(t) \/ Take(t) PROVE DeliveryTypeOK'
  <2>1. arrived' \in Writes /\ arrived' \in 0 .. MaxRequests
    BY <1>6, NextWrite, ForwardingAssumption DEF TakeLocally, Take, HandleLocally, StartForward, Writes
  <2> QED
    BY <1>5, <1>6, <2>1 DEF TakeLocally, Take
<1>7. ASSUME NEW t \in Threads, SendCopy(t) \/ Serve(t) PROVE DeliveryTypeOK'
  <2>1. CASE SendCopy(t)
    BY <2>1 DEF SendCopy
  <2>2. CASE Serve(t)
    <3>1. write[t] \in Writes /\ executions[write[t]] + 1 \in Nat
      BY <1>2, <2>2 DEF Serve
    <3> QED
      BY <2>2, <3>1 DEF Serve
  <2> QED
    BY <1>7, <2>1, <2>2
<1>8. ASSUME NEW t \in Threads, AnswerReturns(t) \/ AnswerIsLost(t) \/ GoesOn(t)
      PROVE  DeliveryTypeOK'
  BY <1>5, <1>8 DEF AnswerReturns, AnswerIsLost, GoesOn, delivery
<1>9. ASSUME NEW w \in Writes, ServeLate(w) PROVE DeliveryTypeOK'
  <2>1. late[w] - 1 \in Nat
    BY <1>9 DEF ServeLate
  <2> QED
    BY <1>9, <2>1 DEF ServeLate
<1>10. CASE UNCHANGED delivery
  BY <1>10 DEF delivery
<1> QED
  BY <1>6, <1>7, <1>8, <1>9, <1>10 DEF DeliveryNext, deliveryVars

LEMMA DeliveryStep ==
  ASSUME IndInv, DeliveryInv, [DeliveryNext]_deliveryVars
  PROVE  DeliveryInv' /\ [Promise!Next]_(Promise!contract)
<1>1. DeliveryTypeOK'
  BY DeliveryTypeStep
<1>2. CASE UNCHANGED <<pc, write, served, sends, arrived, executions, late, told>>
  BY <1>1, <1>2 DEF DeliveryInv, OpenInv, Waiting, Distinct, WriteInv, Promise!contract, Writes
<1>3. CASE (Tick \/ Done) /\ UNCHANGED delivery
  BY <1>2, <1>3 DEF Tick, Done, vars, delivery
<1> QED
  BY <1>1, <1>2, <1>3, TakeLocallyStep, TakeStep, SendCopyStep, ServeStep, ServeLateStep,
     AnswerReturnsStep, AnswerIsLostStep, GoesOnStep
  DEF DeliveryNext, deliveryVars, delivery, vars

LEMMA DeliveryStart == DeliveryInit => DeliveryInv /\ Promise!Init
<1> SUFFICES ASSUME DeliveryInit PROVE DeliveryInv /\ Promise!Init
  OBVIOUS
<1>1. TypeOK /\ \A t \in Threads : pc[t] = "idle"
  BY InitIndInv DEF IndInv, Init, DeliveryInit
<1> QED
  BY <1>1, ForwardingAssumption
  DEF DeliveryInit, DeliveryInv, DeliveryTypeOK, OpenInv, Distinct, WriteInv, Writes, Promise!Init

LEMMA DeliveryInvariance == DeliverySpec => [](IndInv /\ DeliveryInv)
<1>1. DeliveryInit => IndInv
  BY InitIndInv DEF DeliveryInit
<1>2. IndInv /\ [DeliveryNext]_deliveryVars => IndInv'
  BY DeliveryImplementsForwarding, TypeStep, BreakerStep, LoopStep DEF IndInv
<1> QED
  BY <1>1, <1>2, DeliveryStart, DeliveryStep, PTL DEF DeliverySpec

\* Type correctness of the copies of the writes and of what the clients were told.
THEOREM DeliveryTypeCorrect == DeliverySpec => []DeliveryTypeOK
  BY DeliveryInvariance, PTL DEF DeliveryInv

\* For any number of threads, requests and retries, and whatever the primary does with a
\* copy and when, forwarding keeps the promise of WriteContract: a success is told of an
\* executed write only, a refused write is not executed, then or later, and no write is
\* executed more often than max_retries + 1 times.
THEOREM PromiseKept == DeliverySpec => KeepsPromise
  BY DeliveryInvariance, DeliveryStart, DeliveryStep, PTL
  DEF DeliverySpec, KeepsPromise, Promise!Spec
===============================================================================
