---------------------------- MODULE WriteForwarding ----------------------------
(***************************************************************************)
(* WriteForwardingMiddleware of litefs_django/middleware.py: the threads   *)
(* of one replica process, each taking a request through __call__,         *)
(* _forward_request and _forward_with_retry, over one circuit breaker.     *)
(*                                                                         *)
(* A step is what the code does between two points where another thread    *)
(* can act: one acquisition of _circuit_lock, or one call that blocks (the *)
(* forwarding port, the sleeper).  The clock runs between any two steps.   *)
(* The time a thread passes to the breaker is the one it read BEFORE it    *)
(* took the lock, in now[t].                                               *)
(***************************************************************************)
EXTENDS CircuitBreaker

CONSTANTS
  Threads,      \* request threads of the process
  MaxRetries,   \* RetryPolicy.max_retries
  PortResults,  \* what the forwarding port may do with an attempt
  Resolutions,  \* what the URL resolver may do with a request
  MaxRequests,  \* bound of the model: requests that arrive
  MaxClock      \* bound of the model: seconds that pass

\* "other" is every status but 502, 503 and 504; "transient" and "permanent"
\* are errors the retry loop catches (ConnectionError, TimeoutError, OSError),
\* as RetryPolicy sorts them; "request_error" is httpx.RequestError, no
\* subclass of those three.
AllPortResults == {"other", "gateway", "transient", "permanent", "request_error"}

\* "unknown" is None; "raises" is the AttributeError of a PrimaryDetector asked
\* for get_primary_url when no static primary_url is set.
AllResolutions == {"url", "unknown", "raises"}

ASSUME ForwardingAssumption ==
  /\ MaxRetries \in Nat
  /\ PortResults \subseteq AllPortResults
  /\ Resolutions \subseteq AllResolutions
  /\ MaxRequests \in Nat
  /\ MaxClock \in Nat

VARIABLES
  breaker,  \* _circuit_breaker
  clock,    \* what TimeProvider.get_time_seconds returns
  pc,       \* pc[t]: the next step of thread t
  now,      \* now[t]: current_time, as t last read it
  attempt,  \* attempt[t]: the local of _forward_with_retry
  result,   \* result[t]: what the port did with the last attempt of t
  reply,    \* reply[t]: how the last request of t was answered
  arrived,  \* requests taken so far
  \* History variables: no action reads them.
  sends,    \* sends[t]: attempts made for the request of t
  recorded, \* recorded[t]: failures of the request of t the breaker was told of
  streak    \* failures the breaker was told of since the last success

locals  == <<now, attempt, result, reply>>
history == <<sends, recorded, streak>>
vars    == <<breaker, clock, pc, locals, arrived, history>>

PCs == {"idle", "check", "half_open", "resolve", "send", "await",
        "record_success", "record_failure", "backoff"}
Replies == {"none", "local", "circuit_open", "unknown", "forwarded",
            "gateway_error", "failed", "error"}

Init ==
  /\ breaker = NewBreaker
  /\ clock = 0
  /\ pc = [t \in Threads |-> "idle"]
  /\ now = [t \in Threads |-> 0]
  /\ attempt = [t \in Threads |-> 0]
  /\ result = [t \in Threads |-> "none"]
  /\ reply = [t \in Threads |-> "none"]
  /\ arrived = 0
  /\ sends = [t \in Threads |-> 0]
  /\ recorded = [t \in Threads |-> 0]
  /\ streak = 0

-------------------------------------------------------------------------------
GoTo(t, from, to) == pc[t] = from /\ pc' = [pc EXCEPT ![t] = to]

\* Thread t ends its request with an answer.
Answer(t, from, r) == GoTo(t, from, "idle") /\ reply' = [reply EXCEPT ![t] = r]

\* Mutant: max_retries is exceeded by one.
BugWillRetryOffByOne(t) ==
  result[t] \in {"gateway", "transient"} /\ attempt[t] <= MaxRetries

\* Mutant: only gateway errors are retried.
BugWillRetryGatewayOnly(t) == result[t] = "gateway" /\ attempt[t] < MaxRetries

\* should_retry, and for an exception is_transient_error as well.
WillRetry(t) == result[t] \in {"gateway", "transient"} /\ attempt[t] < MaxRetries

-------------------------------------------------------------------------------
\* __call__ passes the request to the local application: forwarding is off, the
\* method does not write, the path is excluded, or this node is the primary.
HandleLocally(t) ==
  /\ arrived < MaxRequests
  /\ arrived' = arrived + 1
  /\ Answer(t, "idle", "local")
  /\ sends' = [sends EXCEPT ![t] = 0]
  /\ recorded' = [recorded EXCEPT ![t] = 0]
  /\ UNCHANGED <<breaker, clock, now, attempt, result, streak>>

\* __call__ finds a write on a node that is not primary, or whose detector fails;
\* _forward_request starts by reading the time.
StartForward(t) ==
  /\ arrived < MaxRequests
  /\ arrived' = arrived + 1
  /\ GoTo(t, "idle", "check")
  /\ now' = [now EXCEPT ![t] = clock]
  /\ attempt' = [attempt EXCEPT ![t] = 0]
  /\ result' = [result EXCEPT ![t] = "none"]
  /\ reply' = [reply EXCEPT ![t] = "none"]
  /\ sends' = [sends EXCEPT ![t] = 0]
  /\ recorded' = [recorded EXCEPT ![t] = 0]
  /\ UNCHANGED <<breaker, clock, streak>>

\* _should_allow_request, under the lock: let the request on, or answer 503 with
\* Retry-After.
Admit(t) ==
  /\ ShouldAllowRequest(breaker, now[t])
  /\ GoTo(t, "check", "half_open")
  /\ UNCHANGED <<breaker, clock, locals, arrived, history>>

Reject(t) ==
  /\ ~ShouldAllowRequest(breaker, now[t])
  /\ Answer(t, "check", "circuit_open")
  /\ UNCHANGED <<breaker, clock, now, attempt, result, arrived, history>>

\* Mutant: the second critical section trusts what the first one saw.
BugMaybeHalfOpenUnchecked(t) ==
  /\ GoTo(t, "half_open", "resolve")
  /\ breaker' = IF breaker.state = OPEN THEN TransitionToHalfOpen(breaker) ELSE breaker
  /\ UNCHANGED <<clock, locals, arrived, history>>

\* _maybe_transition_to_half_open: the lock is taken again, and the time is the
\* one read before the first acquisition.
MaybeHalfOpen(t) ==
  /\ GoTo(t, "half_open", "resolve")
  /\ breaker' = IF IsHalfOpen(breaker, now[t]) /\ breaker.state = OPEN
                  THEN TransitionToHalfOpen(breaker) ELSE breaker
  /\ UNCHANGED <<clock, locals, arrived, history>>

\* _resolve_primary_url; neither way out without a URL tells the breaker.
Resolve(t) ==
  \/ /\ "url" \in Resolutions
     /\ GoTo(t, "resolve", "send")
     /\ UNCHANGED <<breaker, clock, locals, arrived, history>>
  \/ /\ "unknown" \in Resolutions
     /\ Answer(t, "resolve", "unknown")
     /\ UNCHANGED <<breaker, clock, now, attempt, result, arrived, history>>
  \/ /\ "raises" \in Resolutions
     /\ Answer(t, "resolve", "error")
     /\ UNCHANGED <<breaker, clock, now, attempt, result, arrived, history>>

\* forward_request is called: the breaker is not asked again before a retry.
Send(t) ==
  /\ GoTo(t, "send", "await")
  /\ sends' = [sends EXCEPT ![t] = @ + 1]
  /\ UNCHANGED <<breaker, clock, locals, arrived, recorded, streak>>

\* The port returns a response that is no gateway error, whatever its status.
Respond(t) ==
  /\ "other" \in PortResults
  /\ GoTo(t, "await", "record_success")
  /\ result' = [result EXCEPT ![t] = "other"]
  /\ UNCHANGED <<breaker, clock, now, attempt, reply, arrived, history>>

\* The attempt fails in a way the loop handles; _record_failure reads the time
\* before it asks for the lock.
Fail(t) ==
  /\ GoTo(t, "await", "record_failure")
  /\ \E r \in PortResults \cap {"gateway", "transient", "permanent"} :
       result' = [result EXCEPT ![t] = r]
  /\ now' = [now EXCEPT ![t] = clock]
  /\ UNCHANGED <<breaker, clock, attempt, reply, arrived, history>>

\* httpx.RequestError passes through the except clause and out of the middleware.
Escape(t) ==
  /\ "request_error" \in PortResults
  /\ Answer(t, "await", "error")
  /\ result' = [result EXCEPT ![t] = "request_error"]
  /\ UNCHANGED <<breaker, clock, now, attempt, arrived, history>>

\* _record_success, and the primary's response is the answer.
RecordSuccessStep(t) ==
  /\ Answer(t, "record_success", "forwarded")
  /\ breaker' = RecordSuccess(breaker)
  /\ streak' = 0
  /\ UNCHANGED <<clock, now, attempt, result, arrived, sends, recorded>>

\* _record_failure, under the lock.
TellFailure(t) ==
  /\ breaker' = RecordFailure(breaker, now[t])
  /\ streak' = streak + 1
  /\ recorded' = [recorded EXCEPT ![t] = @ + 1]
  /\ UNCHANGED <<clock, now, attempt, result, arrived, sends>>

\* Mutant: only the failure that ends the request is recorded.
BugRetryUnrecorded(t) ==
  /\ WillRetry(t)
  /\ GoTo(t, "record_failure", "backoff")
  /\ UNCHANGED <<breaker, clock, locals, arrived, history>>

\* A failure that will be retried is recorded before the sleep ...
RecordFailureAndRetry(t) ==
  /\ WillRetry(t)
  /\ GoTo(t, "record_failure", "backoff")
  /\ TellFailure(t)
  /\ UNCHANGED reply

\* Mutant: a permanent error with retries left is neither retried nor answered.
BugStopOnlyWhenExhausted(t) ==
  /\ attempt[t] >= MaxRetries
  /\ Answer(t, "record_failure", IF result[t] = "gateway" THEN "gateway_error" ELSE "failed")
  /\ TellFailure(t)

\* ... or give up: a gateway error is passed on, an exception becomes a 503.
RecordFailureAndStop(t) ==
  /\ ~WillRetry(t)
  /\ Answer(t, "record_failure", IF result[t] = "gateway" THEN "gateway_error" ELSE "failed")
  /\ TellFailure(t)

\* Mutant: the breaker is asked again before a retry.
BugWakeAsksAgain(t) ==
  /\ GoTo(t, "backoff", "check")
  /\ attempt' = [attempt EXCEPT ![t] = @ + 1]
  /\ UNCHANGED <<breaker, clock, now, result, reply, arrived, history>>

\* The sleeper returns and the loop goes round.
Wake(t) ==
  /\ GoTo(t, "backoff", "send")
  /\ attempt' = [attempt EXCEPT ![t] = @ + 1]
  /\ UNCHANGED <<breaker, clock, now, result, reply, arrived, history>>

Tick ==
  /\ clock < MaxClock
  /\ clock' = clock + 1
  /\ UNCHANGED <<breaker, pc, locals, arrived, history>>

\* The model's bounds are used up and no request is open: nothing is left to do.
Done ==
  /\ clock = MaxClock /\ arrived = MaxRequests
  /\ \A t \in Threads : pc[t] = "idle"
  /\ UNCHANGED vars

-------------------------------------------------------------------------------
\* The steps of a request once it was taken.
Proceed(t) ==
  \/ Admit(t) \/ Reject(t) \/ MaybeHalfOpen(t) \/ Resolve(t) \/ Send(t)
  \/ Respond(t) \/ Fail(t) \/ Escape(t)
  \/ RecordSuccessStep(t) \/ RecordFailureAndRetry(t) \/ RecordFailureAndStop(t)
  \/ Wake(t)

Next ==
  \/ \E t \in Threads : HandleLocally(t) \/ StartForward(t) \/ Proceed(t)
  \/ Tick
  \/ Done

\* A thread that has a request goes on: the locks are held for a moment only,
\* every port call has a timeout, every sleep ends.  Nothing makes requests come.
Spec == Init /\ [][Next]_vars /\ \A t \in Threads : WF_vars(Proceed(t))

-------------------------------------------------------------------------------
\* Every variable of the middleware keeps its type.
TypeOK ==
  /\ breaker \in Breakers
  /\ clock \in 0 .. MaxClock
  /\ pc \in [Threads -> PCs]
  /\ now \in [Threads -> 0 .. MaxClock]
  /\ attempt \in [Threads -> 0 .. MaxRetries]
  /\ result \in [Threads -> AllPortResults \cup {"none"}]
  /\ reply \in [Threads -> Replies]
  /\ arrived \in 0 .. MaxRequests
  /\ sends \in [Threads -> Nat]
  /\ recorded \in [Threads -> Nat]
  /\ streak \in Nat

\* The fields of the shared breaker fit together after every interleaving of the
\* locked sections: opened_at is set exactly while the circuit is not closed, it
\* is never in the future (a future one would keep the circuit open for longer
\* than reset_timeout), and a closed circuit is below its threshold.
BreakerConsistent ==
  /\ breaker.state = CLOSED <=> breaker.opened_at = NotOpened
  /\ breaker.opened_at <= clock
  /\ breaker.state = CLOSED => breaker.failure_count < Threshold

\* "Consecutive failures" means consecutive over all threads: while the circuit
\* is closed its count is the number of failures told since the last success of
\* anybody, so no update of one thread is lost to another.
CountsConsecutiveFailures ==
  breaker.state = CLOSED => breaker.failure_count = streak

\* What an answer says is what happened.  A circuit-open or unknown-primary
\* answer means that nothing was sent, so the client may repeat the write safely;
\* a 503 or a passed-on gateway error means that the retry policy is used up (or,
\* for the 503, that the last error was not transient); nothing is given up early
\* and nothing is tried more than max_retries times again.
AnswersAreTrue ==
  \A t \in Threads : pc[t] = "idle" =>
    /\ reply[t] \in {"local", "circuit_open", "unknown"} => sends[t] = 0
    /\ reply[t] = "forwarded" => result[t] = "other" /\ sends[t] \in 1 .. MaxRetries + 1
    /\ reply[t] = "gateway_error" => sends[t] = MaxRetries + 1
    /\ reply[t] = "failed" => result[t] = "permanent" \/ sends[t] = MaxRetries + 1

\* The breaker hears of every attempt: when a request was answered by the loop,
\* each of its failed attempts was recorded, once.
FailuresAllRecorded ==
  \A t \in Threads : pc[t] = "idle" =>
    /\ reply[t] = "forwarded" => recorded[t] = sends[t] - 1
    /\ reply[t] \in {"gateway_error", "failed"} => recorded[t] = sends[t]

\* The middleware's breaker implements the documented state machine, though the
\* check, the move to HALF_OPEN and the recording are separate critical sections
\* that use a time read before the lock was taken.
Contract == INSTANCE BreakerContract WITH
  phase <- breaker.state, opened <- breaker.opened_at, time <- clock

ImplementsContract == Contract!Spec

\* A request that was taken is answered, whatever the primary does.
EveryRequestAnswered ==
  \A t \in Threads : pc[t] # "idle" ~> pc[t] = "idle"

===============================================================================
