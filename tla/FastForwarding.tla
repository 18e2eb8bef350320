---------------------------- MODULE FastForwarding ----------------------------
(***************************************************************************)
(* The ASGI middlewares of litefs_fastapi/middleware.py on nodes that      *)
(* forward writes to each other.  A node is one event loop: it runs a      *)
(* request until the request awaits, and it stands still while the         *)
(* forwarding adapter, which is synchronous, waits for an answer.  A write *)
(* that is forwarded arrives at the next node as a request of its own,     *)
(* which goes on if the node that sent it has given up.  Reads, excluded   *)
(* paths and requests that are not HTTP go straight to the application     *)
(* and are left out, as are headers.                                       *)
(***************************************************************************)
EXTENDS Naturals, FiniteSets

CONSTANTS
  Nodes,      \* the nodes of the cluster
  Clients,    \* clients, each of which sends one write
  Clusters,   \* the configurations: the node that each node names, and the nodes that
              \* have a CachedPrimaryDetector instead of a PrimaryDetector
  Chunks,     \* the parts a body arrives in
  MaxHops,    \* bound: a write that has been forwarded so often is refused
  TTL,        \* ttl_seconds of the cache
  MaxTime     \* bound of the clock

ASSUME FastAssumption ==
  /\ Clusters \subseteq [primary_url : [Nodes -> Nodes], cached : SUBSET Nodes]
  /\ Chunks \in Nat \ {0} /\ MaxHops \in Nat /\ TTL \in Nat \ {0} /\ MaxTime \in Nat

VARIABLES
  primary_url, \* primary_url[n]: the node that n forwards to
  cached,    \* the nodes with a CachedPrimaryDetector
  cache,     \* cache[n]: _cached_value and _cache_time
  now,       \* time.monotonic()
  loop,      \* loop[n]: the request for which the loop of n stands still, or Free
  pc,        \* pc[t]: the next step of request t
  at,        \* at[t]: the node that t is sent to
  body,      \* body[t]: how many parts of the body are read, or were sent
  answer,    \* answer[t]: what t was answered
  gone,      \* clients that have disconnected
  executed,  \* history: executed[c]: the requests that the application has executed
  asked      \* history: asked[n]: what the detector behind the cache of n last found, and when

netVars == <<primary_url, cached, cache, now, asked>>
vars == <<netVars, loop, pc, at, body, answer, gone, executed>>

\* A request is a client's write after so many hops.
Hops == 0 .. MaxHops
Tasks == Clients \X Hops
Client(t) == t[1]
Hop(t) == t[2]
Forwarded(t) == <<t[1], t[2] + 1>>

Free == <<>>
Nowhere == "nowhere"
PCs == {"none", "arrived", "local", "read", "sent", "answered"}
AnswerKinds == {"none", "done", "split_brain", "unavailable"}

\* What an answer tells a client of its write.
ToldOf == [none |-> "nothing", done |-> "success", split_brain |-> "refused", unavailable |-> "unknown"]

NoCache == [value |-> FALSE, time |-> MaxTime + 1]

Init ==
  /\ \E s \in Clusters : primary_url = s.primary_url /\ cached = s.cached
  /\ cache = [n \in Nodes |-> NoCache]
  /\ now = 0
  /\ loop = [n \in Nodes |-> Free]
  /\ pc = [t \in Tasks |-> "none"]
  /\ at = [t \in Tasks |-> Nowhere]
  /\ body = [t \in Tasks |-> 0]
  /\ answer = [t \in Tasks |-> "none"]
  /\ gone = {}
  /\ executed = [c \in Clients |-> {}]
  /\ asked = cache

GoTo(t, from, to) == pc[t] = from /\ pc' = [pc EXCEPT ![t] = to]

\* The loop of the node of t gets to run t.
Runs(t) == loop[at[t]] = Free

Answer(t, kind) == answer' = [answer EXCEPT ![t] = kind]

-------------------------------------------------------------------------------
Arrive(c, n) ==
  /\ GoTo(<<c, 0>>, "none", "arrived")
  /\ at' = [at EXCEPT ![<<c, 0>>] = n]
  /\ UNCHANGED <<netVars, loop, body, answer, gone, executed>>

\* The cache holds a value that is young enough.
Fresh(n) == n \in cached /\ cache[n] # NoCache /\ now < cache[n].time + TTL

\* Mutant: an entry keeps the time at which it expires.
BugEntry(v) == [value |-> v, time |-> now + TTL]

Entry(v) == [value |-> v, time |-> now]

\* is_primary of the detector behind the cache, and of the plain one: the marker may
\* come and go at any time, so any answer may be the next.
AskDetector(n, v) ==
  IF n \notin cached THEN UNCHANGED <<cache, asked>>
  ELSE /\ cache' = [cache EXCEPT ![n] = Entry(v)]
       /\ asked' = [asked EXCEPT ![n] = Entry(v)]

\* Mutant: every use of the value makes it young again.
BugUseCached(n, v) ==
  /\ v = cache[n].value
  /\ cache' = [cache EXCEPT ![n] = Entry(v)]
  /\ UNCHANGED asked

UseCached(n, v) ==
  /\ v = cache[n].value
  /\ UNCHANGED <<cache, asked>>

\* CachedPrimaryDetector.is_primary on node n; time is read before the detector is
\* asked, and in one event loop nothing comes in between.
IsPrimary(n, v) == IF Fresh(n) THEN UseCached(n, v) ELSE AskDetector(n, v)

\* SplitBrainMiddleware.__call__ answers 503 to an alarm; without a detector, without
\* an alarm and if the detection raises the request goes on.
SplitBrainDetected(t) ==
  /\ GoTo(t, "arrived", "answered")
  /\ Runs(t)
  /\ Answer(t, "split_brain")
  /\ UNCHANGED <<netVars, loop, at, body, gone, executed>>

\* WriteForwardingMiddleware.__call__: a primary handles the write, ...
HandleLocally(t) ==
  /\ GoTo(t, "arrived", "local")
  /\ Runs(t)
  /\ IsPrimary(at[t], TRUE)
  /\ UNCHANGED <<primary_url, cached, now, loop, at, body, answer, gone, executed>>

\* ... and so does a node on which the detector raises, ...
DetectorRaises(t) ==
  /\ GoTo(t, "arrived", "local")
  /\ Runs(t)
  /\ ~Fresh(at[t])
  /\ UNCHANGED <<netVars, loop, at, body, answer, gone, executed>>

\* ... and a replica reads the body, to forward it.
StartForward(t) ==
  /\ GoTo(t, "arrived", "read")
  /\ Runs(t)
  /\ IsPrimary(at[t], FALSE)
  /\ UNCHANGED <<primary_url, cached, now, loop, at, body, answer, gone, executed>>

\* The application executes the write.
Execute(t) ==
  /\ GoTo(t, "local", "answered")
  /\ Runs(t)
  /\ Answer(t, "done")
  /\ executed' = [executed EXCEPT ![Client(t)] = @ \cup {t}]
  /\ UNCHANGED <<netVars, loop, at, body, gone>>

-------------------------------------------------------------------------------
\* What a request that is forwarded brings along: the parts that were read.
Sent(t) == IF Hop(t) = 0 THEN Chunks ELSE body[<<Client(t), Hop(t) - 1>>]

\* The side that sends t has closed the connection.
Disconnected(t) ==
  IF Hop(t) = 0 THEN Client(t) \in gone ELSE pc[<<Client(t), Hop(t) - 1>>] = "answered"

\* _read_body waits for the next part ...
ReadPart(t) ==
  /\ pc[t] = "read" /\ Runs(t)
  /\ body[t] + 1 < Sent(t)
  /\ body' = [body EXCEPT ![t] = @ + 1]
  /\ UNCHANGED <<netVars, loop, pc, at, answer, gone, executed>>

\* forward_request: the loop stands still until the call returns.  The node is not
\* asked again whether it is the primary by now.
Send(t, parts) ==
  /\ pc[t] = "read" /\ Runs(t) /\ Hop(t) < MaxHops
  /\ pc' = [pc EXCEPT ![t] = "sent", ![Forwarded(t)] = "arrived"]
  /\ at' = [at EXCEPT ![Forwarded(t)] = primary_url[at[t]]]
  /\ loop' = [loop EXCEPT ![at[t]] = t]
  /\ body' = [body EXCEPT ![t] = parts]
  /\ UNCHANGED <<netVars, answer, gone, executed>>

\* ... and the last part ends it,
ReadLast(t) == pc[t] = "read" /\ body[t] + 1 >= Sent(t) /\ Send(t, Sent(t))

\* and so does the message that the client has disconnected, which has no body and
\* no more_body: what was read until then is forwarded.
ReadDisconnect(t) == pc[t] = "read" /\ Disconnected(t) /\ Send(t, body[t])

\* The primary cannot be reached.
SendFails(t) ==
  /\ GoTo(t, "read", "answered")
  /\ Runs(t)
  /\ body[t] + 1 >= Sent(t) \/ Disconnected(t)
  /\ Answer(t, "unavailable")
  /\ UNCHANGED <<netVars, loop, at, body, gone, executed>>

\* Mutant: the status of the primary's answer is not passed on.
BugRespond(t) ==
  /\ Hop(t) < MaxHops /\ answer[Forwarded(t)] # "none"
  /\ GoTo(t, "sent", "answered")
  /\ Answer(t, "done")
  /\ loop' = [loop EXCEPT ![at[t]] = Free]
  /\ UNCHANGED <<netVars, at, body, gone, executed>>

\* The answer of the primary is passed on, whatever it is.
Respond(t) ==
  /\ Hop(t) < MaxHops /\ answer[Forwarded(t)] # "none"
  /\ GoTo(t, "sent", "answered")
  /\ Answer(t, answer[Forwarded(t)])
  /\ loop' = [loop EXCEPT ![at[t]] = Free]
  /\ UNCHANGED <<netVars, at, body, gone, executed>>

\* Mutant: a node does not time out on a call to itself.
BugTimeout(t) ==
  /\ Hop(t) < MaxHops /\ answer[Forwarded(t)] = "none"
  /\ GoTo(t, "sent", "answered")
  /\ primary_url[at[t]] # at[t]
  /\ Answer(t, "unavailable")
  /\ loop' = [loop EXCEPT ![at[t]] = Free]
  /\ UNCHANGED <<netVars, at, body, gone, executed>>

\* Mutant: after a timeout the node handles the write itself.
BugTimeoutRetries(t) ==
  /\ Hop(t) < MaxHops /\ answer[Forwarded(t)] = "none"
  /\ GoTo(t, "sent", "local")
  /\ loop' = [loop EXCEPT ![at[t]] = Free]
  /\ UNCHANGED <<netVars, at, body, answer, gone, executed>>

\* Any exception of the call is answered with 503; the request at the other node
\* goes on.
Timeout(t) ==
  /\ Hop(t) < MaxHops /\ answer[Forwarded(t)] = "none"
  /\ GoTo(t, "sent", "answered")
  /\ Answer(t, "unavailable")
  /\ loop' = [loop EXCEPT ![at[t]] = Free]
  /\ UNCHANGED <<netVars, at, body, gone, executed>>

-------------------------------------------------------------------------------
\* Once its body is read nothing here looks at the client any more.
Disconnect(c) ==
  /\ pc[<<c, 0>>] \in {"arrived", "read"}
  /\ gone' = gone \cup {c}
  /\ c \notin gone
  /\ UNCHANGED <<netVars, loop, pc, at, body, answer, executed>>

\* Time is looked at by the cache only.
Tick ==
  /\ cached # {} /\ now < MaxTime
  /\ now' = now + 1
  /\ UNCHANGED <<primary_url, cached, cache, asked, loop, pc, at, body, answer, gone, executed>>

-------------------------------------------------------------------------------
Continue(t) ==
  \/ SplitBrainDetected(t) \/ HandleLocally(t) \/ DetectorRaises(t) \/ StartForward(t)
  \/ Execute(t) \/ ReadPart(t) \/ ReadLast(t) \/ ReadDisconnect(t) \/ SendFails(t)
  \/ Respond(t) \/ Timeout(t)

Next ==
  \/ \E c \in Clients : Disconnect(c) \/ \E n \in Nodes : Arrive(c, n)
  \/ \E t \in Tasks : Continue(t)
  \/ Tick

\* A loop that is free runs what is ready, clients send their bodies, and a call
\* that is not answered times out (httpx_forwarding.py:42-47).
Fairness == \A t \in Tasks : WF_vars(Continue(t))

Spec == Init /\ [][Next]_vars /\ Fairness

-------------------------------------------------------------------------------
\* Every variable keeps its type.
TypeOK ==
  /\ primary_url \in [Nodes -> Nodes]
  /\ cached \subseteq Nodes
  /\ cache \in [Nodes -> [value : BOOLEAN, time : 0 .. MaxTime + 1]]
  /\ now \in 0 .. MaxTime
  /\ loop \in [Nodes -> Tasks \cup {Free}]
  /\ pc \in [Tasks -> PCs]
  /\ at \in [Tasks -> Nodes \cup {Nowhere}]
  /\ body \in [Tasks -> 0 .. Chunks]
  /\ answer \in [Tasks -> AnswerKinds]
  /\ gone \subseteq Clients
  /\ executed \in [Clients -> SUBSET Tasks]
  /\ asked \in [Nodes -> [value : BOOLEAN, time : 0 .. MaxTime + 1]]

\* A client's write is executed at most once, on whatever node, however often it is
\* forwarded and whoever gives up waiting for it.
ExecutedAtMostOnce == \A c \in Clients : \A t, u \in executed[c] : t = u

\* What a request is answered is so: a success was executed, and a write that was
\* refused for a split brain, here or further on, never is.
AnswersAreTrue ==
  \A t \in Tasks :
    /\ answer[t] = "done" => \E u \in executed[Client(t)] : Hop(u) >= Hop(t)
    /\ answer[t] = "split_brain" => executed[Client(t)] = {}

\* What the client of a write is told, and what becomes of the write on the nodes it is
\* forwarded to and between, is what WriteContract promises, with a single execution.
Promise == INSTANCE WriteContract WITH
  Writes <- Clients, MaxExecutions <- 1,
  executions <- [c \in Clients |-> Cardinality(executed[c])],
  told <- [c \in Clients |-> ToldOf[answer[<<c, 0>>]]]

KeepsPromise == Promise!Spec

\* A value that a cache would answer with is what the detector behind it found less
\* than the time to live ago; one event loop in each process, so that no two requests
\* use a cache at once.
CachedAnswerIsYoung ==
  \A n \in Nodes : Fresh(n) => cache[n].value = asked[n].value /\ now < asked[n].time + TTL

\* Every request is answered, at every node it gets to: a loop that stands still goes
\* on, though two nodes may wait for each other and a node for itself.
EveryRequestAnswered == \A t \in Tasks : pc[t] # "none" ~> pc[t] = "answered"

-------------------------------------------------------------------------------
\* What the repository says and the code does not do.

\* middleware.py:291-298: _read_body reads "the full request body": what a node
\* executes of a forwarded write is the body that the client sent.
WholeBodiesExecuted == \A c \in Clients : \A t \in executed[c] : Sent(t) = Chunks
===============================================================================
