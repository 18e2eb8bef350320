------------------------- MODULE FastForwarding_proofs -------------------------
(***************************************************************************)
(* Proofs about FastForwarding.tla, for every cluster, number of clients   *)
(* and bound.  The requests of one client form a chain: a hop is reached   *)
(* only from a hop that has sent the write on, which can then neither      *)
(* execute it nor send it again.                                           *)
(***************************************************************************)
EXTENDS FastForwarding, FiniteSetTheorems, TLAPS

\* A hop that was reached has behind it only hops that have sent the write on.
Chain ==
  \A c \in Clients : \A i, j \in Hops :
    i < j /\ pc[<<c, j>>] # "none" => pc[<<c, i>>] \in {"sent", "answered"}

\* What was executed is over, and was not sent on.
ExecutedIsLast ==
  \A c \in Clients : \A t \in executed[c] :
    /\ Client(t) = c /\ pc[t] = "answered"
    /\ \A h \in Hops : h > Hop(t) => pc[<<c, h>>] = "none"

\* A request with an answer is over.
AnsweredIsOver == \A t \in Tasks : answer[t] # "none" => pc[t] = "answered"

\* A success was executed here or further on.
DoneWasExecuted ==
  \A t \in Tasks : answer[t] = "done" => \E u \in executed[Client(t)] : Hop(u) >= Hop(t)

\* A write that was refused is executed nowhere, and no hop can execute it any more.
RefusedIsOver ==
  \A t \in Tasks : answer[t] = "split_brain" =>
    /\ executed[Client(t)] = {}
    /\ \A h \in Hops : pc[<<Client(t), h>>] \in {"none", "sent", "answered"}

ChainInv == Chain /\ ExecutedIsLast /\ AnsweredIsOver /\ DoneWasExecuted /\ RefusedIsOver

-------------------------------------------------------------------------------
\* The parts of a request.
LEMMA TaskParts ==
  ASSUME NEW t \in Tasks
  PROVE  /\ Client(t) \in Clients /\ Hop(t) \in 0 .. MaxHops /\ t = <<Client(t), Hop(t)>>
         /\ Hop(t) < MaxHops => Forwarded(t) \in Tasks
  BY FastAssumption, SMT DEF Tasks, Hops, Client, Hop, Forwarded

\* A request that has arrived is somewhere.
Placed == \A t \in Tasks : pc[t] # "none" => at[t] \in Nodes

TypeInv == TypeOK /\ Placed

\* Asking whether the node is the primary keeps the types of the two entries.
LEMMA IsPrimaryTypes ==
  ASSUME TypeOK, NEW n, NEW v \in BOOLEAN, IsPrimary(n, v)
  PROVE  /\ cache' \in [Nodes -> [value : BOOLEAN, time : 0 .. MaxTime + 1]]
         /\ asked' \in [Nodes -> [value : BOOLEAN, time : 0 .. MaxTime + 1]]
<1>1. Entry(v) \in [value : BOOLEAN, time : 0 .. MaxTime + 1]
  BY FastAssumption DEF TypeOK, Entry
<1> QED
  BY <1>1 DEF TypeOK, IsPrimary, UseCached, AskDetector

\* A request brings no more parts along than a body has.
LEMMA SentBounded ==
  ASSUME TypeOK, NEW t \in Tasks
  PROVE  Sent(t) \in 0 .. Chunks
<1>1. CASE Hop(t) = 0
  BY <1>1, FastAssumption DEF Sent
<1>2. CASE Hop(t) # 0
  <2>1. <<Client(t), Hop(t) - 1>> \in Tasks
    BY <1>2, TaskParts, FastAssumption DEF Tasks, Hops
  <2> QED
    BY <1>2, <2>1 DEF Sent, TypeOK
<1> QED
  BY <1>1, <1>2

LEMMA TypeInit == Init => TypeInv
<1> SUFFICES ASSUME Init PROVE TypeInv
  OBVIOUS
<1>1. NoCache \in [value : BOOLEAN, time : 0 .. MaxTime + 1]
  BY FastAssumption DEF NoCache
<1>2. PICK s \in Clusters : primary_url = s.primary_url /\ cached = s.cached
  BY DEF Init
<1>3. primary_url \in [Nodes -> Nodes] /\ cached \subseteq Nodes
  BY <1>2, FastAssumption
<1> QED
  BY <1>1, <1>3, FastAssumption DEF Init, TypeInv, TypeOK, Placed, PCs, AnswerKinds

\* A request that is sent on keeps the types, whatever parts it takes along.
LEMMA SendTypes ==
  ASSUME TypeInv, NEW t \in Tasks, NEW parts \in 0 .. Chunks, Send(t, parts)
  PROVE  TypeInv'
<1>1. Forwarded(t) \in Tasks /\ at[t] \in Nodes /\ primary_url[at[t]] \in Nodes
  BY TaskParts DEF Send, TypeInv, TypeOK, Placed
<1> QED
  BY <1>1 DEF Send, TypeInv, TypeOK, Placed, PCs, netVars

LEMMA ContinueTypes ==
  ASSUME TypeInv, NEW t \in Tasks, Continue(t)
  PROVE  TypeInv'
<1> USE DEF TypeInv, Placed, PCs, AnswerKinds, GoTo, Answer, netVars
<1>1. CASE SplitBrainDetected(t) \/ DetectorRaises(t) \/ SendFails(t)
  BY <1>1 DEF TypeOK, SplitBrainDetected, DetectorRaises, SendFails
<1>2. CASE HandleLocally(t) \/ StartForward(t)
  <2>1. /\ cache' \in [Nodes -> [value : BOOLEAN, time : 0 .. MaxTime + 1]]
        /\ asked' \in [Nodes -> [value : BOOLEAN, time : 0 .. MaxTime + 1]]
    BY <1>2, IsPrimaryTypes DEF HandleLocally, StartForward
  <2> QED
    BY <1>2, <2>1 DEF TypeOK, HandleLocally, StartForward
<1>3. CASE Execute(t)
  BY <1>3 DEF TypeOK, Execute
<1>4. CASE ReadPart(t)
  <2>1. body[t] + 1 \in 0 .. Chunks
    BY <1>4, SentBounded, FastAssumption DEF TypeOK, ReadPart
  <2> QED
    BY <1>4, <2>1 DEF TypeOK, ReadPart
<1>5. CASE ReadLast(t)
  BY <1>5, SentBounded, SendTypes DEF ReadLast
<1>6. CASE ReadDisconnect(t)
  BY <1>6, SendTypes DEF TypeOK, ReadDisconnect
<1>7. CASE Respond(t)
  <2>1. answer[Forwarded(t)] \in AnswerKinds
    BY <1>7, TaskParts DEF TypeOK, Respond
  <2> QED
    BY <1>7, <2>1 DEF TypeOK, Respond
<1>8. CASE Timeout(t)
  BY <1>8 DEF TypeOK, Timeout
<1> QED
  BY <1>1, <1>2, <1>3, <1>4, <1>5, <1>6, <1>7, <1>8 DEF Continue

LEMMA TypeStep == TypeInv /\ [Next]_vars => TypeInv'
<1> SUFFICES ASSUME TypeInv, [Next]_vars PROVE TypeInv'
  OBVIOUS
<1>1. ASSUME NEW c \in Clients, Disconnect(c) PROVE TypeInv'
  BY <1>1 DEF TypeInv, TypeOK, Placed, Disconnect, netVars
<1>2. ASSUME NEW c \in Clients, NEW n \in Nodes, Arrive(c, n) PROVE TypeInv'
  BY <1>2 DEF TypeInv, TypeOK, Placed, PCs, Arrive, GoTo, netVars
<1>3. ASSUME NEW t \in Tasks, Continue(t) PROVE TypeInv'
  BY <1>3, ContinueTypes
<1>4. CASE Tick
  BY <1>4, FastAssumption DEF TypeInv, TypeOK, Placed, Tick
<1>5. CASE UNCHANGED vars
  BY <1>5 DEF TypeInv, TypeOK, Placed, vars, netVars
<1> QED
  BY <1>1, <1>2, <1>3, <1>4, <1>5 DEF Next

LEMMA TypeInvariance == Spec => []TypeInv
<1> QED
  BY TypeInit, TypeStep, PTL DEF Spec

\* Every variable keeps its type, in a cluster of any size and shape.
THEOREM TypeCorrect == Spec => []TypeOK
<1>1. TypeInv => TypeOK
  BY DEF TypeInv
<1> QED
  BY <1>1, TypeInvariance, PTL

-------------------------------------------------------------------------------
\* Steps that leave the chain of requests alone.
LEMMA Aside ==
  ASSUME ChainInv, UNCHANGED <<pc, answer, executed>>
  PROVE  ChainInv'
BY DEF ChainInv, Chain, ExecutedIsLast, AnsweredIsOver, DoneWasExecuted, RefusedIsOver

\* While a request is being worked on it is the last of its client's, those before it
\* wait for it or have given up, and nothing is decided yet.
LEMMA Frontier ==
  ASSUME TypeOK, ChainInv, NEW t \in Tasks, pc[t] \in {"arrived", "local", "read"}
  PROVE  /\ \A h \in Hops : h > Hop(t) => pc[<<Client(t), h>>] = "none"
         /\ \A h \in Hops : h < Hop(t) => pc[<<Client(t), h>>] \in {"sent", "answered"}
         /\ executed[Client(t)] = {}
         /\ \A u \in Tasks : Client(u) = Client(t) => answer[u] \notin {"done", "split_brain"}
<1> USE TaskParts DEF ChainInv
<1>1. /\ \A h \in Hops : h > Hop(t) => pc[<<Client(t), h>>] = "none"
      /\ \A h \in Hops : h < Hop(t) => pc[<<Client(t), h>>] \in {"sent", "answered"}
  BY DEF Chain, Hops
<1>2. ASSUME NEW u \in executed[Client(t)] PROVE FALSE
  <2>1. u \in Tasks /\ Client(u) = Client(t) /\ pc[u] = "answered"
    BY DEF TypeOK, ExecutedIsLast
  <2>2. \A h \in Hops : h > Hop(u) => pc[<<Client(t), h>>] = "none"
    BY DEF ExecutedIsLast
  <2>3. Hop(u) # Hop(t) /\ ~(Hop(u) > Hop(t)) /\ ~(Hop(u) < Hop(t))
    BY <1>1, <2>1, <2>2 DEF Hops
  <2> QED
    BY <2>1, <2>3, FastAssumption
<1>3. ASSUME NEW u \in Tasks, Client(u) = Client(t)
      PROVE  answer[u] \notin {"done", "split_brain"}
  <2>1. answer[u] # "done"
    BY <1>2, <1>3 DEF DoneWasExecuted
  <2>2. answer[u] # "split_brain"
    BY <1>3 DEF RefusedIsOver, Hops
  <2> QED
    BY <2>1, <2>2
<1> QED
  BY <1>1, <1>2, <1>3

\* A request that starts to be handled or to be read.
LEMMA Begins ==
  ASSUME TypeOK, ChainInv, NEW t \in Tasks, NEW to \in {"local", "read"},
         GoTo(t, "arrived", to), UNCHANGED <<answer, executed>>
  PROVE  ChainInv'
<1>1. pc[t] = "arrived" /\ \A u \in Tasks : pc'[u] = IF u = t THEN to ELSE pc[u]
  BY DEF TypeOK, GoTo
<1>2. \A c \in Clients, h \in Hops : <<c, h>> \in Tasks
  BY DEF Tasks
<1>3. Chain'
  BY <1>1, <1>2 DEF ChainInv, Chain
<1>4. AnsweredIsOver'
  BY <1>1 DEF ChainInv, AnsweredIsOver
<1>5. ExecutedIsLast'
  <2>1. \A c \in Clients : \A u \in executed[c] : u \in Tasks
    BY DEF TypeOK
  <2> QED
    BY <1>1, <1>2, <2>1 DEF ChainInv, ExecutedIsLast
<1>6. DoneWasExecuted'
  BY DEF ChainInv, DoneWasExecuted
<1>7. ASSUME NEW u \in Tasks, answer[u] = "split_brain" PROVE Client(u) # Client(t)
  BY <1>1, <1>7, Frontier
<1>8. RefusedIsOver'
  BY <1>1, <1>2, <1>7, TaskParts DEF ChainInv, RefusedIsOver, Hops
<1> QED
  BY <1>3, <1>4, <1>5, <1>6, <1>8 DEF ChainInv

\* A request that is answered without having been executed by the step: an answer of
\* done or split_brain is the next hop's, or the refusal of a request just arrived.
LEMMA IsAnswered ==
  ASSUME TypeOK, ChainInv, NEW t \in Tasks, NEW kind \in AnswerKinds,
         pc[t] \in {"arrived", "read", "sent"},
         GoTo(t, pc[t], "answered"), Answer(t, kind), UNCHANGED executed,
         \/ kind = "unavailable"
         \/ kind = "split_brain" /\ pc[t] = "arrived"
         \/ Hop(t) < MaxHops /\ pc[t] = "sent" /\ kind = answer[Forwarded(t)]
  PROVE  ChainInv'
<1>1. /\ \A u \in Tasks : pc'[u] = IF u = t THEN "answered" ELSE pc[u]
      /\ \A u \in Tasks : answer'[u] = IF u = t THEN kind ELSE answer[u]
  BY DEF TypeOK, GoTo, Answer
<1>2. \A c \in Clients, h \in Hops : <<c, h>> \in Tasks
  BY DEF Tasks
<1>3. Chain'
  BY <1>1, <1>2 DEF ChainInv, Chain
<1>4. AnsweredIsOver'
  BY <1>1 DEF ChainInv, AnsweredIsOver
<1>5. ExecutedIsLast'
  <2>1. \A c \in Clients : \A u \in executed[c] : u \in Tasks
    BY DEF TypeOK
  <2> QED
    BY <1>1, <1>2, <2>1 DEF ChainInv, ExecutedIsLast
<1>6. kind = "done" => \E u \in executed[Client(t)] : Hop(u) >= Hop(t)
  <2>1. SUFFICES ASSUME kind = "done" PROVE \E u \in executed[Client(t)] : Hop(u) >= Hop(t)
    OBVIOUS
  <2>2. Hop(t) < MaxHops /\ answer[Forwarded(t)] = "done" /\ Forwarded(t) \in Tasks
    BY <2>1, TaskParts
  <2>3. PICK u \in executed[Client(Forwarded(t))] : Hop(u) >= Hop(Forwarded(t))
    BY <2>2 DEF ChainInv, DoneWasExecuted
  <2>4. Client(Forwarded(t)) = Client(t) /\ Hop(Forwarded(t)) = Hop(t) + 1
    BY DEF Client, Hop, Forwarded
  <2>5. u \in Tasks
    BY <2>3, <2>4, TaskParts DEF TypeOK
  <2> QED
    BY <2>3, <2>4, <2>5, TaskParts, FastAssumption
<1>7. DoneWasExecuted'
  BY <1>1, <1>6 DEF ChainInv, DoneWasExecuted
<1>8. kind = "split_brain" =>
        /\ executed[Client(t)] = {}
        /\ \A h \in Hops : <<Client(t), h>> # t => pc[<<Client(t), h>>] \in {"none", "sent", "answered"}
  <2>1. CASE pc[t] = "arrived"
    <3>1. \A h \in Hops : h # Hop(t) => h > Hop(t) \/ h < Hop(t)
      BY TaskParts, FastAssumption DEF Hops
    <3> QED
      BY <2>1, <3>1, Frontier, TaskParts
  <2>2. CASE kind = "split_brain" /\ Hop(t) < MaxHops /\ kind = answer[Forwarded(t)]
    <3>1. Forwarded(t) \in Tasks /\ Client(Forwarded(t)) = Client(t)
      BY <2>2, TaskParts DEF Client, Forwarded
    <3> QED
      BY <2>2, <3>1 DEF ChainInv, RefusedIsOver
  <2> QED
    BY <2>1, <2>2
<1>9. RefusedIsOver'
  <2>1. ASSUME NEW u \in Tasks, answer'[u] = "split_brain", NEW h \in Hops
        PROVE  executed[Client(u)] = {} /\ pc'[<<Client(u), h>>] \in {"none", "sent", "answered"}
    <3>1. <<Client(u), h>> \in Tasks
      BY <1>2, TaskParts
    <3>2. CASE u = t
      BY <1>1, <1>8, <2>1, <3>1, <3>2
    <3>3. CASE u # t
      BY <1>1, <2>1, <3>1, <3>3 DEF ChainInv, RefusedIsOver
    <3> QED
      BY <3>2, <3>3
  <2>2. 0 \in Hops
    BY FastAssumption DEF Hops
  <2> QED
    BY <2>1, <2>2 DEF RefusedIsOver
<1> QED
  BY <1>3, <1>4, <1>5, <1>7, <1>9 DEF ChainInv

\* The application executes a write: that request is the last of its client's.
LEMMA Executes ==
  ASSUME TypeOK, ChainInv, NEW t \in Tasks, Execute(t)
  PROVE  ChainInv'
<1>1. /\ pc[t] = "local"
      /\ \A u \in Tasks : pc'[u] = IF u = t THEN "answered" ELSE pc[u]
      /\ \A u \in Tasks : answer'[u] = IF u = t THEN "done" ELSE answer[u]
      /\ \A c \in Clients : executed'[c] = IF c = Client(t) THEN executed[c] \cup {t} ELSE executed[c]
  BY TaskParts DEF TypeOK, Execute, GoTo, Answer
<1>2. \A c \in Clients, h \in Hops : <<c, h>> \in Tasks
  BY DEF Tasks
<1>3. Chain'
  BY <1>1, <1>2 DEF ChainInv, Chain
<1>4. AnsweredIsOver'
  BY <1>1 DEF ChainInv, AnsweredIsOver
<1>5. ExecutedIsLast'
  <2>1. ASSUME NEW c \in Clients, NEW u \in executed'[c]
        PROVE  /\ Client(u) = c /\ pc'[u] = "answered"
               /\ \A h \in Hops : h > Hop(u) => pc'[<<c, h>>] = "none"
    <3>1. CASE u = t
      <4>1. c = Client(t)
        BY <1>1, <2>1, <3>1, Frontier DEF ChainInv, ExecutedIsLast
      <4>2. \A h \in Hops : h > Hop(t) => <<c, h>> # t
        BY TaskParts, FastAssumption DEF Hop, Hops
      <4> QED
        BY <1>1, <1>2, <3>1, <4>1, <4>2, Frontier
    <3>2. CASE u # t
      <4>1. u \in executed[c] /\ u \in Tasks
        BY <1>1, <2>1, <3>2 DEF TypeOK
      <4> QED
        BY <1>1, <1>2, <3>2, <4>1 DEF ChainInv, ExecutedIsLast
    <3> QED
      BY <3>1, <3>2
  <2> QED
    BY <2>1 DEF ExecutedIsLast
<1>6. DoneWasExecuted'
  <2>1. ASSUME NEW u \in Tasks, answer'[u] = "done"
        PROVE  \E w \in executed'[Client(u)] : Hop(w) >= Hop(u)
    <3>1. CASE u = t
      <4>1. Client(t) \in Clients /\ Hop(t) \in Nat
        BY TaskParts, FastAssumption
      <4>2. t \in executed'[Client(t)]
        BY <1>1, <4>1
      <4>3. Hop(t) >= Hop(t)
        BY <4>1
      <4> QED
        BY <3>1, <4>2, <4>3
    <3>2. CASE u # t
      BY <1>1, <2>1, <3>2, TaskParts DEF ChainInv, DoneWasExecuted
    <3> QED
      BY <3>1, <3>2
  <2> QED
    BY <2>1 DEF DoneWasExecuted
<1>7. ASSUME NEW u \in Tasks, answer[u] = "split_brain" PROVE Client(u) # Client(t)
  BY <1>1, <1>7, Frontier
<1>8. RefusedIsOver'
  BY <1>1, <1>2, <1>7, TaskParts DEF ChainInv, RefusedIsOver
<1> QED
  BY <1>3, <1>4, <1>5, <1>6, <1>8 DEF ChainInv

\* A request that is sent on: the next hop did not exist, and becomes the last.
LEMMA SentOn ==
  ASSUME TypeOK, ChainInv, NEW t \in Tasks, NEW parts, Send(t, parts)
  PROVE  ChainInv'
<1> DEFINE f == Forwarded(t)
<1>0. /\ f \in Tasks /\ Client(f) = Client(t) /\ Hop(f) = Hop(t) + 1 /\ f = <<Client(t), Hop(t) + 1>>
      /\ f # t /\ Hop(t) + 1 \in Hops
  BY TaskParts, FastAssumption DEF Send, Forwarded, Client, Hop, Hops
<1>1. /\ pc[t] = "read" /\ pc[f] = "none"
      /\ \A u \in Tasks : pc'[u] = IF u = f THEN "arrived" ELSE IF u = t THEN "sent" ELSE pc[u]
      /\ answer' = answer /\ executed' = executed
  <2>1. pc[t] = "read" /\ answer' = answer /\ executed' = executed
    BY DEF Send
  <2>2. pc[f] = "none"
    BY <1>0, <2>1, Frontier, TaskParts, FastAssumption
  <2>3. pc' = [pc EXCEPT ![t] = "sent", ![f] = "arrived"]
    BY DEF Send
  <2> QED
    BY <1>0, <2>1, <2>2, <2>3 DEF TypeOK
<1>2. \A c \in Clients, h \in Hops : <<c, h>> \in Tasks /\ Client(<<c, h>>) = c /\ Hop(<<c, h>>) = h
  BY DEF Tasks, Client, Hop
<1> HIDE DEF f
<1>3. Chain'
  <2>1. ASSUME NEW c \in Clients, NEW i \in Hops, NEW j \in Hops, i < j, pc'[<<c, j>>] # "none"
        PROVE  pc'[<<c, i>>] \in {"sent", "answered"}
    <3>1. CASE <<c, j>> = f
      <4>1. c = Client(t) /\ j = Hop(t) + 1 /\ <<c, i>> # f
        BY <1>0, <1>2, <2>1, <3>1, FastAssumption DEF Hops
      <4>2. CASE i = Hop(t)
        BY <1>0, <1>1, <1>2, <4>1, <4>2, TaskParts
      <4>3. CASE i # Hop(t)
        <5>1. i < Hop(t) /\ <<c, i>> # t
          BY <1>2, <2>1, <4>1, <4>3, TaskParts, FastAssumption DEF Hops
        <5>2. pc[<<c, i>>] \in {"sent", "answered"}
          BY <1>1, <4>1, <5>1, Frontier
        <5> QED
          BY <1>1, <1>2, <4>1, <5>1, <5>2
      <4> QED
        BY <4>2, <4>3
    <3>2. CASE <<c, j>> # f
      <4>1. pc[<<c, j>>] # "none"
        BY <1>1, <1>2, <2>1, <3>2
      <4>2. pc[<<c, i>>] \in {"sent", "answered"}
        BY <2>1, <4>1 DEF ChainInv, Chain
      <4> QED
        BY <1>1, <1>2, <4>2
    <3> QED
      BY <3>1, <3>2
  <2> QED
    BY <2>1 DEF Chain
<1>4. AnsweredIsOver'
  BY <1>0, <1>1 DEF ChainInv, AnsweredIsOver
<1>5. ExecutedIsLast'
  <2>1. ASSUME NEW c \in Clients, NEW u \in executed[c]
        PROVE  /\ Client(u) = c /\ pc'[u] = "answered"
               /\ \A h \in Hops : h > Hop(u) => pc'[<<c, h>>] = "none"
    <3>1. c # Client(t) /\ u \in Tasks /\ Client(u) = c /\ pc[u] = "answered"
      BY <1>1, <2>1, Frontier DEF TypeOK, ChainInv, ExecutedIsLast
    <3>2. \A h \in Hops : <<c, h>> # f /\ <<c, h>> # t
      BY <1>0, <1>2, <3>1
    <3> QED
      BY <1>0, <1>1, <1>2, <2>1, <3>1, <3>2 DEF ChainInv, ExecutedIsLast
  <2> QED
    BY <1>1, <2>1 DEF ExecutedIsLast
<1>6. DoneWasExecuted'
  BY <1>1 DEF ChainInv, DoneWasExecuted
<1>7. ASSUME NEW u \in Tasks, answer[u] = "split_brain" PROVE Client(u) # Client(t)
  BY <1>1, <1>7, Frontier
<1>8. RefusedIsOver'
  <2>1. ASSUME NEW u \in Tasks, answer[u] = "split_brain", NEW h \in Hops
        PROVE  <<Client(u), h>> # f /\ <<Client(u), h>> # t /\ <<Client(u), h>> \in Tasks
    BY <1>0, <1>2, <1>7, <2>1, TaskParts
  <2> QED
    BY <1>1, <2>1 DEF ChainInv, RefusedIsOver
<1> QED
  BY <1>3, <1>4, <1>5, <1>6, <1>8 DEF ChainInv

\* A client's first request, which is not there as long as none of its requests is.
LEMMA Arrives ==
  ASSUME TypeOK, ChainInv, NEW c \in Clients, NEW n \in Nodes, Arrive(c, n)
  PROVE  ChainInv'
<1>0. <<c, 0>> \in Tasks /\ 0 \in Hops
  BY FastAssumption DEF Tasks, Hops
<1>a. /\ pc[<<c, 0>>] = "none" /\ answer' = answer /\ executed' = executed
      /\ \A u \in Tasks : pc'[u] = IF u = <<c, 0>> THEN "arrived" ELSE pc[u]
  BY <1>0 DEF TypeOK, Arrive, GoTo
<1>b. \A d \in Clients, h \in Hops : <<d, h>> \in Tasks
  BY DEF Tasks
<1>c. \A h \in Hops : h >= 0
  BY FastAssumption DEF Hops
<1>1. Chain'
  <2>1. ASSUME NEW d \in Clients, NEW i \in Hops, NEW j \in Hops, i < j, pc'[<<d, j>>] # "none"
        PROVE  pc'[<<d, i>>] \in {"sent", "answered"}
    <3>1. j # 0
      BY <1>c, <2>1, FastAssumption DEF Hops
    <3>2. pc[<<d, i>>] \in {"sent", "answered"}
      BY <1>a, <1>b, <2>1, <3>1 DEF ChainInv, Chain
    <3> QED
      BY <1>a, <1>b, <3>2
  <2> QED
    BY <2>1 DEF Chain
<1>2. AnsweredIsOver' /\ DoneWasExecuted'
  BY <1>a DEF ChainInv, AnsweredIsOver, DoneWasExecuted
<1>d. ExecutedIsLast'
  <2>1. ASSUME NEW d \in Clients, NEW u \in executed[d]
        PROVE  /\ Client(u) = d /\ pc'[u] = "answered"
               /\ \A h \in Hops : h > Hop(u) => pc'[<<d, h>>] = "none"
    <3>1. u \in Tasks /\ Hop(u) \in Hops
      BY TaskParts DEF TypeOK, Hops
    <3>2. \A h \in Hops : h > Hop(u) => h # 0
      BY <1>c, <3>1, FastAssumption DEF Hops
    <3> QED
      BY <1>a, <1>b, <3>1, <3>2 DEF ChainInv, ExecutedIsLast
  <2> QED
    BY <1>a, <2>1 DEF ExecutedIsLast
<1>3. ASSUME NEW t \in Tasks, answer[t] = "split_brain" PROVE Client(t) # c
  <2>1. pc[t] = "answered"
    BY <1>3 DEF ChainInv, AnsweredIsOver
  <2>2. CASE Client(t) = c
    <3>1. CASE Hop(t) = 0
      BY <1>a, <2>1, <2>2, <3>1, TaskParts
    <3>2. CASE Hop(t) # 0
      <4>1. 0 < Hop(t) /\ Hop(t) \in Hops
        BY <3>2, TaskParts, FastAssumption DEF Hops
      <4> QED
        BY <1>0, <1>a, <2>1, <2>2, <4>1, TaskParts DEF ChainInv, Chain
    <3> QED
      BY <3>1, <3>2
  <2> QED
    BY <2>2
<1>4. RefusedIsOver'
  <2>1. ASSUME NEW u \in Tasks, answer[u] = "split_brain", NEW h \in Hops
        PROVE  <<Client(u), h>> # <<c, 0>> /\ <<Client(u), h>> \in Tasks
    BY <1>3, <1>b, <2>1, TaskParts
  <2> QED
    BY <1>a, <2>1 DEF ChainInv, RefusedIsOver
<1> QED
  BY <1>1, <1>2, <1>d, <1>4 DEF ChainInv

LEMMA ChainContinue ==
  ASSUME TypeOK, ChainInv, NEW t \in Tasks, Continue(t)
  PROVE  ChainInv'
<1>1. CASE SplitBrainDetected(t)
  BY <1>1, IsAnswered DEF SplitBrainDetected, GoTo, AnswerKinds
<1>2. CASE SendFails(t) \/ Timeout(t)
  BY <1>2, IsAnswered DEF SendFails, Timeout, GoTo, AnswerKinds
<1>3. CASE Respond(t)
  <2>1. answer[Forwarded(t)] \in AnswerKinds
    BY <1>3, TaskParts DEF Respond, TypeOK
  <2> QED
    BY <1>3, <2>1, IsAnswered DEF Respond, GoTo
<1>4. CASE HandleLocally(t) \/ DetectorRaises(t) \/ StartForward(t)
  BY <1>4, Begins DEF HandleLocally, DetectorRaises, StartForward
<1>5. CASE Execute(t)
  BY <1>5, Executes
<1>6. CASE ReadPart(t)
  BY <1>6, Aside DEF ReadPart
<1>7. CASE ReadLast(t) \/ ReadDisconnect(t)
  BY <1>7, SentOn DEF ReadLast, ReadDisconnect
<1> QED
  BY <1>1, <1>2, <1>3, <1>4, <1>5, <1>6, <1>7 DEF Continue

LEMMA ChainStep == TypeOK /\ ChainInv /\ [Next]_vars => ChainInv'
<1> SUFFICES ASSUME TypeOK, ChainInv, [Next]_vars PROVE ChainInv'
  OBVIOUS
<1>1. ASSUME NEW c \in Clients, Disconnect(c) PROVE ChainInv'
  BY <1>1, Aside DEF Disconnect
<1>2. ASSUME NEW c \in Clients, NEW n \in Nodes, Arrive(c, n) PROVE ChainInv'
  BY <1>2, Arrives
<1>3. ASSUME NEW t \in Tasks, Continue(t) PROVE ChainInv'
  BY <1>3, ChainContinue
<1>4. CASE Tick
  BY <1>4, Aside DEF Tick
<1>5. CASE UNCHANGED vars
  BY <1>5, Aside DEF vars
<1> QED
  BY <1>1, <1>2, <1>3, <1>4, <1>5 DEF Next

LEMMA ChainInit == Init => ChainInv
BY DEF Init, ChainInv, Chain, ExecutedIsLast, AnsweredIsOver, DoneWasExecuted, RefusedIsOver, Tasks, Client

LEMMA ChainInvariance == Spec => [](TypeOK /\ ChainInv)
<1> QED
  BY TypeCorrect, ChainInit, ChainStep, PTL DEF Spec

\* Two executions of one write would each be its last hop.
LEMMA OnceOnly == TypeOK /\ ChainInv => ExecutedAtMostOnce
<1> SUFFICES ASSUME TypeOK, ChainInv, NEW c \in Clients,
                    NEW t \in executed[c], NEW u \in executed[c]
             PROVE  t = u
  BY DEF ExecutedAtMostOnce
<1>1. t \in Tasks /\ u \in Tasks
  BY DEF TypeOK
<1>2. /\ Client(t) = c /\ pc[t] = "answered" /\ \A h \in Hops : h > Hop(t) => pc[<<c, h>>] = "none"
      /\ Client(u) = c /\ pc[u] = "answered" /\ \A h \in Hops : h > Hop(u) => pc[<<c, h>>] = "none"
  BY DEF ChainInv, ExecutedIsLast
<1>3. ~(Hop(t) > Hop(u)) /\ ~(Hop(u) > Hop(t))
  BY <1>1, <1>2, TaskParts DEF Hops
<1>4. Hop(t) = Hop(u)
  BY <1>1, <1>3, TaskParts, FastAssumption
<1> QED
  BY <1>1, <1>2, <1>4, TaskParts

\* Whatever times out and whoever believes to be the primary, a write that is forwarded
\* to and fro is executed at most once.
THEOREM AtMostOnce == Spec => []ExecutedAtMostOnce
  BY OnceOnly, ChainInvariance, PTL

\* A success was executed, and a write refused for a split brain never is.
THEOREM AnswersTrue == Spec => []AnswersAreTrue
<1>1. ChainInv => AnswersAreTrue
  BY DEF ChainInv, DoneWasExecuted, RefusedIsOver, AnswersAreTrue
<1> QED
  BY <1>1, ChainInvariance, PTL

-------------------------------------------------------------------------------
\* How often a write was executed: not at all, or once.
LEMMA Executions ==
  ASSUME TypeOK, ChainInv, NEW c \in Clients
  PROVE  /\ executed[c] = {} => Cardinality(executed[c]) = 0
         /\ executed[c] # {} => Cardinality(executed[c]) = 1
<1>1. CASE executed[c] = {}
  BY <1>1, FS_EmptySet
<1>2. CASE executed[c] # {}
  <2>1. PICK t : t \in executed[c]
    BY <1>2
  <2>2. executed[c] = {t}
    BY <2>1, OnceOnly DEF ExecutedAtMostOnce
  <2> QED
    BY <1>2, <2>2, FS_Singleton
<1> QED
  BY <1>1, <1>2

\* What is told to one client, as the promise sees it.
LEMMA TellStep ==
  ASSUME NEW d \in Clients, NEW kind \in AnswerKinds,
         answer[<<d, 0>>] = "none", answer'[<<d, 0>>] = kind,
         \A c \in Clients \ {d} : answer'[<<c, 0>>] = answer[<<c, 0>>]
  PROVE  Promise!Tell(d, ToldOf[kind])
<1> DEFINE told == [c \in Clients |-> ToldOf[answer[<<c, 0>>]]]
<1>1. ToldOf["none"] = "nothing"
  BY DEF ToldOf
<1>2. told[d] = "nothing"
  BY <1>1
<1>3. told' = [told EXCEPT ![d] = ToldOf[kind]]
  <2>1. \A c \in Clients : told'[c] = [told EXCEPT ![d] = ToldOf[kind]][c]
    OBVIOUS
  <2> QED
    BY <2>1
<1> QED
  BY <1>2, <1>3 DEF Promise!Tell

\* What is executed of one client's, as the promise sees it.
LEMMA CountStep ==
  ASSUME NEW d \in Clients, NEW t, executed[d] = {},
         \A c \in Clients : executed'[c] = IF c = d THEN {t} ELSE executed[c]
  PROVE  Promise!Count(d)
<1> DEFINE executions == [c \in Clients |-> Cardinality(executed[c])]
<1>1. Cardinality({}) = 0 /\ Cardinality({t}) = 1
  BY FS_EmptySet, FS_Singleton
<1>2. executions[d] = 0
  BY <1>1
<1>3. executions' = [executions EXCEPT ![d] = @ + 1]
  <2>1. \A c \in Clients : executions'[c] = [executions EXCEPT ![d] = @ + 1][c]
    BY <1>1
  <2> QED
    BY <2>1
<1> QED
  BY <1>2, <1>3 DEF Promise!Count

\* What the client is told when one of its requests is answered, and nothing executed.
LEMMA ToldStep ==
  ASSUME TypeOK, ChainInv, ChainInv', NEW t \in Tasks, NEW kind \in AnswerKinds \ {"none"},
         pc[t] # "answered", Answer(t, kind), UNCHANGED executed
  PROVE  [Promise!Next]_(Promise!contract)
<1> USE DEF Promise!contract
<1>1. /\ answer[t] = "none"
      /\ \A u \in Tasks : answer'[u] = IF u = t THEN kind ELSE answer[u]
  BY DEF ChainInv, AnsweredIsOver, TypeOK, Answer
<1>2. \A c \in Clients : <<c, 0>> \in Tasks /\ Client(<<c, 0>>) = c
  BY FastAssumption DEF Tasks, Hops, Client
<1>3. CASE Hop(t) # 0
  <2>1. \A c \in Clients : <<c, 0>> # t
    BY <1>3 DEF Hop
  <2> QED
    BY <1>1, <1>2, <2>1
<1>4. CASE Hop(t) = 0
  <2> DEFINE d == Client(t)
  <2>1. d \in Clients /\ t = <<d, 0>>
    BY <1>4, TaskParts
  <2>2. \A c \in Clients \ {d} : <<c, 0>> # t
    BY DEF Client
  <2>3. Promise!Tell(d, ToldOf[kind])
    BY <1>1, <1>2, <2>1, <2>2, TellStep
  <2>4. CASE kind = "unavailable"
    BY <2>1, <2>3, <2>4 DEF Promise!Next, Promise!GiveUp, ToldOf
  <2>5. CASE kind = "split_brain"
    <3>1. executed[d] = {}
      BY <1>1, <2>1, <2>5 DEF ChainInv, RefusedIsOver
    <3> QED
      BY <2>1, <2>3, <2>5, <3>1, Executions DEF Promise!Next, Promise!Refuse, ToldOf
  <2>6. CASE kind = "done"
    <3>1. executed[d] # {}
      BY <1>1, <2>1, <2>6 DEF ChainInv, DoneWasExecuted
    <3> QED
      BY <2>1, <2>3, <2>6, <3>1, Executions DEF Promise!Next, Promise!Succeed, ToldOf
  <2> QED
    BY <2>4, <2>5, <2>6 DEF AnswerKinds
<1> QED
  BY <1>3, <1>4

\* The execution of a write is the first, and its client is told of it at once or later.
LEMMA ExecutionStep ==
  ASSUME TypeOK, ChainInv, TypeOK', ChainInv', NEW t \in Tasks, Execute(t)
  PROVE  Promise!Next
<1> DEFINE d == Client(t)
<1>1. /\ d \in Clients /\ executed[d] = {} /\ answer[<<d, 0>>] \notin {"done", "split_brain"}
      /\ pc[t] = "local" /\ answer[t] = "none"
      /\ \A u \in Tasks : answer'[u] = IF u = t THEN "done" ELSE answer[u]
      /\ \A c \in Clients : executed'[c] = IF c = d THEN {t} ELSE executed[c]
  <2>1. pc[t] = "local" /\ d \in Clients /\ <<d, 0>> \in Tasks /\ Client(<<d, 0>>) = d
    BY TaskParts, FastAssumption DEF Execute, GoTo, Tasks, Hops, Client
  <2>2. executed[d] = {} /\ answer[<<d, 0>>] \notin {"done", "split_brain"}
    BY <2>1, Frontier
  <2> QED
    BY <2>1, <2>2 DEF Execute, Answer, TypeOK, ChainInv, AnsweredIsOver
<1>2. \A c \in Clients : <<c, 0>> \in Tasks /\ Client(<<c, 0>>) = c /\ Hop(<<c, 0>>) = 0
  BY FastAssumption DEF Tasks, Hops, Client, Hop
<1> HIDE DEF d
<1>3. Promise!Count(d)
  BY <1>1, CountStep
<1>4. CASE Hop(t) = 0
  <2>1. t = <<d, 0>>
    BY <1>4, TaskParts DEF d
  <2>2. \A c \in Clients \ {d} : answer'[<<c, 0>>] = answer[<<c, 0>>]
    <3>1. \A c \in Clients \ {d} : <<c, 0>> # t
      BY <2>1
    <3> QED
      BY <1>1, <1>2, <3>1
  <2>3. answer[<<d, 0>>] = "none" /\ answer'[<<d, 0>>] = "done"
    BY <1>1, <1>2, <2>1
  <2>4. Promise!Tell(d, ToldOf["done"])
    BY <1>1, <2>2, <2>3, TellStep DEF AnswerKinds
  <2> QED
    BY <1>1, <1>3, <2>4 DEF Promise!Next, Promise!ExecuteHere, ToldOf
<1>5. CASE Hop(t) # 0
  <2>1. \A c \in Clients : answer'[<<c, 0>>] = answer[<<c, 0>>]
    BY <1>1, <1>2, <1>5
  <2>2. ToldOf[answer[<<d, 0>>]] # "refused"
    BY <1>1, <1>2 DEF ToldOf, TypeOK, AnswerKinds
  <2> QED
    BY <1>1, <1>3, <2>1, <2>2 DEF Promise!Next, Promise!ExecuteThere
<1> QED
  BY <1>4, <1>5

\* The nodes keep the promise that a client of any of them is given, with one execution
\* at the most: what they do between them is a step of the promise or none.
THEOREM PromiseKept == Spec => KeepsPromise
<1>1. Init => Promise!Init
  <2>1. \A c \in Clients : <<c, 0>> \in Tasks
    BY FastAssumption DEF Tasks, Hops
  <2> QED
    BY <2>1, FS_EmptySet DEF Init, Promise!Init, ToldOf
<1>2. TypeOK /\ ChainInv /\ TypeOK' /\ ChainInv' /\ [Next]_vars => [Promise!Next]_(Promise!contract)
  <2> SUFFICES ASSUME TypeOK, ChainInv, TypeOK', ChainInv', [Next]_vars
               PROVE  [Promise!Next]_(Promise!contract)
    OBVIOUS
  <2>1. ASSUME NEW t \in Tasks, Continue(t), ~UNCHANGED <<answer, executed>>
        PROVE  [Promise!Next]_(Promise!contract)
    <3>1. CASE SplitBrainDetected(t)
      BY <3>1, ToldStep DEF SplitBrainDetected, GoTo, AnswerKinds
    <3>2. CASE SendFails(t) \/ Timeout(t)
      BY <3>2, ToldStep DEF SendFails, Timeout, GoTo, AnswerKinds
    <3>3. CASE Respond(t)
      <4>1. answer[Forwarded(t)] \in AnswerKinds \ {"none"}
        BY <3>3, TaskParts DEF Respond, TypeOK
      <4> QED
        BY <3>3, <4>1, ToldStep DEF Respond, GoTo
    <3>4. CASE Execute(t)
      BY <3>4, ExecutionStep
    <3> QED
      BY <2>1, <3>1, <3>2, <3>3, <3>4 DEF Continue, HandleLocally, DetectorRaises, StartForward,
         ReadPart, ReadLast, ReadDisconnect, Send
  <2>2. CASE UNCHANGED <<answer, executed>>
    BY <2>2 DEF Promise!contract
  <2> QED
    BY <2>1, <2>2 DEF Next, Disconnect, Arrive, Tick, vars
<1> QED
  BY <1>1, <1>2, ChainInvariance, PTL DEF Spec, KeepsPromise, Promise!Spec

-------------------------------------------------------------------------------
\* What a cache holds is what its detector last found.
CacheIsAnswer == cache = asked

LEMMA AskedIsCached ==
  ASSUME CacheIsAnswer, NEW n, NEW v, IsPrimary(n, v)
  PROVE  CacheIsAnswer'
<1>1. CASE Fresh(n) \/ n \notin cached
  BY <1>1 DEF CacheIsAnswer, IsPrimary, UseCached, AskDetector
<1>2. CASE ~Fresh(n) /\ n \in cached
  <2>1. cache' = [cache EXCEPT ![n] = Entry(v)] /\ asked' = [asked EXCEPT ![n] = Entry(v)]
    BY <1>2 DEF IsPrimary, AskDetector
  <2> QED
    BY <2>1 DEF CacheIsAnswer
<1> QED
  BY <1>1, <1>2

LEMMA CacheStep == CacheIsAnswer /\ [Next]_vars => CacheIsAnswer'
<1> SUFFICES ASSUME CacheIsAnswer, [Next]_vars PROVE CacheIsAnswer'
  OBVIOUS
<1>1. ASSUME NEW t \in Tasks, Continue(t) PROVE CacheIsAnswer'
  <2>1. CASE HandleLocally(t) \/ StartForward(t)
    BY <2>1, AskedIsCached DEF HandleLocally, StartForward
  <2>2. CASE UNCHANGED netVars
    BY <2>2 DEF netVars, CacheIsAnswer
  <2> QED
    BY <1>1, <2>1, <2>2 DEF Continue, SplitBrainDetected, DetectorRaises, Execute, ReadPart,
       ReadLast, ReadDisconnect, Send, SendFails, Respond, Timeout
<1> QED
  BY <1>1 DEF Next, Disconnect, Arrive, Tick, vars, netVars, CacheIsAnswer

\* A cached answer is what the detector found less than the time to live ago.
THEOREM CacheYoung == Spec => []CachedAnswerIsYoung
<1>1. Init => CacheIsAnswer
  BY DEF Init, CacheIsAnswer
<1>2. CacheIsAnswer => CachedAnswerIsYoung
  BY DEF CacheIsAnswer, CachedAnswerIsYoung, Fresh
<1> QED
  BY <1>1, <1>2, CacheStep, PTL DEF Spec
=============================================================================
