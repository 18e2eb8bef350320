------------------------------ MODULE SplitBrain ------------------------------
(***************************************************************************)
(* Split-brain detection and what it guards.  A request on a node passes   *)
(* SplitBrainMiddleware and then writes through a LiteFSCursor; each has a *)
(* SplitBrainDetector that asks the members one after the other            *)
(* (SplitBrainDetectorAdapter.get_cluster_state): itself by its own flag,  *)
(* the others over HTTP.  Elections, partitions and crashes go on between  *)
(* any two of these questions and after the last.                          *)
(***************************************************************************)
EXTENDS RaftElection, Sequences

CONSTANTS
  Requests,           \* threads that serve requests
  Entries,            \* bound of the model: the nodes that requests come to
  Members,            \* cluster_members, in the order of the configuration
  MiddlewareDetects,  \* the middleware was given a detector
  CursorDetects       \* the cursor was given a detector

\* The code tells members apart by their host: one member to a host.
ASSUME SplitBrainAssumption ==
  /\ Members \in Seq(Nodes) /\ Len(Members) > 0
  /\ \A i, j \in 1 .. Len(Members) : Members[i] = Members[j] => i = j
  /\ Entries \subseteq Nodes
  /\ MiddlewareDetects \in BOOLEAN
  /\ CursorDetects \in BOOLEAN

None == "none"  \* the request is on no node
ASSUME NoneAssumption == None \notin Nodes

VARIABLES
  pc,        \* pc[r]: the next step of request r
  host,      \* host[r]: the node that serves it
  stage,     \* stage[r]: who detects, the middleware or the cursor
  index,     \* index[r]: the member get_cluster_state asks next
  found,     \* found[r]: the members that answered that they lead
  outcome,   \* outcome[r]: how the last request of r ended
  \* History variables: no action reads them.
  answered,  \* answered[r]: the members that answered the detection
  steady,    \* steady[r]: those that led at every moment of the detection
  sometime   \* sometime[r]: those that led at some moment of it

detection == <<stage, index, found, answered>>
requests == <<pc, host, detection, outcome>>
vars == <<raft, requests, steady, sometime>>

PCs == {"idle", "query", "detect", "check_primary", "execute"}
Outcomes == {"none", "unavailable", "split_brain_error", "detection_error", "not_primary",
             "primary_error", "written", "lost"}

Leaders == {n \in Nodes : is_leader[n]}

Init ==
  /\ RaftInit
  /\ pc = [r \in Requests |-> "idle"]
  /\ host = [r \in Requests |-> None]
  /\ stage = [r \in Requests |-> "cursor"]
  /\ index = [r \in Requests |-> 1]
  /\ found = [r \in Requests |-> {}]
  /\ outcome = [r \in Requests |-> "none"]
  /\ answered = [r \in Requests |-> {}]
  /\ steady = [r \in Requests |-> {}]
  /\ sometime = [r \in Requests |-> {}]

-------------------------------------------------------------------------------
Goto(r, to) == pc' = [pc EXCEPT ![r] = to]

\* The request ends, and with it all that was local to it.
Answer(r, o) ==
  /\ Goto(r, "idle")
  /\ outcome' = [outcome EXCEPT ![r] = o]
  /\ host' = [host EXCEPT ![r] = None]
  /\ stage' = [stage EXCEPT ![r] = "cursor"]
  /\ index' = [index EXCEPT ![r] = 1]
  /\ found' = [found EXCEPT ![r] = {}]
  /\ answered' = [answered EXCEPT ![r] = {}]
  /\ steady' = [steady EXCEPT ![r] = {}]
  /\ sometime' = [sometime EXCEPT ![r] = {}]

\* A detection begins: the list of node states is empty.
StartDetection(r, who) ==
  /\ Goto(r, "query")
  /\ stage' = [stage EXCEPT ![r] = who]
  /\ index' = [index EXCEPT ![r] = 1]
  /\ found' = [found EXCEPT ![r] = {}]
  /\ answered' = [answered EXCEPT ![r] = {}]
  /\ steady' = [steady EXCEPT ![r] = Leaders]
  /\ sometime' = [sometime EXCEPT ![r] = Leaders]

\* The application executes a write: the cursor detects first, if it can.
ExecuteWrite(r) ==
  IF CursorDetects
    THEN StartDetection(r, "cursor")
    ELSE /\ Goto(r, "check_primary")
         /\ stage' = [stage EXCEPT ![r] = "cursor"]
         /\ UNCHANGED <<index, found, answered, steady, sometime>>

\* SplitBrainMiddleware.__call__ is entered on node n.
Arrive(r, n) ==
  /\ pc[r] = "idle" /\ up[n]
  /\ host' = [host EXCEPT ![r] = n]
  /\ outcome' = [outcome EXCEPT ![r] = "none"]
  /\ IF MiddlewareDetects THEN StartDetection(r, "middleware") ELSE ExecuteWrite(r)
  /\ UNCHANGED raft

\* Mutant: the loop runs past the last member.
BugListed(r, leads) ==
  /\ index' = [index EXCEPT ![r] = @ + 1]
  /\ found' = IF leads THEN [found EXCEPT ![r] = @ \cup {Members[index[r]]}] ELSE found
  /\ Goto(r, IF index[r] > Len(Members) THEN "detect" ELSE "query")
  /\ UNCHANGED <<raft, host, stage, outcome, steady, sometime>>

\* The next member is listed, as leading or not.
Listed(r, leads) ==
  /\ index' = [index EXCEPT ![r] = @ + 1]
  /\ found' = IF leads THEN [found EXCEPT ![r] = @ \cup {Members[index[r]]}] ELSE found
  /\ Goto(r, IF index[r] = Len(Members) THEN "detect" ELSE "query")
  /\ UNCHANGED <<raft, host, stage, outcome, steady, sometime>>

\* The member is this node, or it is reached and answers 200 with its flag.
QueryAnswered(r) ==
  /\ pc[r] = "query"
  /\ LET m == Members[index[r]] IN
       /\ m = host[r] \/ Reachable(host[r], m)
       /\ answered' = [answered EXCEPT ![r] = @ \cup {m}]
       /\ Listed(r, is_leader[m])

\* Mutant: a member that does not answer is listed with the flag of this node.
BugQueryUnanswered(r) ==
  /\ pc[r] = "query"
  /\ Members[index[r]] # host[r]
  /\ Listed(r, is_leader[host[r]])
  /\ UNCHANGED answered

\* Mutant: when a member does not answer, all of them are asked again.
BugQueryUnansweredAgain(r) ==
  /\ pc[r] = "query"
  /\ Members[index[r]] # host[r]
  /\ index' = [index EXCEPT ![r] = 1]
  /\ UNCHANGED <<raft, pc, host, stage, found, answered, outcome, steady, sometime>>

\* Any other end of a remote query, be it a timeout, a refused connection, another
\* status or an unreadable body, lists the member as not leading.
QueryUnanswered(r) ==
  /\ pc[r] = "query"
  /\ Members[index[r]] # host[r]
  /\ Listed(r, FALSE)
  /\ UNCHANGED answered

\* Mutant: a failed detection lets the write on, in the cursor as in the middleware.
BugDetectionFails(r) ==
  /\ pc[r] = "query"
  /\ Members[index[r]] # host[r]
  /\ IF stage[r] = "middleware"
       THEN ExecuteWrite(r)
       ELSE /\ Goto(r, "check_primary")
            /\ UNCHANGED <<stage, index, found, answered, steady, sometime>>
  /\ UNCHANGED <<raft, host, outcome>>

\* A body that is JSON but no object is not among the exceptions the adapter
\* catches.  The middleware fails open, the cursor passes the exception on.
DetectionFails(r) ==
  /\ pc[r] = "query"
  /\ Members[index[r]] # host[r]
  /\ IF stage[r] = "middleware"
       THEN ExecuteWrite(r) /\ UNCHANGED <<host, outcome>>
       ELSE Answer(r, "detection_error")
  /\ UNCHANGED raft

\* Mutant: the detector counts the leaders other than this node.
BugIsSplitBrain(r) == Cardinality(found[r] \ {host[r]}) > 1

\* detect_split_brain: more than one node claims to lead.
IsSplitBrain(r) == Cardinality(found[r]) > 1

Alarm(r) ==
  /\ pc[r] = "detect"
  /\ IsSplitBrain(r)
  /\ Answer(r, IF stage[r] = "middleware" THEN "unavailable" ELSE "split_brain_error")
  /\ UNCHANGED raft

\* The middleware sends the split_brain_detected signal before it answers; a receiver
\* that raises counts as a failed detection.
SignalFails(r) ==
  /\ pc[r] = "detect" /\ stage[r] = "middleware"
  /\ IsSplitBrain(r)
  /\ ExecuteWrite(r)
  /\ UNCHANGED <<raft, host, outcome>>

NoAlarm(r) ==
  /\ pc[r] = "detect"
  /\ ~IsSplitBrain(r)
  /\ IF stage[r] = "middleware"
       THEN ExecuteWrite(r)
       ELSE Goto(r, "check_primary") /\ UNCHANGED <<detection, steady, sometime>>
  /\ UNCHANGED <<raft, host, outcome>>

\* _check_primary_before_write.  What the detector reads is LiteFS's marker file,
\* which no part of the election writes: it may say anything.
CheckPrimary(r) ==
  /\ pc[r] = "check_primary"
  /\ \/ Goto(r, "execute") /\ UNCHANGED <<host, detection, outcome, steady, sometime>>
     \/ Answer(r, "not_primary")
     \/ Answer(r, "primary_error")
  /\ UNCHANGED raft

\* super().execute: nothing is checked again.
Execute(r) ==
  /\ pc[r] = "execute"
  /\ Answer(r, "written")
  /\ UNCHANGED raft

\* A worker is killed.  That a node crashes with requests on it is this for each of
\* them and then the crash.
Abandon(r) ==
  /\ pc[r] # "idle"
  /\ Answer(r, "lost")
  /\ UNCHANGED raft

\* The cluster takes a step, and the history of the running detections sees it.
ClusterStep ==
  LET detecting == {r \in Requests : pc[r] \in {"query", "detect"}} IN
    /\ RaftNext
    /\ \A r \in Requests : pc[r] # "idle" => up'[host[r]]
    /\ steady' = [r \in Requests |-> IF r \in detecting THEN steady[r] \cap Leaders' ELSE steady[r]]
    /\ sometime' = [r \in Requests |-> IF r \in detecting THEN sometime[r] \cup Leaders' ELSE sometime[r]]
    /\ UNCHANGED requests

Proceed(r) ==
  \/ QueryAnswered(r) \/ QueryUnanswered(r) \/ DetectionFails(r)
  \/ Alarm(r) \/ SignalFails(r) \/ NoAlarm(r) \/ CheckPrimary(r) \/ Execute(r)

Next ==
  \/ \E r \in Requests : Proceed(r) \/ Abandon(r) \/ \E n \in Entries : Arrive(r, n)
  \/ ClusterStep

\* A request that was taken goes on: every question has a timeout.
Spec == Init /\ [][Next]_vars /\ \A r \in Requests : WF_vars(Proceed(r))

-------------------------------------------------------------------------------
\* Every variable keeps its type, and a query is about a member.
TypeOK ==
  /\ RaftTypeOK
  /\ pc \in [Requests -> PCs]
  /\ host \in [Requests -> Nodes \cup {None}]
  /\ stage \in [Requests -> {"middleware", "cursor"}]
  /\ index \in [Requests -> 1 .. Len(Members) + 1]
  /\ found \in [Requests -> SUBSET Nodes]
  /\ outcome \in [Requests -> Outcomes]
  /\ answered \in [Requests -> SUBSET Nodes]
  /\ steady \in [Requests -> SUBSET Nodes]
  /\ sometime \in [Requests -> SUBSET Nodes]
  /\ \A r \in Requests : pc[r] = "query" => index[r] <= Len(Members)

\* No alarm out of nothing: a request is refused for a split brain only if at least
\* two members led, though perhaps one after the other, while they were asked.
AlarmIsFounded ==
  [][\A r \in Requests : Alarm(r) => Cardinality(sometime[r]) > 1]_vars

\* A cursor with a detector does not come to the write past a split brain that
\* lasted for the whole of its detection among members that answered it.
NoWriteInSteadySplitBrain ==
  CursorDetects => \A r \in Requests : pc[r] \in {"check_primary", "execute"} =>
    Cardinality(steady[r] \cap answered[r]) <= 1

\* A cursor with a detector writes only behind a detection of its own that went
\* through all members: neither the middleware's nor a failed one will do.
DetectionPrecedesWrite ==
  CursorDetects => \A r \in Requests : pc[r] \in {"check_primary", "execute"} =>
    stage[r] = "cursor" /\ index[r] > Len(Members)

\* A request that was taken ends, whatever the cluster does meanwhile.
EveryRequestEnds ==
  \A r \in Requests : pc[r] # "idle" ~> pc[r] = "idle"

-------------------------------------------------------------------------------
\* What the repository says and the code does not do; refuted by a run.

\* split_brain_detector_adapter.py:79-81: to list an unreachable node as not leading
\* is safe, because it "cannot cause split-brain issues since it can't accept
\* writes".  So while a leader is at its write, no other node writes that led for the
\* whole of this leader's detection and was listed as not leading.
UnreachableIsHarmless ==
  [][\A r, w \in Requests :
       pc[r] = "execute" /\ host[r] \in steady[r] /\ Execute(w) =>
         host[w] \notin steady[r] \ found[r]]_vars
===============================================================================
