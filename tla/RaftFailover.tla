----------------------------- MODULE RaftFailover -----------------------------
(***************************************************************************)
(* The coordinator of one node over the election of its cluster: Failover  *)
(* with the flag of py_leader for its port, in place of a port that says   *)
(* anything at any time.  The flag is set in the thread of the Raft        *)
(* library, between a change of role and the call of the listener; the     *)
(* coordinator polls it whenever it is called.                             *)
(***************************************************************************)
EXTENDS RaftElection

CONSTANTS
  me,      \* the node the coordinator runs on
  Callers  \* its threads that call the coordinator, one at a time

ASSUME MeAssumption == me \in Nodes

VARIABLES
  quorum, constructed, current_state, healthy, metrics, pc, op, seen, announced,  \* as in Failover
  synced  \* history: the election was read since leadership last changed or was given up

coordinator == <<quorum, constructed, current_state, healthy, metrics, pc, op, seen, announced>>
vars == <<raft, coordinator, synced>>

Coordinator == INSTANCE Failover WITH
  Serialised <- TRUE, Ports <- {"raft"}, port <- "raft", elected <- is_leader[me]

Init ==
  /\ RaftInit
  /\ Coordinator!Init
  /\ synced = TRUE

-------------------------------------------------------------------------------
\* What the cluster does, up to the end of the process the coordinator is in.
ClusterStep ==
  /\ RaftNext
  /\ up[me] => up'[me]
  /\ synced' = (synced /\ (role'[me] = "LEADER" <=> role[me] = "LEADER"))
  /\ UNCHANGED coordinator

\* Mutant: the coordinator is not constructed again.
BugProcessEnds ==
  /\ Crash(me)
  /\ synced' = TRUE
  /\ UNCHANGED coordinator

\* The process ends; the next one constructs an election node, which does not lead,
\* and then a coordinator over it.
ProcessEnds ==
  /\ Crash(me)
  /\ Coordinator!NewProcess
  /\ synced' = TRUE

Running == up[me] /\ UNCHANGED raft

\* Mutant: the library is asked for its role, not the flag.
BugPoll(c) ==
  /\ Running
  /\ Coordinator!MayCall /\ Coordinator!GoTo(c, "idle", "decide")
  /\ op' = [op EXCEPT ![c] = "coordinate_transition"]
  /\ seen' = [seen EXCEPT ![c] = role[me] = "LEADER"]
  /\ synced' = TRUE
  /\ UNCHANGED <<quorum, constructed, current_state, healthy, metrics, announced>>

\* The election is read, by the constructor or in a poll.  What is read is good if the library's thread does not still
\* have to set the flag.
Poll(c) ==
  /\ Running
  /\ Coordinator!CoordinateTransition(c)
  /\ synced' = (callback[me] # "called")

Construct(c) ==
  /\ Running
  /\ Coordinator!Construct(c)
  /\ synced' = (callback[me] # "called")

\* demote_from_leader of the Raft adapter leaves the flag and the role as they are.
GiveUp(c, kind) ==
  /\ Running
  /\ Coordinator!Demote(c, kind)
  /\ synced' = FALSE

Continue(c) ==
  /\ Running
  /\ Coordinator!Continue(c)
  /\ UNCHANGED synced

HealthOrQuorumChanges ==
  /\ Running
  /\ Coordinator!MarkHealth \/ Coordinator!QuorumChanges
  /\ UNCHANGED synced

Next ==
  \/ ClusterStep
  \/ ProcessEnds
  \/ \E c \in Callers :
       \/ Construct(c)
       \/ Poll(c)
       \/ \E kind \in Coordinator!Demotions : GiveUp(c, kind)
       \/ Continue(c)
  \/ HealthOrQuorumChanges

\* The library's thread runs, the coordinator is polled and its methods return.
Fairness ==
  /\ WF_vars(HandleStateChange(me) /\ ClusterStep)
  /\ WF_vars(NotifyListener(me) /\ ClusterStep)
  /\ \A c \in Callers : WF_vars(Construct(c)) /\ WF_vars(Continue(c)) /\ WF_vars(Poll(c))

Spec == Init /\ [][Next]_vars /\ Fairness

-------------------------------------------------------------------------------
\* Every variable keeps its type.
TypeOK == RaftTypeOK /\ Coordinator!TypeOK /\ synced \in BOOLEAN

\* Over a cluster that elects, crashes and splits, the coordinator does what it may do
\* over a port that says anything.
ImplementsFailover == Coordinator!Safety

\* A coordinator that was polled knows the role of its node: if the flag was up to date
\* at the last poll, and leadership has neither changed nor been given up since, then
\* the node is PRIMARY exactly if the Raft library has made it the leader, and whoever
\* listens to its events was told so last.
StateFollowsRole ==
  synced /\ (\A c \in Callers : pc[c] = "idle")
    => (current_state = "PRIMARY" <=> role[me] = "LEADER") /\ announced = current_state

\* From a role of the library to the state of the node: a node that stays leader is
\* PRIMARY again and again, and one that stays out of leadership is REPLICA for good,
\* through all elections, partitions and crashes around it and of itself.
FollowsRole ==
  /\ <>[](up[me] /\ role[me] = "LEADER") => []<>(current_state = "PRIMARY")
  /\ <>[](role[me] # "LEADER") => <>[](current_state = "REPLICA")
===============================================================================
