------------------------------- MODULE Failover -------------------------------
(***************************************************************************)
(* FailoverCoordinator of litefs/usecases/failover_coordinator.py on one   *)
(* node, over the leader election port it is given.  The election changes  *)
(* under it at any time (py_leader sets its flag from Raft's own thread);  *)
(* the coordinator's methods are called by Callers, and a step is what a   *)
(* method does up to its next access to something that others change: the  *)
(* port, the node's state, the event emitter, the gauges.                  *)
(***************************************************************************)
EXTENDS Naturals

CONSTANTS
  Callers,     \* threads that call the coordinator
  Serialised,  \* they call it one at a time, "synchronized externally" (line 52)
  Ports        \* the election adapters that may be configured

ASSUME FailoverAssumption ==
  Serialised \in BOOLEAN /\ Ports \subseteq {"raft", "static", "in_memory"}

VARIABLES
  port,           \* leader_election, chosen once
  elected,        \* what is_leader_elected of the port answers
  quorum,         \* what is_quorum_reached answers; TRUE if there is no such method
  current_state,  \* _current_state
  healthy,        \* _healthy
  constructed,    \* __init__ has returned in this process
  metrics,        \* the two gauges
  pc,             \* pc[c]: the next step of caller c
  op,             \* op[c]: the method c is in, or was in last
  seen,           \* seen[c]: what c's method read from the election, or FALSE
  announced       \* history: the state the last emitted event tells of

election == <<port, elected, quorum>>
vars == <<election, constructed, current_state, healthy, metrics, pc, op, seen, announced>>

PRIMARY == "PRIMARY"
REPLICA == "REPLICA"
NodeState == {PRIMARY, REPLICA}
Demotions == {"graceful_handoff", "health_demotion", "quorum_loss_demotion"}
Ops == Demotions \cup {"coordinate_transition", "__init__"}
PCs == {"idle", "decide", "assign", "emit", "metrics"}

\* Mutant: a node that is not elected is given Raft's name for it.
BugStateForRole(is_elected) == IF is_elected THEN PRIMARY ELSE "FOLLOWER"

StateFor(is_elected) == IF is_elected THEN PRIMARY ELSE REPLICA

\* _update_state_metrics writes both gauges from what it finds now.
Gauges == [node_state |-> current_state = PRIMARY, leader_elected |-> elected]

\* A process without a coordinator yet: its gauges are at 0, it has announced nothing,
\* and its state stands for nothing.  Its Raft node leads nothing and is connected to
\* nobody, and an in-memory election has elected nobody.
Init ==
  /\ port \in Ports
  /\ elected \in IF port = "static" THEN BOOLEAN ELSE {FALSE}
  /\ quorum = (port # "raft")
  /\ constructed = FALSE
  /\ current_state = REPLICA
  /\ healthy = TRUE
  /\ metrics = [node_state |-> FALSE, leader_elected |-> FALSE]
  /\ pc = [c \in Callers |-> "idle"]
  /\ op = [c \in Callers |-> "__init__"]
  /\ seen = [c \in Callers |-> FALSE]
  /\ announced = REPLICA

GoTo(c, from, to) == pc[c] = from /\ pc' = [pc EXCEPT ![c] = to]

-------------------------------------------------------------------------------
\* can_become_leader; nothing in coordinate_transition asks it.
CanBecomeLeader == healthy /\ quorum

-------------------------------------------------------------------------------
\* The constructor takes the state from the election as it is now ...
Construct(c) ==
  /\ ~constructed /\ \A d \in Callers : pc[d] = "idle"
  /\ GoTo(c, "idle", "metrics")
  /\ op' = [op EXCEPT ![c] = "__init__"]
  /\ current_state' = StateFor(elected)
  /\ seen' = [seen EXCEPT ![c] = elected]
  /\ announced' = current_state'
  /\ UNCHANGED <<election, constructed, healthy, metrics>>

\* What synchronises the callers, if anything does, lets one in when no other is.
MayCall == constructed /\ (Serialised => \A c \in Callers : pc[c] = "idle")

\* coordinate_transition reads the election ...
CoordinateTransition(c) ==
  /\ MayCall
  /\ GoTo(c, "idle", "decide")
  /\ op' = [op EXCEPT ![c] = "coordinate_transition"]
  /\ seen' = [seen EXCEPT ![c] = elected]
  /\ UNCHANGED <<election, constructed, current_state, healthy, metrics, announced>>

\* Mutant: a node that lost the election keeps its state.
BugDecidePromotesOnly(c) ==
  /\ GoTo(c, "decide", IF seen[c] /\ current_state = REPLICA THEN "assign" ELSE "idle")
  /\ UNCHANGED <<election, constructed, current_state, healthy, metrics, op, seen, announced>>

\* Mutant: the current state is not looked at.
BugDecideAlways(c) ==
  /\ GoTo(c, "decide", "assign")
  /\ UNCHANGED <<election, constructed, current_state, healthy, metrics, op, seen, announced>>

\* ... and goes on only if the node's state is not the one that follows from it.
Decide(c) ==
  /\ GoTo(c, "decide", IF current_state = StateFor(seen[c]) THEN "idle" ELSE "assign")
  /\ UNCHANGED <<election, constructed, current_state, healthy, metrics, op, seen, announced>>

\* perform_graceful_handoff, demote_for_health and demote_for_quorum_loss act on
\* a primary only.  They call demote_from_leader, which does nothing on the Raft
\* and on the static port.
Demote(c, kind) ==
  /\ MayCall
  /\ current_state = PRIMARY
  /\ GoTo(c, "idle", "assign")
  /\ op' = [op EXCEPT ![c] = kind]
  /\ seen' = [seen EXCEPT ![c] = FALSE]
  /\ elected' = IF port = "in_memory" THEN FALSE ELSE elected
  /\ UNCHANGED <<port, quorum, constructed, current_state, healthy, metrics, announced>>

Assign(c) ==
  /\ GoTo(c, "assign", "emit")
  /\ current_state' = StateFor(seen[c])
  /\ UNCHANGED <<election, constructed, healthy, metrics, op, seen, announced>>

\* Mutant: only a promotion is announced.
BugEmitPromotionsOnly(c) ==
  /\ GoTo(c, "emit", IF op[c] = "coordinate_transition" THEN "metrics" ELSE "idle")
  /\ announced' = IF seen[c] THEN PRIMARY ELSE announced
  /\ UNCHANGED <<election, constructed, current_state, healthy, metrics, op, seen>>

\* Mutant: no transition is followed by an update of the gauges.
BugEmitWithoutMetrics(c) ==
  /\ GoTo(c, "emit", "idle")
  /\ announced' = StateFor(seen[c])
  /\ UNCHANGED <<election, constructed, current_state, healthy, metrics, op, seen>>

\* _emit_event: PROMOTED_TO_PRIMARY, or one of the four events that tell of a
\* demotion.  The demotions do not update the gauges.
Emit(c) ==
  /\ GoTo(c, "emit", IF op[c] = "coordinate_transition" THEN "metrics" ELSE "idle")
  /\ announced' = StateFor(seen[c])
  /\ UNCHANGED <<election, constructed, current_state, healthy, metrics, op, seen>>

\* The end of coordinate_transition, and of the constructor, which sets the gauges from
\* a second look at the election.
UpdateStateMetrics(c) ==
  /\ GoTo(c, "metrics", "idle")
  /\ metrics' = Gauges
  /\ constructed' = TRUE
  /\ UNCHANGED <<election, current_state, healthy, op, seen, announced>>

\* mark_healthy and mark_unhealthy.
MarkHealth ==
  /\ constructed
  /\ healthy' = ~healthy
  /\ UNCHANGED <<election, constructed, current_state, metrics, pc, op, seen, announced>>

\* The port's own life: Raft elects and deposes this node; an in-memory election
\* is told to elect it; a static one never changes.
ElectionChanges ==
  /\ \/ port = "raft" /\ elected' = ~elected
     \/ port = "in_memory" /\ ~elected /\ elected' = TRUE
  /\ UNCHANGED <<port, quorum, constructed, current_state, healthy, metrics, pc, op, seen, announced>>

QuorumChanges ==
  /\ port = "raft"
  /\ quorum' = ~quorum
  /\ UNCHANGED <<port, elected, constructed, current_state, healthy, metrics, pc, op, seen, announced>>

\* The process ends, in the middle of a method or not, and the next one starts, with an
\* election of its own: the designated node of a static one is the same.
NewProcess ==
  /\ elected' = (elected /\ port = "static")
  /\ quorum' = (port # "raft")
  /\ constructed' = FALSE
  /\ current_state' = REPLICA
  /\ healthy' = TRUE
  /\ metrics' = [node_state |-> FALSE, leader_elected |-> FALSE]
  /\ pc' = [c \in Callers |-> "idle"]
  /\ op' = [c \in Callers |-> "__init__"]
  /\ seen' = [c \in Callers |-> FALSE]
  /\ announced' = REPLICA
  /\ UNCHANGED port

-------------------------------------------------------------------------------
Continue(c) == Decide(c) \/ Assign(c) \/ Emit(c) \/ UpdateStateMetrics(c)

Next ==
  \/ \E c \in Callers :
       \/ Construct(c)
       \/ CoordinateTransition(c)
       \/ \E kind \in Demotions : Demote(c, kind)
       \/ Continue(c)
  \/ MarkHealth
  \/ ElectionChanges
  \/ QuorumChanges
  \/ NewProcess

\* The coordinator is constructed, a method that was called returns, and coordinate_transition is polled ("polling-
\* based failover coordination", failover_coordinator.py:117-118).
Fairness ==
  \A c \in Callers : WF_vars(Construct(c)) /\ WF_vars(Continue(c)) /\ WF_vars(CoordinateTransition(c))

\* What the coordinator may do, whether or not it is polled.
Safety == Init /\ [][Next]_vars

Spec == Safety /\ Fairness

-------------------------------------------------------------------------------
\* Every variable keeps its type.
TypeOK ==
  /\ port \in Ports
  /\ elected \in BOOLEAN
  /\ quorum \in BOOLEAN
  /\ current_state \in NodeState
  /\ healthy \in BOOLEAN
  /\ constructed \in BOOLEAN
  /\ metrics \in [node_state : BOOLEAN, leader_elected : BOOLEAN]
  /\ pc \in [Callers -> PCs]
  /\ op \in [Callers -> Ops]
  /\ seen \in [Callers -> BOOLEAN]
  /\ announced \in NodeState

\* Whoever listens to the events knows the node's state: outside the moment
\* between a transition and its event, the last event told of the state the node
\* is in, whichever of the five methods made the transition.
EventsTellState ==
  (\A c \in Callers : pc[c] # "emit") => announced = current_state

\* No redundant event (failover_transitions.feature:75-79): each event tells of
\* the other state than the event before it, however often coordination runs and
\* however the election flickers meanwhile.
EventsAlternate ==
  [][\A c \in Callers : Emit(c) => announced' # announced]_vars

\* The node-state gauge never hides a primary: with no transition under way, a
\* node that is PRIMARY shows as PRIMARY.
PrimaryIsVisible ==
  (\A c \in Callers : pc[c] \in {"idle", "decide"}) /\ current_state = PRIMARY
    => metrics.node_state

\* Polling makes the node follow the election: if the node stays elected it is
\* PRIMARY again and again (a demotion does not last), and if it stays
\* unelected it is REPLICA for good.
FollowsElection ==
  /\ <>[]elected => []<>(current_state = PRIMARY)
  /\ <>[]~elected => <>[](current_state = REPLICA)

-------------------------------------------------------------------------------
\* What the repository says and the code does not do; each is refuted by a run.

\* failover_transitions.feature:8-9: transitions are "guarded by health and quorum
\* checks".  A node that can_become_leader refuses for good, since it is unhealthy, is
\* from some time on not promoted any more, though it has a quorum.
PromotionGuarded ==
  <>[](quorum /\ ~CanBecomeLeader)
    => <>[][current_state = REPLICA => current_state' = REPLICA]_vars
===============================================================================
