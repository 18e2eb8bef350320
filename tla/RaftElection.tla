----------------------------- MODULE RaftElection -----------------------------
(***************************************************************************)
(* py_leader: a LeaderElectionNode on each node of the cluster.  It turns  *)
(* the role changes of the Raft library (PySyncObj) into a flag and into   *)
(* calls of a listener.  The library, the network and the processes are    *)
(* external: of Raft only what the code relies on is here, that a          *)
(* candidate needs a majority of the cluster to become leader, and that a  *)
(* leader that was voted out may not have heard of it yet.                 *)
(***************************************************************************)
EXTENDS Integers, FiniteSets

CONSTANTS
  Nodes,       \* the cluster
  Islands,     \* bound of the model: what a partition may cut off from the rest
  Contenders,  \* bound of the model: the nodes that stand for election
  Unstable     \* bound of the model: the nodes whose process may crash

ASSUME ClusterAssumption ==
  /\ IsFiniteSet(Nodes)
  /\ Islands \subseteq SUBSET Nodes
  /\ Contenders \subseteq Nodes /\ Unstable \subseteq Nodes

VARIABLES
  up,         \* the process of the node runs
  island,     \* the nodes on one side of the partition; {} when there is none
  role,       \* the library's state of a node
  old_state,  \* the role before the change the callback is about
  callback,   \* where _handle_state_change is
  is_leader,  \* _is_leader
  told        \* what on_leader_change was called with last

node == <<up, role, old_state, callback, is_leader, told>>
raft == <<node, island>>

Roles == {"FOLLOWER", "CANDIDATE", "LEADER"}

RaftInit ==
  /\ up = [n \in Nodes |-> TRUE]
  /\ island = {}
  /\ role = [n \in Nodes |-> "FOLLOWER"]
  /\ old_state = [n \in Nodes |-> "FOLLOWER"]
  /\ callback = [n \in Nodes |-> "none"]
  /\ is_leader = [n \in Nodes |-> FALSE]
  /\ told = [n \in Nodes |-> FALSE]

Reachable(m, n) == up[m] /\ up[n] /\ (m \in island <=> n \in island)

-------------------------------------------------------------------------------
\* The library moves n to another role and calls onStateChanged, in its own
\* thread: n takes no further step of Raft until the callback has returned.
SetState(n, from, to) ==
  /\ up[n] /\ callback[n] = "none"
  /\ role[n] = from
  /\ role' = [role EXCEPT ![n] = to]
  /\ old_state' = [old_state EXCEPT ![n] = from]
  /\ callback' = [callback EXCEPT ![n] = "called"]
  /\ UNCHANGED <<up, island, is_leader, told>>

StartElection(n) == n \in Contenders /\ SetState(n, "FOLLOWER", "CANDIDATE")

\* A majority voted for n: nodes it reaches, each of which had left LEADER to vote.
WinElection(n) ==
  /\ SetState(n, "CANDIDATE", "LEADER")
  /\ 2 * Cardinality({m \in Nodes : Reachable(m, n) /\ role[m] # "LEADER"}) > Cardinality(Nodes)

StepDown(n) == SetState(n, "CANDIDATE", "FOLLOWER") \/ SetState(n, "LEADER", "FOLLOWER")

Partition ==
  /\ island' \in Islands \ {island}
  /\ UNCHANGED node

\* Nothing of the election outlives the process: no journal is configured.
Crash(n) ==
  /\ n \in Unstable /\ up[n]
  /\ up' = [up EXCEPT ![n] = FALSE]
  /\ role' = [role EXCEPT ![n] = "FOLLOWER"]
  /\ old_state' = [old_state EXCEPT ![n] = "FOLLOWER"]
  /\ callback' = [callback EXCEPT ![n] = "none"]
  /\ is_leader' = [is_leader EXCEPT ![n] = FALSE]
  /\ told' = [told EXCEPT ![n] = FALSE]
  /\ UNCHANGED island

Restart(n) ==
  /\ ~up[n]
  /\ up' = [up EXCEPT ![n] = TRUE]
  /\ UNCHANGED <<island, role, old_state, callback, is_leader, told>>

-------------------------------------------------------------------------------
\* Mutant: every change of role is passed on, not only those into or out of LEADER.
BugHandleEveryChange(n) ==
  /\ callback[n] = "called"
  /\ is_leader' = [is_leader EXCEPT ![n] = role[n] = "LEADER"]
  /\ callback' = [callback EXCEPT ![n] = "notify"]
  /\ old_state' = [old_state EXCEPT ![n] = role[n]]
  /\ UNCHANGED <<up, island, role, told>>

\* Mutant: only winning an election counts as a change.
BugHandleGainOnly(n) ==
  /\ callback[n] = "called"
  /\ IF role[n] = "LEADER"
       THEN is_leader' = [is_leader EXCEPT ![n] = TRUE] /\ callback' = [callback EXCEPT ![n] = "notify"]
       ELSE UNCHANGED is_leader /\ callback' = [callback EXCEPT ![n] = "none"]
  /\ old_state' = [old_state EXCEPT ![n] = role[n]]
  /\ UNCHANGED <<up, island, role, told>>

\* _handle_state_change, up to the release of the lock.
HandleStateChange(n) ==
  /\ callback[n] = "called"
  /\ IF old_state[n] = "LEADER" <=> role[n] = "LEADER"
       THEN /\ callback' = [callback EXCEPT ![n] = "none"]
            /\ UNCHANGED is_leader
       ELSE /\ is_leader' = [is_leader EXCEPT ![n] = role[n] = "LEADER"]
            /\ callback' = [callback EXCEPT ![n] = "notify"]
  /\ old_state' = [old_state EXCEPT ![n] = role[n]]
  /\ UNCHANGED <<up, island, role, told>>

\* _on_leader_change is called after the lock was released.
NotifyListener(n) ==
  /\ callback[n] = "notify"
  /\ told' = [told EXCEPT ![n] = role[n] = "LEADER"]
  /\ callback' = [callback EXCEPT ![n] = "none"]
  /\ UNCHANGED <<up, island, role, old_state, is_leader>>

RaftNext ==
  \/ \E n \in Nodes :
       \/ StartElection(n) \/ WinElection(n) \/ StepDown(n)
       \/ Crash(n) \/ Restart(n)
       \/ HandleStateChange(n) \/ NotifyListener(n)
  \/ Partition

RaftTypeOK ==
  /\ up \in [Nodes -> BOOLEAN]
  /\ island \in SUBSET Nodes
  /\ role \in [Nodes -> Roles]
  /\ old_state \in [Nodes -> Roles]
  /\ callback \in [Nodes -> {"none", "called", "notify"}]
  /\ is_leader \in [Nodes -> BOOLEAN]
  /\ told \in [Nodes -> BOOLEAN]

\* Whenever no callback is under way, the flag that the application reads and the
\* last thing the listener was told both say what role Raft gave the node.
FlagFollowsRole ==
  \A n \in Nodes : callback[n] = "none" =>
    (is_leader[n] <=> role[n] = "LEADER") /\ (told[n] <=> is_leader[n])

\* The listener hears of changes only: each call says the opposite of the last.
ListenerHearsChanges ==
  [][\A n \in Nodes : NotifyListener(n) => (told'[n] <=> ~told[n])]_raft
===============================================================================
