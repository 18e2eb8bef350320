-------------------------- MODULE RaftFailover_proofs --------------------------
(***************************************************************************)
(* Proofs about RaftFailover.tla, for any cluster and any number of        *)
(* threads that call the coordinator one at a time.  What Failover_proofs  *)
(* shows over a port that says anything carries over through the           *)
(* refinement, and is what the rest is proved from.                        *)
(***************************************************************************)
EXTENDS RaftFailover, TLAPS

CoordinatorProofs == INSTANCE Failover_proofs WITH
  Serialised <- TRUE, Ports <- {"raft"}, port <- "raft", elected <- is_leader[me]

\* Where the callback of the node is says what its flag tells of.
FlagInv ==
  /\ callback[me] # "called" => (is_leader[me] <=> role[me] = "LEADER")
  /\ callback[me] = "called" => (is_leader[me] <=> old_state[me] = "LEADER")

\* While synced, the flag tells of the role, and the coordinator has followed the flag,
\* or one of its callers is about to.
Followed ==
  /\ is_leader[me] <=> role[me] = "LEADER"
  /\ \A c \in Callers : pc[c] # "idle" => (seen[c] <=> is_leader[me])
  /\ (\A c \in Callers : pc[c] \in {"idle", "emit", "metrics"})
       => (current_state = "PRIMARY" <=> is_leader[me])

ElectionInv == RaftTypeOK /\ FlagInv

-------------------------------------------------------------------------------
\* The steps of the cluster keep the types of the election, and the flag in step with
\* the callback.
LEMMA RaftStep ==
  ASSUME ElectionInv, RaftNext
  PROVE  ElectionInv'
<1> USE MeAssumption DEF ElectionInv, RaftTypeOK, FlagInv, Roles
<1>1. ASSUME NEW n \in Nodes, NEW from \in Roles, NEW to \in Roles, SetState(n, from, to)
      PROVE  ElectionInv'
  BY <1>1 DEF SetState
<1>2. ASSUME NEW n \in Nodes, Crash(n) PROVE ElectionInv'
  BY <1>2 DEF Crash
<1>3. ASSUME NEW n \in Nodes, Restart(n) PROVE ElectionInv'
  BY <1>3 DEF Restart
<1>4. ASSUME NEW n \in Nodes, HandleStateChange(n) PROVE ElectionInv'
  <2>1. CASE old_state[n] = "LEADER" <=> role[n] = "LEADER"
    BY <1>4, <2>1 DEF HandleStateChange
  <2>2. CASE ~(old_state[n] = "LEADER" <=> role[n] = "LEADER")
    BY <1>4, <2>2 DEF HandleStateChange
  <2>3. QED
    BY <2>1, <2>2
<1>5. ASSUME NEW n \in Nodes, NotifyListener(n) PROVE ElectionInv'
  BY <1>5 DEF NotifyListener
<1>6. CASE Partition
  BY <1>6, ClusterAssumption DEF Partition, node
<1>7. QED
  BY <1>1, <1>2, <1>3, <1>4, <1>5, <1>6 DEF RaftNext, StartElection, WinElection, StepDown

\* Only the callback changes the flag, and it has returned from its lock then.
LEMMA FlagChanges ==
  ASSUME ElectionInv, RaftNext, callback'[me] = "called"
  PROVE  is_leader'[me] = is_leader[me]
<1> USE MeAssumption DEF ElectionInv, RaftTypeOK
<1>1. ASSUME NEW n \in Nodes, HandleStateChange(n) PROVE is_leader'[me] = is_leader[me]
  BY <1>1 DEF HandleStateChange
<1>2. ASSUME NEW n \in Nodes, Crash(n) PROVE is_leader'[me] = is_leader[me]
  BY <1>2 DEF Crash
<1>3. QED
  BY <1>1, <1>2 DEF RaftNext, StartElection, WinElection, StepDown, SetState, Restart,
     NotifyListener, Partition, node

LEMMA ElectionInvariance == Init /\ [][Next]_vars => []ElectionInv
<1>1. Init => ElectionInv
  BY MeAssumption DEF Init, RaftInit, ElectionInv, RaftTypeOK, FlagInv, Roles
<1>2. ElectionInv /\ UNCHANGED raft => ElectionInv'
  BY DEF ElectionInv, RaftTypeOK, FlagInv, raft, node
<1>3. ElectionInv /\ [Next]_vars => ElectionInv'
  <2> SUFFICES ASSUME ElectionInv, [Next]_vars PROVE ElectionInv'
    OBVIOUS
  <2>1. CASE ClusterStep
    BY <2>1, RaftStep DEF ClusterStep
  <2>2. CASE ProcessEnds
    BY <2>2, RaftStep, MeAssumption DEF ProcessEnds, RaftNext
  <2>3. CASE UNCHANGED raft
    BY <2>3, <1>2
  <2>4. QED
    BY <2>1, <2>2, <2>3 DEF Next, Construct, Poll, GiveUp, Continue, HealthOrQuorumChanges, Running, vars
<1>4. QED
  BY <1>1, <1>3, PTL

-------------------------------------------------------------------------------
\* Whatever the cluster does to the flag of this node is something that the port of
\* Failover may do.
THEOREM ImplementsFreePort == Spec => ImplementsFailover
<1>1. Init => Coordinator!Init
  BY DEF Init
<1>2. ASSUME ElectionInv, ElectionInv', [Next]_vars
      PROVE  [Coordinator!Next]_(Coordinator!vars)
  <2> USE DEF Coordinator!vars, Coordinator!election
  <2>1. CASE ClusterStep
    <3>1. UNCHANGED coordinator
      BY <2>1 DEF ClusterStep
    <3>2. CASE is_leader'[me] = is_leader[me]
      BY <3>1, <3>2 DEF coordinator
    <3>3. CASE is_leader'[me] # is_leader[me]
      <4>1. is_leader'[me] = ~is_leader[me]
        BY <1>2, <3>3, MeAssumption DEF ElectionInv, RaftTypeOK
      <4>2. Coordinator!ElectionChanges
        BY <3>1, <4>1 DEF Coordinator!ElectionChanges, coordinator
      <4>3. QED
        BY <4>2 DEF Coordinator!Next
    <3>4. QED
      BY <3>2, <3>3
  <2>2. CASE ProcessEnds
    BY <2>2 DEF ProcessEnds, Coordinator!Next
  <2>3. ASSUME NEW c \in Callers, Construct(c) \/ Poll(c) PROVE Coordinator!Next
    BY <2>3 DEF Construct, Poll, Coordinator!Next
  <2>4. ASSUME NEW c \in Callers, NEW kind \in Coordinator!Demotions, GiveUp(c, kind)
        PROVE  Coordinator!Next
    BY <2>4 DEF GiveUp, Coordinator!Next
  <2>5. ASSUME NEW c \in Callers, Continue(c) PROVE Coordinator!Next
    BY <2>5 DEF Continue, Coordinator!Next
  <2>6. CASE HealthOrQuorumChanges
    BY <2>6 DEF HealthOrQuorumChanges, Coordinator!Next
  <2>7. CASE UNCHANGED vars
    BY <2>7 DEF vars, raft, node, coordinator
  <2>8. QED
    BY <1>2, <2>1, <2>2, <2>3, <2>4, <2>5, <2>6, <2>7 DEF Next
<1>3. QED
  BY <1>1, <1>2, ElectionInvariance, PTL DEF Spec, ImplementsFailover, Coordinator!Safety

-------------------------------------------------------------------------------
\* The invariant of Failover_proofs holds over a cluster as well.
LEMMA CoordinatorInvariance == Coordinator!Safety => []CoordinatorProofs!IndInv
<1>1. CoordinatorProofs!OneAtATime
  BY DEF CoordinatorProofs!OneAtATime
<1>2. CoordinatorProofs!Safety => []CoordinatorProofs!IndInv
  BY <1>1, CoordinatorProofs!Invariance
<1>3. Coordinator!Init => CoordinatorProofs!Init
  BY DEF Coordinator!Init, CoordinatorProofs!Init,
      Coordinator!StateFor, CoordinatorProofs!StateFor,
      Coordinator!Gauges, CoordinatorProofs!Gauges,
      Coordinator!PRIMARY, CoordinatorProofs!PRIMARY,
      Coordinator!REPLICA, CoordinatorProofs!REPLICA
<1>4. [Coordinator!Next]_(Coordinator!vars) => [CoordinatorProofs!Next]_(CoordinatorProofs!vars)
  BY DEF Coordinator!Next, CoordinatorProofs!Next,
      Coordinator!vars, CoordinatorProofs!vars,
      Coordinator!CoordinateTransition, CoordinatorProofs!CoordinateTransition,
      Coordinator!Demote, CoordinatorProofs!Demote,
      Coordinator!Continue, CoordinatorProofs!Continue,
      Coordinator!Decide, CoordinatorProofs!Decide,
      Coordinator!Assign, CoordinatorProofs!Assign,
      Coordinator!Emit, CoordinatorProofs!Emit,
      Coordinator!UpdateStateMetrics, CoordinatorProofs!UpdateStateMetrics,
      Coordinator!MarkHealth, CoordinatorProofs!MarkHealth,
      Coordinator!ElectionChanges, CoordinatorProofs!ElectionChanges,
      Coordinator!QuorumChanges, CoordinatorProofs!QuorumChanges,
      Coordinator!NewProcess, CoordinatorProofs!NewProcess,
      Coordinator!Construct, CoordinatorProofs!Construct,
      Coordinator!MayCall, CoordinatorProofs!MayCall,
      Coordinator!GoTo, CoordinatorProofs!GoTo,
      Coordinator!StateFor, CoordinatorProofs!StateFor,
      Coordinator!Gauges, CoordinatorProofs!Gauges,
      Coordinator!Demotions, CoordinatorProofs!Demotions,
      Coordinator!PRIMARY, CoordinatorProofs!PRIMARY,
      Coordinator!REPLICA, CoordinatorProofs!REPLICA,
      Coordinator!election, CoordinatorProofs!election
<1>5. QED
  BY <1>2, <1>3, <1>4, PTL DEF CoordinatorProofs!Safety, Coordinator!Safety

\* Type correctness of the coordinator over its cluster.
THEOREM TypeCorrect == Spec => []TypeOK
<1>1. Init => synced \in BOOLEAN
  BY DEF Init
<1>2. synced \in BOOLEAN /\ ElectionInv' /\ ElectionInv /\ [Next]_vars => (synced \in BOOLEAN)'
  BY DEF Next, ClusterStep, ProcessEnds, Construct, Poll, GiveUp, Continue, HealthOrQuorumChanges, vars
<1>3. CoordinatorProofs!IndInv => Coordinator!TypeOK
  BY DEF CoordinatorProofs!IndInv, CoordinatorProofs!TypeOK, Coordinator!TypeOK,
         CoordinatorProofs!PCs, Coordinator!PCs, CoordinatorProofs!Ops, Coordinator!Ops,
         CoordinatorProofs!Demotions, Coordinator!Demotions,
         CoordinatorProofs!NodeState, Coordinator!NodeState,
         CoordinatorProofs!PRIMARY, Coordinator!PRIMARY,
         CoordinatorProofs!REPLICA, Coordinator!REPLICA
<1>4. ElectionInv => RaftTypeOK
  BY DEF ElectionInv
<1>5. QED
  BY <1>1, <1>2, <1>3, <1>4, ElectionInvariance, ImplementsFreePort, CoordinatorInvariance, PTL
  DEF Spec, ImplementsFailover, TypeOK

-------------------------------------------------------------------------------
\* A poll that read a good flag leads the state to the role, unless leadership changes
\* or is given up meanwhile: from it on the node is Followed.
LEMMA FollowedStep ==
  ASSUME ElectionInv, ElectionInv', CoordinatorProofs!IndInv, CoordinatorProofs!IndInv',
         synced => Followed, [Next]_vars, synced'
  PROVE  Followed'
<1> USE DEF Followed, Coordinator!StateFor, Coordinator!PRIMARY, Coordinator!REPLICA, Coordinator!GoTo
<1>1. /\ pc \in [Callers -> {"idle", "decide", "assign", "emit", "metrics"}]
      /\ seen \in [Callers -> BOOLEAN]
      /\ current_state \in {"PRIMARY", "REPLICA"}
      /\ \A c, d \in Callers : pc[c] # "idle" /\ pc[d] # "idle" => c = d
      /\ is_leader[me] \in BOOLEAN
  BY MeAssumption
  DEF CoordinatorProofs!IndInv, CoordinatorProofs!TypeOK, CoordinatorProofs!PCs,
      CoordinatorProofs!NodeState, CoordinatorProofs!PRIMARY, CoordinatorProofs!REPLICA,
      CoordinatorProofs!Exclusive, ElectionInv, RaftTypeOK
<1>2. CASE ClusterStep
  <2>1. synced /\ UNCHANGED coordinator /\ (role'[me] = "LEADER" <=> role[me] = "LEADER")
    BY <1>2 DEF ClusterStep
  <2>2. is_leader'[me] <=> is_leader[me]
    BY <2>1, FlagChanges, <1>2 DEF ElectionInv, FlagInv, ClusterStep
  <2>3. QED
    BY <2>1, <2>2 DEF coordinator
<1>3. CASE ProcessEnds
  BY <1>3, MeAssumption DEF ProcessEnds, Crash, Coordinator!NewProcess, ElectionInv, RaftTypeOK
<1>4. ASSUME NEW c \in Callers, Construct(c) \/ Poll(c) PROVE Followed'
  <2>1. CASE Construct(c)
    BY <1>1, <2>1 DEF Construct, Running, raft, node, Coordinator!Construct, ElectionInv, FlagInv
  <2>2. CASE Poll(c)
    BY <1>1, <2>2 DEF Poll, Running, raft, node, Coordinator!CoordinateTransition,
       Coordinator!MayCall, ElectionInv, FlagInv
  <2>3. QED
    BY <1>4, <2>1, <2>2
<1>5. ASSUME NEW c \in Callers, NEW kind \in Coordinator!Demotions, GiveUp(c, kind)
      PROVE  Followed'
  BY <1>5 DEF GiveUp
<1>6. ASSUME NEW c \in Callers, Continue(c) PROVE Followed'
  <2>1. synced /\ UNCHANGED raft
    BY <1>6 DEF Continue, Running
  <2>2. CASE Coordinator!Decide(c)
    BY <1>1, <2>1, <2>2 DEF Coordinator!Decide, raft, node
  <2>3. CASE Coordinator!Assign(c)
    BY <1>1, <2>1, <2>3 DEF Coordinator!Assign, raft, node
  <2>4. CASE Coordinator!Emit(c)
    BY <1>1, <2>1, <2>4 DEF Coordinator!Emit, raft, node
  <2>5. CASE Coordinator!UpdateStateMetrics(c)
    BY <1>1, <2>1, <2>5 DEF Coordinator!UpdateStateMetrics, raft, node
  <2>6. QED
    BY <1>6, <2>2, <2>3, <2>4, <2>5 DEF Continue, Coordinator!Continue
<1>7. CASE HealthOrQuorumChanges \/ UNCHANGED vars
  BY <1>7 DEF HealthOrQuorumChanges, Running, vars, raft, node, coordinator,
     Coordinator!MarkHealth, Coordinator!QuorumChanges
<1>8. QED
  BY <1>2, <1>3, <1>4, <1>5, <1>6, <1>7 DEF Next

\* The state of the node, and the last event, tell of the role that the Raft library
\* gave it, for any cluster, once a poll has read a flag that was up to date.
THEOREM StateTellsRole == Spec => []StateFollowsRole
<1> DEFINE Inv == synced => Followed
<1> DEFINE Known == ElectionInv /\ CoordinatorProofs!IndInv
<1>1. Init => Inv
  BY MeAssumption DEF Init, RaftInit, Followed, Coordinator!Init, Coordinator!StateFor,
     Coordinator!PRIMARY, Coordinator!REPLICA
<1>2. Inv /\ [Next]_vars /\ Known /\ Known' => Inv'
  BY FollowedStep
<1>3. Spec => []Known
  BY ElectionInvariance, ImplementsFreePort, CoordinatorInvariance, PTL DEF Spec, ImplementsFailover
<1>4. Inv /\ Known => StateFollowsRole
  BY DEF Followed, StateFollowsRole, CoordinatorProofs!IndInv, CoordinatorProofs!EventsTellState
<1>5. QED
  <2> HIDE DEF Inv, Known
  <2> QED
    BY <1>1, <1>2, <1>3, <1>4, PTL DEF Spec
===============================================================================
