---------------------------- MODULE Failover_proofs ----------------------------
(***************************************************************************)
(* Proofs about Failover.tla.  Type correctness holds for any callers; the *)
(* rest holds for any number of threads that call the coordinator one at a *)
(* time, which is what its docstring leaves to them.                       *)
(***************************************************************************)
EXTENDS Failover, TLAPS

\* The calls are serialised, or there is only one thread to make them.
OneAtATime == Serialised \/ \A c, d \in Callers : c = d

\* At most one caller is inside a method.
Exclusive == \A c, d \in Callers : pc[c] # "idle" /\ pc[d] # "idle" => c = d

\* What the step a caller is at says of its method and of the state.  seen is FALSE
\* throughout a demotion, so the steps that skip the gauges leave the node a replica.
CallerInv(c) ==
  /\ pc[c] = "decide" => op[c] = "coordinate_transition"
  /\ pc[c] \in {"assign", "emit"} => op[c] # "__init__"
  /\ pc[c] \in {"assign", "emit"} /\ op[c] \in Demotions => ~seen[c]
  /\ pc[c] = "assign" => current_state # StateFor(seen[c])
  /\ pc[c] = "emit" => current_state = StateFor(seen[c]) /\ announced # current_state

IndInv ==
  /\ TypeOK
  /\ Exclusive
  /\ \A c \in Callers : CallerInv(c)
  /\ EventsTellState
  /\ PrimaryIsVisible

USE DEF GoTo, election, StateFor, NodeState, PRIMARY, REPLICA, Gauges

-------------------------------------------------------------------------------
LEMMA InitTypeOK == Init => TypeOK
  <1> SUFFICES ASSUME Init PROVE TypeOK
    OBVIOUS
  <1>1. elected \in BOOLEAN /\ quorum \in BOOLEAN
    BY DEF Init
  <1>2. metrics \in [node_state : BOOLEAN, leader_elected : BOOLEAN]
    BY <1>1 DEF Init
  <1>3. QED
    BY <1>1, <1>2 DEF Init, TypeOK, PCs, Ops

\* The steps inside a method keep the types, whatever it goes on with.
LEMMA MethodKeepsTypes ==
  ASSUME TypeOK, NEW c \in Callers, Continue(c)
  PROVE  TypeOK'
<1> USE DEF TypeOK, PCs, Ops
<1>decide. CASE Decide(c)
  <2>1. pc'[c] \in PCs
    BY <1>decide DEF Decide
  <2> QED
    BY <1>decide, <2>1 DEF Decide
<1>tell. CASE Assign(c) \/ Emit(c)
  BY <1>tell DEF Assign, Emit
<1>gauges. CASE UpdateStateMetrics(c)
  BY <1>gauges DEF UpdateStateMetrics
<1> QED
  BY <1>decide, <1>tell, <1>gauges DEF Continue

\* What a new process starts with has the types of what the last one left.
LEMMA NewProcessKeepsTypes ==
  ASSUME TypeOK, NewProcess
  PROVE  TypeOK'
<1>1. elected' \in BOOLEAN /\ quorum' \in BOOLEAN
  BY DEF TypeOK, NewProcess
<1>2. metrics' \in [node_state : BOOLEAN, leader_elected : BOOLEAN]
  BY DEF NewProcess
<1> QED
  BY <1>1, <1>2 DEF TypeOK, PCs, Ops, NewProcess

LEMMA TypeInvariance == Safety => []TypeOK
<1>poll. ASSUME TypeOK, NEW c \in Callers, CoordinateTransition(c)
         PROVE  TypeOK'
  BY <1>poll DEF TypeOK, PCs, Ops, CoordinateTransition
<1>demotion. ASSUME TypeOK, NEW c \in Callers, NEW kind \in Demotions, Demote(c, kind)
             PROVE  TypeOK'
  BY <1>demotion DEF TypeOK, PCs, Ops, Demote
<1>constructor. ASSUME TypeOK, NEW c \in Callers, Construct(c)
                PROVE  TypeOK'
  BY <1>constructor DEF TypeOK, PCs, Ops, Construct
<1>others. ASSUME TypeOK,
                  MarkHealth \/ ElectionChanges \/ QuorumChanges \/ UNCHANGED vars
           PROVE  TypeOK'
  BY <1>others DEF TypeOK, MarkHealth, ElectionChanges, QuorumChanges, vars
<1>next. TypeOK /\ [Next]_vars => TypeOK'
  BY <1>poll, <1>demotion, <1>constructor, <1>others, MethodKeepsTypes, NewProcessKeepsTypes DEF Next
<1> QED
  BY InitTypeOK, <1>next, PTL DEF Safety

\* Type correctness of the coordinator and its port.
THEOREM TypeCorrect == Spec => []TypeOK
  BY TypeInvariance, PTL DEF Spec

-------------------------------------------------------------------------------
\* A step of one caller leaves the others outside, if it left them there before.
LEMMA ExclusiveStep ==
  ASSUME OneAtATime, TypeOK, Exclusive, [Next]_vars
  PROVE  Exclusive'
<1> USE DEF TypeOK, Exclusive, OneAtATime, MayCall
<1>1. ASSUME NEW c \in Callers, Construct(c) \/ CoordinateTransition(c) PROVE Exclusive'
  BY <1>1 DEF Construct, CoordinateTransition
<1>2. ASSUME NEW c \in Callers, NEW kind \in Demotions, Demote(c, kind) PROVE Exclusive'
  BY <1>2 DEF Demote
<1>3. ASSUME NEW c \in Callers, Continue(c) PROVE Exclusive'
  BY <1>3 DEF Continue, Decide, Assign, Emit, UpdateStateMetrics
<1>4. CASE NewProcess
  BY <1>4 DEF NewProcess
<1>5. CASE MarkHealth \/ ElectionChanges \/ QuorumChanges \/ UNCHANGED vars
  BY <1>5 DEF MarkHealth, ElectionChanges, QuorumChanges, vars
<1>6. QED
  BY <1>1, <1>2, <1>3, <1>4, <1>5 DEF Next

\* When calls do not overlap, where the one caller is decides what the last event and
\* the gauge say.
LEMMA Invariance ==
  ASSUME OneAtATime
  PROVE  Safety => []IndInv
<1> DEFINE Told == EventsTellState /\ PrimaryIsVisible
<1> DEFINE Good == (\A c \in Callers : CallerInv(c)) /\ Told
<1>1. Init => IndInv
  <2> SUFFICES ASSUME Init PROVE IndInv
    OBVIOUS
  <2>1. TypeOK
    BY InitTypeOK
  <2>2. (\A c \in Callers : pc[c] = "idle") /\ announced = current_state
    BY DEF Init
  <2>3. current_state = PRIMARY => metrics.node_state
    BY DEF Init
  <2>4. QED
    BY <2>1, <2>2, <2>3 DEF IndInv, Exclusive, CallerInv, EventsTellState, PrimaryIsVisible
<1>2. IndInv /\ [Next]_vars /\ TypeOK' => IndInv'
  <2> SUFFICES ASSUME IndInv, [Next]_vars, TypeOK' PROVE Good'
    BY ExclusiveStep DEF IndInv
  <2> USE DEF IndInv, TypeOK, CallerInv, Exclusive, EventsTellState, PrimaryIsVisible, MayCall
  <2>0. ASSUME NEW c \in Callers, Construct(c) PROVE Good'
    BY <2>0 DEF Construct
  <2>1. ASSUME NEW c \in Callers, CoordinateTransition(c) PROVE Good'
    <3>1. /\ pc' = [pc EXCEPT ![c] = "decide"] /\ pc[c] = "idle"
          /\ op' = [op EXCEPT ![c] = "coordinate_transition"]
          /\ seen' = [seen EXCEPT ![c] = elected]
          /\ UNCHANGED <<current_state, metrics, announced>>
      BY <2>1 DEF CoordinateTransition
    <3>2. \A d \in Callers : CallerInv(d)'
      BY <3>1
    <3>3. Told'
      BY <3>1
    <3> QED
      BY <3>2, <3>3
  <2>2. ASSUME NEW c \in Callers, NEW kind \in Demotions, Demote(c, kind) PROVE Good'
    BY <2>2 DEF Demote, Demotions
  <2>3. ASSUME NEW c \in Callers, Decide(c) PROVE Good'
    BY <2>3 DEF Decide, Demotions
  <2>4. ASSUME NEW c \in Callers, Assign(c) PROVE Good'
    BY <2>4 DEF Assign
  <2>5. ASSUME NEW c \in Callers, Emit(c) PROVE Good'
    BY <2>5 DEF Emit, Ops
  <2>6. ASSUME NEW c \in Callers, UpdateStateMetrics(c) PROVE Good'
    BY <2>6 DEF UpdateStateMetrics
  <2>7. CASE NewProcess
    BY <2>7 DEF NewProcess
  <2>8. CASE MarkHealth \/ ElectionChanges \/ QuorumChanges \/ UNCHANGED vars
    BY <2>8 DEF MarkHealth, ElectionChanges, QuorumChanges, vars
  <2> QED
    BY <2>0, <2>1, <2>2, <2>3, <2>4, <2>5, <2>6, <2>7, <2>8 DEF Continue, Next
<1>3. QED
  BY <1>1, <1>2, TypeInvariance, PTL DEF Safety

\* The last event tells of the node's state, however the election flickers while
\* a method runs, and whichever thread made the call.
THEOREM ListenersKnowState ==
  ASSUME OneAtATime
  PROVE  Spec => []EventsTellState
<1>1. IndInv => EventsTellState
  BY DEF IndInv
<1>2. QED
  BY <1>1, Invariance, PTL DEF Spec

\* A node that is PRIMARY shows as PRIMARY in the node-state gauge.
THEOREM PrimaryNeverHidden ==
  ASSUME OneAtATime
  PROVE  Spec => []PrimaryIsVisible
<1>1. IndInv => PrimaryIsVisible
  BY DEF IndInv
<1>2. QED
  BY <1>1, Invariance, PTL DEF Spec

\* No event is redundant: each tells of the other state than the one before.
THEOREM NoRedundantEvent ==
  ASSUME OneAtATime
  PROVE  Spec => EventsAlternate
<1> DEFINE Alternates == \A c \in Callers : Emit(c) => announced' # announced
<1>1. IndInv => Alternates
  BY DEF IndInv, CallerInv, Emit
<1>2. QED
  BY <1>1, Invariance, PTL DEF Spec, Safety, EventsAlternate
===============================================================================
