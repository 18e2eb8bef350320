--------------------------- MODULE SplitBrain_proofs ---------------------------
(***************************************************************************)
(* Proofs about SplitBrain.tla and the election below it, for any finite   *)
(* cluster, any order of its members, any number of requests, and with     *)
(* each of the two detectors present or not.                               *)
(***************************************************************************)
EXTENDS SplitBrain, FiniteSetTheorems, TLAPS

\* Where the callback of a node is fixes how its flag and its listener stand to the
\* roles before and after the change.
CallbackInv ==
  \A n \in Nodes :
    /\ callback[n] = "none" => (is_leader[n] <=> role[n] = "LEADER") /\ (told[n] <=> is_leader[n])
    /\ callback[n] = "called" => (is_leader[n] <=> old_state[n] = "LEADER") /\ (told[n] <=> is_leader[n])
    /\ callback[n] = "notify" => (is_leader[n] <=> role[n] = "LEADER") /\ (told[n] <=> ~is_leader[n])

\* A detection under way has found every member that answered it and has led all
\* along, and none that never led.  One that let a write on found one at the most.
RequestInv(r) ==
  /\ pc[r] = "query" => index[r] <= Len(Members)
  /\ pc[r] = "detect" => index[r] > Len(Members)
  /\ pc[r] \in {"query", "detect"} =>
       /\ steady[r] \subseteq Leaders /\ Leaders \subseteq sometime[r]
       /\ steady[r] \cap answered[r] \subseteq found[r]
       /\ found[r] \subseteq sometime[r]
  /\ CursorDetects /\ pc[r] \in {"check_primary", "execute"} =>
       /\ stage[r] = "cursor" /\ index[r] > Len(Members)
       /\ steady[r] \cap answered[r] \subseteq found[r]
       /\ ~IsSplitBrain(r)

DetectionInv == \A r \in Requests : RequestInv(r)

IndInv == TypeOK /\ CallbackInv /\ DetectionInv

-------------------------------------------------------------------------------
LEMMA InitIndInv == Init => IndInv
  BY SplitBrainAssumption
  DEF Init, RaftInit, IndInv, TypeOK, RaftTypeOK, CallbackInv, DetectionInv, RequestInv, Roles, PCs, Outcomes

LEMMA MembersAreNodes ==
  ASSUME NEW i \in 1 .. Len(Members) PROVE Members[i] \in Nodes
  BY SplitBrainAssumption

\* The steps of the election keep its types and keep flag and listener in step.
LEMMA RaftStep == RaftTypeOK /\ CallbackInv /\ RaftNext => RaftTypeOK' /\ CallbackInv'
  <1> SUFFICES ASSUME RaftTypeOK, CallbackInv, RaftNext PROVE RaftTypeOK' /\ CallbackInv'
    OBVIOUS
  <1> USE DEF RaftTypeOK, CallbackInv, Roles
  <1>1. ASSUME NEW n \in Nodes, NEW from \in Roles, NEW to \in Roles, SetState(n, from, to)
        PROVE  RaftTypeOK' /\ CallbackInv'
    BY <1>1 DEF SetState
  <1>2. ASSUME NEW n \in Nodes, Crash(n) PROVE RaftTypeOK' /\ CallbackInv'
    <2>1. RaftTypeOK'
      BY <1>2 DEF Crash
    <2>2. /\ callback'[n] = "none" /\ role'[n] = "FOLLOWER" /\ ~is_leader'[n] /\ ~told'[n]
          /\ \A m \in Nodes \ {n} :
               /\ callback'[m] = callback[m] /\ role'[m] = role[m]
               /\ old_state'[m] = old_state[m]
               /\ is_leader'[m] = is_leader[m] /\ told'[m] = told[m]
      BY <1>2 DEF Crash
    <2>3. QED
      BY <2>1, <2>2
  <1>3. ASSUME NEW n \in Nodes, Restart(n) PROVE RaftTypeOK' /\ CallbackInv'
    BY <1>3 DEF Restart
  <1>4. ASSUME NEW n \in Nodes, HandleStateChange(n) PROVE RaftTypeOK' /\ CallbackInv'
    <2>1. CASE old_state[n] = "LEADER" <=> role[n] = "LEADER"
      BY <1>4, <2>1 DEF HandleStateChange
    <2>2. CASE ~(old_state[n] = "LEADER" <=> role[n] = "LEADER")
      <3>1. RaftTypeOK'
        BY <1>4, <2>2 DEF HandleStateChange
      <3>2. /\ callback'[n] = "notify" /\ role' = role /\ told' = told
            /\ (is_leader'[n] <=> role[n] = "LEADER")
            /\ \A m \in Nodes \ {n} :
                 /\ callback'[m] = callback[m] /\ old_state'[m] = old_state[m]
                 /\ is_leader'[m] = is_leader[m]
        BY <1>4, <2>2 DEF HandleStateChange
      <3>3. (is_leader[n] <=> old_state[n] = "LEADER") /\ (told[n] <=> is_leader[n])
        BY <1>4 DEF HandleStateChange
      <3>4. QED
        BY <3>1, <3>2, <3>3, <2>2
    <2>3. QED
      BY <2>1, <2>2
  <1>5. ASSUME NEW n \in Nodes, NotifyListener(n) PROVE RaftTypeOK' /\ CallbackInv'
    BY <1>5 DEF NotifyListener
  <1>6. CASE Partition
    BY <1>6, ClusterAssumption DEF Partition, node
  <1>7. QED
    BY <1>1, <1>2, <1>3, <1>4, <1>5, <1>6 DEF RaftNext, StartElection, WinElection, StepDown

-------------------------------------------------------------------------------
\* A step of r alone leaves the election and every other request as they are.
OnlyTouches(r) ==
  /\ UNCHANGED raft
  /\ \A s \in Requests \ {r} :
       /\ pc'[s] = pc[s] /\ stage'[s] = stage[s] /\ index'[s] = index[s]
       /\ found'[s] = found[s] /\ answered'[s] = answered[s]
       /\ steady'[s] = steady[s] /\ sometime'[s] = sometime[s]

LEMMA StepOfOne ==
  ASSUME NEW r \in Requests, IndInv, TypeOK', OnlyTouches(r), RequestInv(r)'
  PROVE  IndInv'
  <1>1. CallbackInv'
    BY DEF IndInv, CallbackInv, OnlyTouches, raft, node
  <1>2. Leaders' = Leaders
    BY DEF OnlyTouches, raft, node, Leaders
  <1>3. ASSUME NEW s \in Requests \ {r} PROVE RequestInv(s)'
    BY <1>2, <1>3 DEF IndInv, DetectionInv, RequestInv, OnlyTouches, IsSplitBrain
  <1>4. QED
    BY <1>1, <1>3 DEF IndInv, DetectionInv

LEMMA AnswerStep ==
  ASSUME NEW r \in Requests, NEW o \in Outcomes, IndInv, Answer(r, o), UNCHANGED raft
  PROVE  IndInv'
  <1> USE DEF Answer, Goto
  <1>1. TypeOK'
    BY SplitBrainAssumption DEF IndInv, TypeOK, RaftTypeOK, PCs, Outcomes, raft, node
  <1>2. OnlyTouches(r)
    BY DEF OnlyTouches, IndInv, TypeOK
  <1>3. RequestInv(r)'
    BY DEF RequestInv, IndInv, TypeOK
  <1>4. QED
    BY <1>1, <1>2, <1>3, StepOfOne

\* What a request does next when a detection begins, or is skipped.
LEMMA DetectStep ==
  ASSUME NEW r \in Requests, NEW who \in {"middleware", "cursor"}, IndInv,
         StartDetection(r, who), UNCHANGED raft,
         host' \in [Requests -> Nodes \cup {None}], outcome' \in [Requests -> Outcomes]
  PROVE  IndInv'
  <1> USE DEF StartDetection, Goto
  <1>1. TypeOK'
    <2>1. RaftTypeOK' /\ Leaders \in SUBSET Nodes /\ 1 \in 1 .. Len(Members) + 1
      BY SplitBrainAssumption DEF IndInv, TypeOK, RaftTypeOK, raft, node, Leaders
    <2>2. /\ pc' \in [Requests -> PCs] /\ stage' \in [Requests -> {"middleware", "cursor"}]
          /\ found' \in [Requests -> SUBSET Nodes] /\ answered' \in [Requests -> SUBSET Nodes]
          /\ steady' \in [Requests -> SUBSET Nodes] /\ sometime' \in [Requests -> SUBSET Nodes]
      BY <2>1 DEF IndInv, TypeOK, PCs
    <2>3. /\ index' \in [Requests -> 1 .. Len(Members) + 1]
          /\ \A s \in Requests : pc'[s] = "query" => index'[s] <= Len(Members)
      BY <2>1, SplitBrainAssumption DEF IndInv, TypeOK
    <2>4. QED
      BY <2>1, <2>2, <2>3 DEF TypeOK
  <1>2. OnlyTouches(r)
    BY DEF OnlyTouches, IndInv, TypeOK
  <1>3. RequestInv(r)'
    BY SplitBrainAssumption DEF RequestInv, IndInv, TypeOK, Leaders, raft, node
  <1>4. QED
    BY <1>1, <1>2, <1>3, StepOfOne

LEMMA ExecuteWriteStep ==
  ASSUME NEW r \in Requests, IndInv, ExecuteWrite(r), UNCHANGED raft,
         host' \in [Requests -> Nodes \cup {None}], outcome' \in [Requests -> Outcomes]
  PROVE  IndInv'
  <1>1. CASE CursorDetects
    BY <1>1, DetectStep DEF ExecuteWrite
  <1>2. CASE ~CursorDetects
    <2> USE <1>2 DEF ExecuteWrite, Goto
    <2>1. TypeOK'
      BY DEF IndInv, TypeOK, RaftTypeOK, PCs, raft, node
    <2>2. OnlyTouches(r)
      BY DEF OnlyTouches, IndInv, TypeOK
    <2>3. RequestInv(r)'
      BY DEF RequestInv, IndInv, TypeOK
    <2>4. QED
      BY <2>1, <2>2, <2>3, StepOfOne
  <1>3. QED
    BY <1>1, <1>2, SplitBrainAssumption

\* The member that is listed leads if it is listed as leading, and is listed so if it
\* leads and has answered.
LEMMA ListedStep ==
  ASSUME NEW r \in Requests, NEW leads \in BOOLEAN, IndInv, pc[r] = "query", Listed(r, leads),
         leads => Members[index[r]] \in Leaders,
         \/ UNCHANGED answered
         \/ /\ answered' = [answered EXCEPT ![r] = @ \cup {Members[index[r]]}]
            /\ Members[index[r]] \in Leaders => leads
  PROVE  IndInv'
  <1> DEFINE m == Members[index[r]]
  <1>1. index[r] \in 1 .. Len(Members) /\ Len(Members) \in Nat
    BY SplitBrainAssumption DEF IndInv, TypeOK
  <1>2. m \in Nodes
    BY <1>1, MembersAreNodes
  <1>3. /\ index'[r] = index[r] + 1 /\ stage' = stage
        /\ steady' = steady /\ sometime' = sometime
        /\ found'[r] = IF leads THEN found[r] \cup {m} ELSE found[r]
        /\ pc'[r] = IF index[r] = Len(Members) THEN "detect" ELSE "query"
        /\ Leaders' = Leaders
    BY DEF Listed, Goto, IndInv, TypeOK, raft, node, Leaders
  <1>4. TypeOK'
    <2>1. RaftTypeOK' /\ UNCHANGED <<host, stage, outcome, steady, sometime>>
      BY DEF IndInv, TypeOK, RaftTypeOK, raft, node, Listed
    <2>2. pc' \in [Requests -> PCs] /\ \A s \in Requests : pc'[s] = "query" => index'[s] <= Len(Members)
      BY <1>1, <1>3 DEF Listed, Goto, IndInv, TypeOK, PCs
    <2>3. index' \in [Requests -> 1 .. Len(Members) + 1]
      BY <1>1 DEF Listed, IndInv, TypeOK
    <2>4. found[r] \cup {m} \in SUBSET Nodes /\ answered[r] \cup {m} \in SUBSET Nodes
      BY <1>2 DEF IndInv, TypeOK
    <2>5. found' \in [Requests -> SUBSET Nodes]
      BY <2>4 DEF Listed, IndInv, TypeOK
    <2>6. answered' \in [Requests -> SUBSET Nodes]
      BY <2>4 DEF IndInv, TypeOK
    <2>7. QED
      BY <2>1, <2>2, <2>3, <2>5, <2>6 DEF IndInv, TypeOK
  <1>5. OnlyTouches(r)
    BY DEF OnlyTouches, IndInv, TypeOK, Listed, Goto
  <1>6. /\ steady[r] \subseteq Leaders /\ Leaders \subseteq sometime[r]
        /\ steady[r] \cap answered[r] \subseteq found[r] /\ found[r] \subseteq sometime[r]
    BY DEF IndInv, DetectionInv, RequestInv
  <1>7. answered'[r] = answered[r] \/ (answered'[r] = answered[r] \cup {m} /\ (m \in Leaders => leads))
    BY DEF IndInv, TypeOK
  <1>8. /\ steady[r] \cap answered'[r] \subseteq found'[r]
        /\ found'[r] \subseteq sometime[r]
    BY <1>3, <1>6, <1>7
  <1>9. RequestInv(r)'
    BY <1>1, <1>3, <1>6, <1>8 DEF RequestInv
  <1>10. QED
    BY <1>4, <1>5, <1>9, StepOfOne

LEMMA QueryStep ==
  ASSUME NEW r \in Requests, IndInv, QueryAnswered(r) \/ QueryUnanswered(r)
  PROVE  IndInv'
  <1>1. pc[r] = "query" /\ Members[index[r]] \in Nodes
    <2>1. pc[r] = "query"
      BY DEF QueryAnswered, QueryUnanswered
    <2>2. index[r] \in 1 .. Len(Members)
      BY <2>1, SplitBrainAssumption DEF IndInv, TypeOK
    <2>3. QED
      BY <2>1, <2>2, MembersAreNodes
  <1>2. CASE QueryAnswered(r)
    <2>1. /\ is_leader[Members[index[r]]] \in BOOLEAN
          /\ is_leader[Members[index[r]]] <=> Members[index[r]] \in Leaders
      BY <1>1 DEF IndInv, TypeOK, RaftTypeOK, Leaders
    <2>2. /\ Listed(r, is_leader[Members[index[r]]])
          /\ answered' = [answered EXCEPT ![r] = @ \cup {Members[index[r]]}]
      BY <1>2 DEF QueryAnswered
    <2>3. QED
      BY <1>1, <2>1, <2>2, ListedStep
  <1>3. CASE QueryUnanswered(r)
    <2>1. Listed(r, FALSE) /\ UNCHANGED answered
      BY <1>3 DEF QueryUnanswered
    <2>2. QED
      BY <1>1, <2>1, ListedStep
  <1>4. QED
    BY <1>2, <1>3

\* A request gets past a check without a new detection: by its cursor's detection that
\* raised no alarm, or by the marker.
LEMMA PassStep ==
  ASSUME NEW r \in Requests, NEW to \in {"check_primary", "execute"}, IndInv,
         Goto(r, to), UNCHANGED <<raft, host, detection, outcome, steady, sometime>>,
         \/ pc[r] = "check_primary"
         \/ pc[r] = "detect" /\ stage[r] # "middleware" /\ ~IsSplitBrain(r)
  PROVE  IndInv'
  <1> USE DEF Goto, detection
  <1>1. TypeOK'
    BY DEF IndInv, TypeOK, RaftTypeOK, PCs, raft, node
  <1>2. OnlyTouches(r)
    BY DEF OnlyTouches, IndInv, TypeOK
  <1>3. RequestInv(r)'
    BY DEF RequestInv, IndInv, DetectionInv, TypeOK, IsSplitBrain
  <1>4. QED
    BY <1>1, <1>2, <1>3, StepOfOne

LEMMA ProceedStep ==
  ASSUME NEW r \in Requests, IndInv, Proceed(r) \/ Abandon(r)
  PROVE  IndInv'
  <1>1. ASSUME ExecuteWrite(r), UNCHANGED <<raft, host, outcome>> PROVE IndInv'
    <2>1. host' \in [Requests -> Nodes \cup {None}] /\ outcome' \in [Requests -> Outcomes]
      BY <1>1 DEF IndInv, TypeOK
    <2>2. QED
      BY <1>1, <2>1, ExecuteWriteStep
  <1>2. CASE QueryAnswered(r) \/ QueryUnanswered(r)
    BY <1>2, QueryStep
  <1>3. CASE DetectionFails(r)
    BY <1>1, <1>3, AnswerStep DEF DetectionFails, Outcomes
  <1>4. CASE Alarm(r)
    <2>1. "unavailable" \in Outcomes /\ "split_brain_error" \in Outcomes
      BY DEF Outcomes
    <2>2. CASE stage[r] = "middleware"
      BY <1>4, <2>1, <2>2, AnswerStep DEF Alarm
    <2>3. CASE stage[r] # "middleware"
      BY <1>4, <2>1, <2>3, AnswerStep DEF Alarm
    <2>4. QED
      BY <2>2, <2>3
  <1>5. CASE SignalFails(r)
    BY <1>1, <1>5 DEF SignalFails
  <1>6. CASE NoAlarm(r)
    <2>1. CASE stage[r] = "middleware"
      BY <1>1, <1>6, <2>1 DEF NoAlarm
    <2>2. CASE stage[r] # "middleware"
      BY <1>6, <2>2, PassStep DEF NoAlarm
    <2>3. QED
      BY <2>1, <2>2
  <1>7. CASE CheckPrimary(r)
    BY <1>7, PassStep, AnswerStep DEF CheckPrimary, Outcomes
  <1>8. CASE Execute(r)
    BY <1>8, AnswerStep DEF Execute, Outcomes
  <1>9. CASE Abandon(r)
    BY <1>9, AnswerStep DEF Abandon, Outcomes
  <1>10. QED
    BY <1>2, <1>3, <1>4, <1>5, <1>6, <1>7, <1>8, <1>9 DEF Proceed

LEMMA ArriveStep ==
  ASSUME NEW r \in Requests, NEW n \in Entries, IndInv, Arrive(r, n)
  PROVE  IndInv'
  <1>1. /\ host' \in [Requests -> Nodes \cup {None}]
        /\ outcome' \in [Requests -> Outcomes]
        /\ UNCHANGED raft
    BY SplitBrainAssumption DEF Arrive, IndInv, TypeOK, Outcomes
  <1>2. CASE MiddlewareDetects
    BY <1>1, <1>2, DetectStep DEF Arrive
  <1>3. CASE ~MiddlewareDetects
    BY <1>1, <1>3, ExecuteWriteStep DEF Arrive
  <1>4. QED
    BY <1>2, <1>3, SplitBrainAssumption

\* A step of the cluster changes no request; the history variables follow it.
LEMMA ClusterKeeps == IndInv /\ ClusterStep => IndInv'
  <1> SUFFICES ASSUME IndInv, ClusterStep PROVE IndInv'
    OBVIOUS
  <1>1. RaftTypeOK' /\ CallbackInv'
    BY RaftStep DEF IndInv, TypeOK, ClusterStep
  <1>2. Leaders' \in SUBSET Nodes
    BY DEF Leaders
  <1>3. UNCHANGED <<pc, host, stage, index, found, answered, outcome>>
    BY DEF ClusterStep, requests, detection
  <1>4. /\ steady' \in [Requests -> SUBSET Nodes]
        /\ sometime' \in [Requests -> SUBSET Nodes]
    BY <1>2 DEF ClusterStep, IndInv, TypeOK
  <1>5. TypeOK'
    BY <1>1, <1>3, <1>4 DEF IndInv, TypeOK
  <1>6. ASSUME NEW r \in Requests PROVE RequestInv(r)'
    <2>1. CASE pc[r] \in {"query", "detect"}
      <3>1. steady'[r] = steady[r] \cap Leaders' /\ sometime'[r] = sometime[r] \cup Leaders'
        BY <2>1 DEF ClusterStep
      <3>2. QED
        BY <1>3, <2>1, <3>1 DEF IndInv, DetectionInv, RequestInv
    <2>2. CASE pc[r] \notin {"query", "detect"}
      <3>1. steady'[r] = steady[r] /\ sometime'[r] = sometime[r]
        BY <2>2 DEF ClusterStep
      <3>2. QED
        BY <1>3, <2>2, <3>1 DEF IndInv, DetectionInv, RequestInv, IsSplitBrain
    <2>3. QED
      BY <2>1, <2>2
  <1>7. QED
    BY <1>1, <1>5, <1>6 DEF IndInv, DetectionInv

LEMMA StepIndInv == IndInv /\ [Next]_vars => IndInv'
  <1> SUFFICES ASSUME IndInv, [Next]_vars PROVE IndInv'
    OBVIOUS
  <1>1. CASE Next
    BY <1>1, ProceedStep, ArriveStep, ClusterKeeps DEF Next
  <1>2. CASE UNCHANGED vars
    BY <1>2 DEF vars, raft, node, requests, detection, IndInv, TypeOK, RaftTypeOK,
                CallbackInv, DetectionInv, RequestInv, IsSplitBrain, Leaders
  <1>3. QED
    BY <1>1, <1>2

THEOREM Invariance == Spec => []IndInv
  BY InitIndInv, StepIndInv, PTL DEF Spec

-------------------------------------------------------------------------------
\* TypeOK for any cluster: every variable of the election and of the requests keeps
\* its type, and get_cluster_state never asks past the last member.
THEOREM TypeCorrect == Spec => []TypeOK
  BY Invariance, PTL DEF IndInv

\* FlagFollowsRole for any cluster: between callbacks, _is_leader and what the
\* listener heard last agree with the role that Raft gave the node.
THEOREM FlagTellsRole == Spec => []FlagFollowsRole
  <1>1. IndInv => FlagFollowsRole
    BY DEF IndInv, CallbackInv, FlagFollowsRole
  <1>2. QED
    BY <1>1, Invariance, PTL

\* ListenerHearsChanges for any cluster: on_leader_change is never called twice in a
\* row with the same value.
THEOREM ListenerHears == Spec => ListenerHearsChanges
  <1>1. ASSUME IndInv, [Next]_vars, NEW n \in Nodes, NotifyListener(n) PROVE told'[n] <=> ~told[n]
    <2>1. (told[n] <=> ~is_leader[n]) /\ (is_leader[n] <=> role[n] = "LEADER")
      BY <1>1 DEF IndInv, CallbackInv, NotifyListener
    <2>2. told'[n] <=> role[n] = "LEADER"
      BY <1>1 DEF NotifyListener, IndInv, TypeOK, RaftTypeOK
    <2>3. QED
      BY <2>1, <2>2
  <1>2. IndInv /\ [Next]_vars => [\A n \in Nodes : NotifyListener(n) => (told'[n] <=> ~told[n])]_raft
    BY <1>1
  <1>3. QED
    BY <1>2, Invariance, PTL DEF Spec, ListenerHearsChanges

\* AlarmIsFounded for any cluster: whenever a request is refused for a split brain, two
\* members at least led at some time while they were being asked.
THEOREM AlarmsFounded == Spec => AlarmIsFounded
  <1>1. ASSUME IndInv, NEW r \in Requests, Alarm(r) PROVE Cardinality(sometime[r]) > 1
    <2>1. found[r] \subseteq sometime[r] /\ sometime[r] \subseteq Nodes
      BY <1>1 DEF IndInv, DetectionInv, RequestInv, TypeOK, Alarm
    <2>2. IsFiniteSet(sometime[r])
      BY <2>1, ClusterAssumption, FS_Subset
    <2>3. /\ Cardinality(found[r]) <= Cardinality(sometime[r])
          /\ Cardinality(found[r]) \in Nat /\ Cardinality(sometime[r]) \in Nat
      BY <2>1, <2>2, FS_Subset, FS_CardinalityType
    <2>4. QED
      BY <1>1, <2>3 DEF Alarm, IsSplitBrain
  <1>2. IndInv => [\A r \in Requests : Alarm(r) => Cardinality(sometime[r]) > 1]_vars
    BY <1>1
  <1>3. QED
    BY <1>2, Invariance, PTL DEF AlarmIsFounded

\* NoWriteInSteadySplitBrain for any cluster: a cursor with a detector is never past its
\* check when two members led and answered throughout that check.
THEOREM NoWriteSteady == Spec => []NoWriteInSteadySplitBrain
  <1>1. ASSUME IndInv, CursorDetects, NEW r \in Requests, pc[r] \in {"check_primary", "execute"}
        PROVE  Cardinality(steady[r] \cap answered[r]) <= 1
    <2>1. /\ steady[r] \cap answered[r] \subseteq found[r] /\ found[r] \subseteq Nodes
          /\ ~(Cardinality(found[r]) > 1)
      BY <1>1 DEF IndInv, DetectionInv, RequestInv, TypeOK, IsSplitBrain
    <2>2. IsFiniteSet(found[r])
      BY <2>1, ClusterAssumption, FS_Subset
    <2>3. /\ Cardinality(steady[r] \cap answered[r]) <= Cardinality(found[r])
          /\ Cardinality(steady[r] \cap answered[r]) \in Nat /\ Cardinality(found[r]) \in Nat
      BY <2>1, <2>2, FS_Subset, FS_CardinalityType
    <2>4. QED
      BY <2>1, <2>3
  <1>2. IndInv => NoWriteInSteadySplitBrain
    BY <1>1 DEF NoWriteInSteadySplitBrain
  <1>3. QED
    BY <1>2, Invariance, PTL

\* DetectionPrecedesWrite for any cluster: a cursor with a detector comes to the write
\* only behind its own detection of all members.
THEOREM DetectionFirst == Spec => []DetectionPrecedesWrite
  <1>1. IndInv => DetectionPrecedesWrite
    BY DEF IndInv, DetectionInv, RequestInv, DetectionPrecedesWrite
  <1>2. QED
    BY <1>1, Invariance, PTL
===============================================================================
