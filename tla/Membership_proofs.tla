--------------------------- MODULE Membership_proofs ---------------------------
(***************************************************************************)
(* Proofs about Membership.tla, for any number of nodes and any settings.  *)
(* The inductive invariant says what every status tells of the settings    *)
(* that led to it; that two quorums intersect is then a count of members.  *)
(***************************************************************************)
EXTENDS Membership, FiniteSetTheorems, FunctionTheorems, WellFoundedInduction, TLAPS

\* What the start of n made of its settings.
StatusExplained ==
  \A n \in Nodes :
    LET s == settings[n] IN
    /\ status[n] = "config_error" => ~Accepts(n, s)
    /\ status[n] \in {"no_node_id", "invalid_configuration", "static", "raft"} => Accepts(n, s)
    /\ status[n] = "no_node_id" => ~NodeIDResolves(s)
    /\ status[n] \in {"invalid_configuration", "static", "raft"} => NodeIDResolves(s)
    /\ status[n] = "static" => s.election = "static"
    /\ status[n] \in {"invalid_configuration", "raft"} => s.election = "raft"
    /\ status[n] = "invalid_configuration" => ~ElectionAccepts(ResolveNodeID(s), ClusterMembers(s))

RaftAsStarted ==
  \A n \in Running :
    LET s == settings[n] IN
    /\ ElectionAccepts(ResolveNodeID(s), ClusterMembers(s))
    /\ members[n] = ClusterMembers(s)
    /\ address[n] = FindSelfAddress(ResolveNodeID(s), ClusterMembers(s))
    /\ partners[n] = Range(members[n]) \ {address[n]}
    /\ quorum[n] = QuorumSize(members[n])

OnlyPartnersCounted ==
  \A n \in Nodes : counted[n] \subseteq partners[n] /\ (status[n] # "raft" => counted[n] = {})

IInv == TypeOK /\ StatusExplained /\ RaftAsStarted /\ OnlyPartnersCounted

-------------------------------------------------------------------------------
\* Settings name texts, and the list that the factory makes of them is one.
LEMMA MembersAreTexts ==
  ASSUME NEW s \in Settings
  PROVE  /\ ClusterMembers(s) \in Seq(Texts)
         /\ Len(ClusterMembers(s)) = Len(s.peers) + 1
         /\ ClusterMembers(s)[1] = s.self
         /\ \A i \in 1 .. Len(s.peers) : ClusterMembers(s)[i + 1] = s.peers[i]
BY DEF ClusterMembers, Settings

\* The range of a list is a finite set.
LEMMA RangeFinite ==
  ASSUME NEW S, NEW ms \in Seq(S)
  PROVE  IsFiniteSet(Range(ms))
<1>1. ms \in Surjection(1 .. Len(ms), Range(ms))
  <2>1. ms \in [1 .. Len(ms) -> S]
    OBVIOUS
  <2> QED
    BY <2>1, Fun_RangeProperties
<1>2. IsFiniteSet(1 .. Len(ms))
  BY FS_Interval
<1> QED
  BY <1>1, <1>2, FS_Surjection

LEMMA RangeBounded ==
  ASSUME NEW S, NEW ms \in Seq(S)
  PROVE  Cardinality(Range(ms)) <= Len(ms) /\ Cardinality(Range(ms)) \in Nat
<1>1. ms \in [1 .. Len(ms) -> S] /\ Len(ms) \in Nat
  OBVIOUS
<1>2. ms \in Surjection(1 .. Len(ms), Range(ms))
  BY <1>1, Fun_RangeProperties
<1>3. IsFiniteSet(1 .. Len(ms)) /\ Cardinality(1 .. Len(ms)) = Len(ms)
  <2>1. IsFiniteSet(1 .. Len(ms)) /\ Cardinality(1 .. Len(ms)) = IF 1 > Len(ms) THEN 0 ELSE Len(ms) - 1 + 1
    BY <1>1, FS_Interval
  <2> QED
    BY <1>1, <2>1
<1>4. Cardinality(Range(ms)) <= Len(ms)
  BY <1>2, <1>3, FS_Surjection
<1> QED
  BY <1>4, RangeFinite, FS_CardinalityType

\* The members are the node itself and its peers.
LEMMA RangeOfMembers ==
  ASSUME NEW s \in Settings
  PROVE  Range(ClusterMembers(s)) = Range(s.peers) \cup {s.self}
<1> DEFINE ms == ClusterMembers(s)
<1>1. /\ ms \in Seq(Texts) /\ Len(ms) = Len(s.peers) + 1 /\ ms[1] = s.self
      /\ \A i \in 1 .. Len(s.peers) : ms[i + 1] = s.peers[i]
  BY MembersAreTexts
<1>2. s.peers \in Seq(Texts) /\ Len(s.peers) \in Nat
  BY DEF Settings
<1> HIDE DEF ms
<1>3. \A x : x \in Range(ms) <=> \E i \in 1 .. Len(s.peers) + 1 : ms[i] = x
  BY <1>1, <1>2 DEF Range
<1>4. \A x : x \in Range(s.peers) <=> \E i \in 1 .. Len(s.peers) : s.peers[i] = x
  BY <1>2 DEF Range
<1>5. ASSUME NEW x \in Range(ms) PROVE x \in Range(s.peers) \cup {s.self}
  <2>1. PICK i \in 1 .. Len(s.peers) + 1 : ms[i] = x
    BY <1>3, <1>5
  <2>2. CASE i = 1
    BY <1>1, <2>1, <2>2
  <2>3. CASE i # 1
    <3>1. i - 1 \in 1 .. Len(s.peers) /\ (i - 1) + 1 = i
      BY <1>2, <2>1, <2>3
    <3>2. s.peers[i - 1] = x
      BY <1>1, <2>1, <3>1
    <3> QED
      BY <1>4, <3>1, <3>2
  <2> QED
    BY <2>2, <2>3
<1>6. ASSUME NEW x \in Range(s.peers) \cup {s.self} PROVE x \in Range(ms)
  <2>1. CASE x = s.self
    BY <1>1, <1>2, <1>3, <2>1
  <2>2. CASE x \in Range(s.peers)
    <3>1. PICK i \in 1 .. Len(s.peers) : s.peers[i] = x
      BY <1>4, <2>2
    <3>2. ms[i + 1] = x /\ i + 1 \in 1 .. Len(s.peers) + 1
      BY <1>1, <1>2, <3>1
    <3> QED
      BY <1>3, <3>2
  <2> QED
    BY <1>6, <2>1, <2>2
<1>7. Range(ms) = Range(s.peers) \cup {s.self}
  BY <1>5, <1>6
<1> QED
  BY <1>7 DEF ms

\* A set of indices has a first one.
LEMMA FirstIndex ==
  ASSUME NEW T \in SUBSET Nat, T # {}
  PROVE  \E i \in T : \A j \in T : i <= j
<1>1. PICK i \in T : \A j \in T : ~ (<<j, i>> \in OpToRel(<, Nat))
  BY NatLessThanWellFounded, WFMin
<1>2. \A j \in T : ~(j < i)
  BY <1>1 DEF OpToRel
<1> QED
  BY <1>2

\* _find_self_address returns a member on the host that was asked for, and the member
\* that comes first if that one is on it.
LEMMA SelfAddressIsMember ==
  ASSUME NEW ms \in Seq(Texts), NEW id, ElectionAccepts(id, ms)
  PROVE  /\ FindSelfAddress(id, ms) \in Range(ms)
         /\ FindSelfAddress(id, ms) \in Addresses
         /\ HostOf(ms[1]) = id => FindSelfAddress(id, ms) = ms[1]
<1> DEFINE T == {i \in DOMAIN ms : HostOf(ms[i]) = id}
           First(i) == /\ HostOf(ms[i]) = id
                       /\ \A j \in DOMAIN ms : HostOf(ms[j]) = id => i <= j
<1>1. T # {} /\ T \in SUBSET Nat
  BY DEF ElectionAccepts, Range
<1>2. \E i \in DOMAIN ms : First(i)
  BY <1>1, FirstIndex
<1> DEFINE k == CHOOSE i \in DOMAIN ms : First(i)
<1>3. k \in DOMAIN ms /\ First(k)
  BY <1>2
<1>4. FindSelfAddress(id, ms) = ms[k]
  BY DEF FindSelfAddress
<1>5. ms[k] \in Range(ms)
  BY <1>3 DEF Range
<1>6. ms[k] \in Addresses
  BY <1>3, <1>5 DEF Addresses, ElectionAccepts
<1>7. HostOf(ms[1]) = id => k = 1
  BY <1>3 DEF ElectionAccepts
<1> QED
  BY <1>4, <1>5, <1>6, <1>7

\* Two sets that are one apart both lie in the larger.
LEMMA LargerOfTwo ==
  ASSUME NEW A, NEW B, IsFiniteSet(A), IsFiniteSet(B), OneApart(A, B)
  PROVE  \E C \in {A, B} : /\ A \subseteq C /\ B \subseteq C
                           /\ Cardinality(C) <= Cardinality(A) + 1
                           /\ Cardinality(C) <= Cardinality(B) + 1
<1>0. Cardinality(A) \in Nat /\ Cardinality(B) \in Nat
  BY FS_CardinalityType
<1>1. PICK x \in A \cup B : A = B \cup {x} \/ B = A \cup {x}
  BY DEF OneApart
<1>2. CASE A = B \cup {x}
  <2>1. Cardinality(A) <= Cardinality(B) + 1
    BY <1>0, <1>2, FS_AddElement
  <2> QED
    BY <1>0, <1>2, <2>1
<1>3. CASE B = A \cup {x}
  <2>1. Cardinality(B) <= Cardinality(A) + 1
    BY <1>0, <1>3, FS_AddElement
  <2> QED
    BY <1>0, <1>3, <2>1
<1> QED
  BY <1>1, <1>2, <1>3

\* More than half of each of two sets that are one apart have something in common.
LEMMA MajoritiesIntersect ==
  ASSUME NEW A, NEW B, IsFiniteSet(A), IsFiniteSet(B), OneApart(A, B),
         NEW V \in SUBSET A, NEW W \in SUBSET B,
         Cardinality(V) >= Cardinality(A) \div 2 + 1,
         Cardinality(W) >= Cardinality(B) \div 2 + 1
  PROVE  V \cap W # {}
<1>1. PICK C \in {A, B} : /\ A \subseteq C /\ B \subseteq C
                          /\ Cardinality(C) <= Cardinality(A) + 1
                          /\ Cardinality(C) <= Cardinality(B) + 1
  BY LargerOfTwo
<1>2. IsFiniteSet(C) /\ IsFiniteSet(V) /\ IsFiniteSet(W)
  BY <1>1, FS_Subset
<1>3. /\ Cardinality(A) \in Nat /\ Cardinality(B) \in Nat /\ Cardinality(C) \in Nat
      /\ Cardinality(V) \in Nat /\ Cardinality(W) \in Nat
  BY <1>2, FS_CardinalityType
<1>4. V \cup W \in SUBSET C
  BY <1>1
<1>5. Cardinality(V \cup W) <= Cardinality(C) /\ Cardinality(V \cup W) \in Nat
  BY <1>2, <1>4, FS_Subset, FS_CardinalityType
<1>6. SUFFICES ASSUME V \cap W = {} PROVE FALSE
  OBVIOUS
<1>7. Cardinality(V \cup W) = Cardinality(V) + Cardinality(W)
  <2>1. Cardinality({}) = 0
    BY FS_EmptySet
  <2>2. Cardinality(V \cup W) = Cardinality(V) + Cardinality(W) - Cardinality(V \cap W)
    BY <1>2, FS_Union
  <2>3. V \cap W = {}
    BY <1>6
  <2>4. Cardinality(V \cap W) = 0
    BY <2>1, <2>3
  <2> QED
    BY <1>3, <2>2, <2>4
<1>8. Cardinality(C) = Cardinality(A) \/ Cardinality(C) = Cardinality(B)
  BY <1>1
<1> QED
  BY <1>1, <1>3, <1>5, <1>7, <1>8

-------------------------------------------------------------------------------
\* Initially nothing runs, so that nothing is to be explained.
LEMMA InitInv == Init => IInv
<1> SUFFICES ASSUME Init PROVE IInv
  OBVIOUS
<1>1. TypeOK
  BY DEF Init, TypeOK
<1>2. StatusExplained
  BY DEF Init, StatusExplained
<1>3. RaftAsStarted /\ OnlyPartnersCounted
  BY DEF Init, RaftAsStarted, OnlyPartnersCounted, Running
<1> QED
  BY <1>1, <1>2, <1>3 DEF IInv

\* A step that leaves the settings and the election of every node that runs as they
\* are keeps what was so of them.
LEMMA Unmoved ==
  ASSUME RaftAsStarted, UNCHANGED electionVars,
         \A n \in Nodes : status'[n] = "raft" => status[n] = "raft" /\ settings'[n] = settings[n]
  PROVE  RaftAsStarted'
BY DEF RaftAsStarted, electionVars, Running

\* A new election takes its address and its members from the settings, and they are
\* of the right types.
LEMMA StartTypes ==
  ASSUME TypeOK, NEW n \in Nodes, ElectionAccepts(ResolveNodeID(settings[n]), ClusterMembers(settings[n]))
  PROVE  LET s == settings[n]
             ms == ClusterMembers(s)
         IN /\ ms \in Seq(Addresses)
            /\ FindSelfAddress(ResolveNodeID(s), ms) \in Addresses
            /\ Range(ms) \in SUBSET Addresses
            /\ QuorumSize(ms) \in Nat
<1> DEFINE s == settings[n]
           ms == ClusterMembers(s)
<1>1. s \in Settings
  BY MembershipAssumption DEF TypeOK
<1>2. ms \in Seq(Texts) /\ ElectionAccepts(ResolveNodeID(s), ms)
  BY <1>1, MembersAreTexts
<1> HIDE DEF ms
<1>3. \A i \in 1 .. Len(ms) : ms[i] \in Addresses
  BY <1>2 DEF ElectionAccepts, Range, Addresses
<1>4. ms \in Seq(Addresses)
  BY <1>2, <1>3
<1>5. Range(ms) \in SUBSET Addresses
  BY <1>2, <1>3 DEF Range
<1>6. FindSelfAddress(ResolveNodeID(s), ms) \in Addresses
  BY <1>2, SelfAddressIsMember
<1>7. QuorumSize(ms) \in Nat
  BY <1>2 DEF QuorumSize
<1> QED
  BY <1>4, <1>5, <1>6, <1>7 DEF ms

LEMMA NextInv == IInv /\ [Next]_vars => IInv'
<1> SUFFICES ASSUME IInv, [Next]_vars PROVE IInv'
  OBVIOUS
<1> USE DEF IInv
<1>1. ASSUME NEW n \in Nodes, Configure(n) PROVE IInv'
  <2>1. /\ settings' \in [Nodes -> AllSettings]
        /\ \A m \in Nodes : m # n => settings'[m] = settings[m] /\ status'[m] = status[m]
        /\ status'[n] = "down"
        /\ status' \in [Nodes -> {"down", "static", "raft"} \cup Failures]
    BY <1>1 DEF Configure, SetStatus, TypeOK
  <2>2. TypeOK'
    BY <1>1, <2>1 DEF Configure, TypeOK, electionVars
  <2>3. StatusExplained'
    BY <2>1 DEF StatusExplained
  <2>4. RaftAsStarted'
    BY <1>1, <2>1, Unmoved DEF Configure
  <2>5. OnlyPartnersCounted'
    BY <1>1, <2>1 DEF Configure, OnlyPartnersCounted, electionVars
  <2> QED
    BY <2>2, <2>3, <2>4, <2>5
<1>2. ASSUME NEW n \in Nodes, StartFails(n) PROVE IInv'
  <2>1. /\ \A m \in Nodes : m # n => status'[m] = status[m]
        /\ status'[n] \in Failures /\ settings' = settings
        /\ status' \in [Nodes -> {"down", "static", "raft"} \cup Failures]
    BY <1>2 DEF StartFails, SetStatus, TypeOK, Failures
  <2>2. TypeOK'
    BY <1>2, <2>1 DEF StartFails, TypeOK, electionVars
  <2>3. StatusExplained'
    <3>1. \A s : status' = [status EXCEPT ![n] = s] => status'[n] = s
      BY DEF TypeOK
    <3> QED
      BY <1>2, <2>1, <3>1 DEF StartFails, SetStatus, StatusExplained
  <2>4. RaftAsStarted'
    BY <1>2, <2>1, Unmoved DEF StartFails, Failures
  <2>5. OnlyPartnersCounted'
    BY <1>2, <2>1 DEF StartFails, OnlyPartnersCounted, electionVars, Failures
  <2> QED
    BY <2>2, <2>3, <2>4, <2>5
<1>3. ASSUME NEW n \in Nodes, StartStatic(n) PROVE IInv'
  <2>1. /\ \A m \in Nodes : m # n => status'[m] = status[m]
        /\ status'[n] = "static" /\ settings' = settings
        /\ status' \in [Nodes -> {"down", "static", "raft"} \cup Failures]
    BY <1>3 DEF StartStatic, SetStatus, TypeOK
  <2>2. TypeOK'
    BY <1>3, <2>1 DEF StartStatic, TypeOK, electionVars
  <2>3. StatusExplained'
    BY <1>3, <2>1 DEF StartStatic, StatusExplained
  <2>4. RaftAsStarted'
    BY <1>3, <2>1, Unmoved DEF StartStatic
  <2>5. OnlyPartnersCounted'
    BY <1>3, <2>1 DEF StartStatic, OnlyPartnersCounted, electionVars
  <2> QED
    BY <2>2, <2>3, <2>4, <2>5
<1>4. ASSUME NEW n \in Nodes, StartRaft(n) PROVE IInv'
  <2> DEFINE s == settings[n]
             ms == ClusterMembers(s)
             self == FindSelfAddress(ResolveNodeID(s), ms)
  <2>1. /\ Accepts(n, s) /\ NodeIDResolves(s) /\ s.election = "raft"
        /\ ElectionAccepts(ResolveNodeID(s), ms)
        /\ settings' = settings /\ counted' = counted
    BY <1>4 DEF StartRaft
  <2>2. /\ ms \in Seq(Addresses) /\ self \in Addresses
        /\ Range(ms) \in SUBSET Addresses /\ QuorumSize(ms) \in Nat
    BY <2>1, StartTypes
  <2>3. /\ status' = [status EXCEPT ![n] = "raft"]
        /\ members' = [members EXCEPT ![n] = ms]
        /\ address' = [address EXCEPT ![n] = self]
        /\ partners' = [partners EXCEPT ![n] = Range(ms) \ {self}]
        /\ quorum' = [quorum EXCEPT ![n] = QuorumSize(ms)]
    BY <1>4 DEF StartRaft, SetStatus
  <2> HIDE DEF ms, self
  <2>4. /\ status'[n] = "raft" /\ members'[n] = ms /\ address'[n] = self
        /\ partners'[n] = Range(ms) \ {self} /\ quorum'[n] = QuorumSize(ms)
        /\ \A m \in Nodes : m # n => /\ status'[m] = status[m] /\ members'[m] = members[m]
                                     /\ address'[m] = address[m] /\ partners'[m] = partners[m]
                                     /\ quorum'[m] = quorum[m]
    BY <2>3 DEF TypeOK
  <2>5. TypeOK'
    BY <2>1, <2>2, <2>3 DEF TypeOK
  <2>6. StatusExplained'
    BY <2>1, <2>4 DEF StatusExplained
  <2>7. RaftAsStarted'
    <3>1. ASSUME NEW m \in Nodes, status'[m] = "raft", m # n
          PROVE  LET t == settings[m] IN
                 /\ ElectionAccepts(ResolveNodeID(t), ClusterMembers(t))
                 /\ members'[m] = ClusterMembers(t)
                 /\ address'[m] = FindSelfAddress(ResolveNodeID(t), ClusterMembers(t))
                 /\ partners'[m] = Range(members'[m]) \ {address'[m]}
                 /\ quorum'[m] = QuorumSize(members'[m])
      BY <2>4, <3>1 DEF RaftAsStarted, Running
    <3>2. /\ ElectionAccepts(ResolveNodeID(s), ClusterMembers(s))
          /\ members'[n] = ClusterMembers(s)
          /\ address'[n] = FindSelfAddress(ResolveNodeID(s), ClusterMembers(s))
          /\ partners'[n] = Range(members'[n]) \ {address'[n]}
          /\ quorum'[n] = QuorumSize(members'[n])
      BY <2>1, <2>4 DEF ms, self
    <3> QED
      BY <2>1, <3>1, <3>2 DEF RaftAsStarted, Running
  <2>8. OnlyPartnersCounted'
    <3>1. counted[n] = {}
      BY <1>4 DEF StartRaft, OnlyPartnersCounted
    <3> QED
      BY <2>1, <2>4, <3>1 DEF OnlyPartnersCounted
  <2> QED
    BY <2>5, <2>6, <2>7, <2>8
<1>5. ASSUME NEW n \in Nodes, Stop(n) PROVE IInv'
  <2>1. /\ settings' = settings /\ status'[n] = "down" /\ counted'[n] = {}
        /\ \A m \in Nodes : m # n => /\ status'[m] = status[m] /\ members'[m] = members[m]
                                     /\ address'[m] = address[m] /\ partners'[m] = partners[m]
                                     /\ quorum'[m] = quorum[m] /\ counted'[m] = counted[m]
    BY <1>5 DEF Stop, SetStatus, TypeOK
  <2>2. TypeOK'
    <3>1. <<>> \in Seq(Addresses) /\ 0 \in Nat
      OBVIOUS
    <3> QED
      BY <1>5, <3>1 DEF Stop, SetStatus, TypeOK
  <2>3. StatusExplained'
    BY <2>1 DEF StatusExplained
  <2>4. RaftAsStarted'
    BY <2>1 DEF RaftAsStarted, Running
  <2>5. OnlyPartnersCounted'
    BY <2>1 DEF OnlyPartnersCounted
  <2> QED
    BY <2>2, <2>3, <2>4, <2>5
<1>6. ASSUME NEW n \in Nodes, Connect(n) \/ Disconnect(n) PROVE IInv'
  <2>1. UNCHANGED <<settings, status, electionVars>>
    BY <1>6 DEF Connect, Disconnect
  <2>2. PICK C \in SUBSET partners[n] : /\ counted' = [counted EXCEPT ![n] = C]
                                        /\ status[n] # "raft" => C = {}
    <3>1. CASE Connect(n)
      <4>1. PICK m \in Running : /\ address[m] \in partners[n]
                                 /\ counted' = [counted EXCEPT ![n] = counted[n] \cup {address[m]}]
        BY <3>1 DEF Connect, TypeOK
      <4>2. status[n] = "raft"
        BY <3>1 DEF Connect, Running
      <4>3. counted[n] \cup {address[m]} \in SUBSET partners[n]
        BY <4>1 DEF OnlyPartnersCounted
      <4> QED
        BY <4>1, <4>2, <4>3
    <3>2. CASE Disconnect(n)
      <4>1. PICK a \in counted[n] : counted' = [counted EXCEPT ![n] = counted[n] \ {a}]
        BY <3>2 DEF Disconnect, TypeOK
      <4>2. counted[n] \ {a} \in SUBSET partners[n] /\ (status[n] # "raft" => counted[n] \ {a} = {})
        BY DEF OnlyPartnersCounted
      <4> QED
        BY <4>1, <4>2
    <3> QED
      BY <1>6, <3>1, <3>2
  <2>3. counted' \in [Nodes -> SUBSET Addresses]
    <3>1. partners[n] \in SUBSET Addresses
      BY DEF TypeOK
    <3>2. C \in SUBSET Addresses
      BY <2>2, <3>1
    <3>3. counted \in [Nodes -> SUBSET Addresses]
      BY DEF TypeOK
    <3> QED
      BY <2>2, <3>2, <3>3
  <2>8. \A m \in Nodes : counted'[m] = IF m = n THEN C ELSE counted[m]
    BY <2>2 DEF TypeOK
  <2>4. TypeOK'
    BY <2>1, <2>3 DEF TypeOK, electionVars
  <2>5. StatusExplained'
    BY <2>1 DEF StatusExplained
  <2>6. RaftAsStarted'
    BY <2>1 DEF RaftAsStarted, Running, electionVars
  <2>7. OnlyPartnersCounted'
    BY <2>1, <2>2, <2>8 DEF OnlyPartnersCounted, electionVars
  <2> QED
    BY <2>4, <2>5, <2>6, <2>7
<1>7. CASE UNCHANGED vars
  <2>1. TypeOK' /\ StatusExplained'
    BY <1>7 DEF vars, electionVars, TypeOK, StatusExplained
  <2>2. RaftAsStarted' /\ OnlyPartnersCounted'
    BY <1>7 DEF vars, electionVars, RaftAsStarted, OnlyPartnersCounted, Running
  <2> QED
    BY <2>1, <2>2
<1> QED
  BY <1>1, <1>2, <1>3, <1>4, <1>5, <1>6, <1>7 DEF Next

LEMMA Invariant == Spec => []IInv
BY InitInv, NextInv, PTL DEF Spec

-------------------------------------------------------------------------------
\* What is so of a running node, in the terms of the properties: its members are a
\* finite set with as many elements as the list, and it is counted once.
LEMMA CountOfMembers ==
  ASSUME IInv, NEW n \in Running
  PROVE  /\ IsFiniteSet(Range(members[n]))
         /\ Cardinality(Range(members[n])) = Len(members[n])
         /\ Len(members[n]) \in Nat
         /\ Voters(n) \subseteq Range(members[n])
         /\ Cardinality(Voters(n)) = Responding(n)
         /\ Responding(n) \in Nat
         /\ quorum[n] = Len(members[n]) \div 2 + 1
<1> DEFINE s == settings[n]
           ms == members[n]
<1>1. n \in Nodes /\ s \in Settings
  BY MembershipAssumption DEF IInv, TypeOK, Running
<1>2. /\ ms = ClusterMembers(s) /\ ElectionAccepts(ResolveNodeID(s), ms)
      /\ address[n] = FindSelfAddress(ResolveNodeID(s), ms)
      /\ partners[n] = Range(ms) \ {address[n]} /\ quorum[n] = QuorumSize(ms)
  BY DEF IInv, RaftAsStarted
<1>3. ms \in Seq(Texts)
  BY <1>1, <1>2, MembersAreTexts
<1>4. address[n] \in Range(ms)
  BY <1>2, <1>3, SelfAddressIsMember
<1>5. IsFiniteSet(Range(ms))
  BY <1>3, RangeFinite
<1>6. counted[n] \subseteq Range(ms) \ {address[n]}
  BY <1>1, <1>2 DEF IInv, OnlyPartnersCounted
<1>7. IsFiniteSet(counted[n])
  BY <1>5, <1>6, FS_Subset
<1>8. Cardinality(counted[n]) \in Nat
  BY <1>7, FS_CardinalityType
<1>9. Cardinality(counted[n] \cup {address[n]}) = Cardinality(counted[n]) + 1
  BY <1>6, <1>7, FS_AddElement
<1>10. Voters(n) = counted[n] \cup {address[n]}
  BY DEF Voters
<1>11. Cardinality(Voters(n)) = Responding(n) /\ Responding(n) \in Nat
  BY <1>8, <1>9, <1>10 DEF Responding
<1>12. Cardinality(Range(ms)) = Len(ms) /\ Len(ms) \in Nat
  BY <1>2, <1>3 DEF ElectionAccepts
<1>13. Voters(n) \subseteq Range(ms)
  BY <1>4, <1>6, <1>10
<1>14. quorum[n] = Len(ms) \div 2 + 1
  BY <1>2 DEF QuorumSize
<1> QED
  BY <1>5, <1>11, <1>12, <1>13, <1>14

\* Type correctness of configuration and membership for any nodes and settings.
THEOREM TypeCorrect == Spec => []TypeOK
<1>1. IInv => TypeOK
  BY DEF IInv
<1> QED
  BY <1>1, Invariant, PTL

\* Whatever the sizes of the clusters, two nodes that both report a quorum have
\* counted some node in common, also across a change of one member.
THEOREM QuorumsMeet == Spec => []QuorumsIntersect
<1>1. IInv => QuorumsIntersect
  <2> SUFFICES ASSUME IInv, NEW m \in Nodes, NEW n \in Nodes,
                      IsQuorumReached(m), IsQuorumReached(n),
                      OneApart(Range(members[m]), Range(members[n]))
               PROVE  Voters(m) \cap Voters(n) # {}
    BY DEF QuorumsIntersect
  <2>1. m \in Running /\ n \in Running /\ Responding(m) >= quorum[m] /\ Responding(n) >= quorum[n]
    BY DEF IsQuorumReached
  <2>2. /\ IsFiniteSet(Range(members[m])) /\ Voters(m) \in SUBSET Range(members[m])
        /\ Cardinality(Voters(m)) >= Cardinality(Range(members[m])) \div 2 + 1
    BY <2>1, CountOfMembers
  <2>3. /\ IsFiniteSet(Range(members[n])) /\ Voters(n) \in SUBSET Range(members[n])
        /\ Cardinality(Voters(n)) >= Cardinality(Range(members[n])) \div 2 + 1
    BY <2>1, CountOfMembers
  <2> QED
    BY <2>2, <2>3, MajoritiesIntersect
<1> QED
  BY <1>1, Invariant, PTL

\* For even and odd clusters of any size, a quorum is more than half of the members.
THEOREM QuorumIsMajority == Spec => []MajorityIsQuorum
<1>1. IInv => MajorityIsQuorum
  <2> SUFFICES ASSUME IInv, NEW n \in Running
               PROVE  IsQuorumReached(n) <=> 2 * Cardinality(Voters(n)) > Cardinality(Range(members[n]))
    BY DEF MajorityIsQuorum
  <2> DEFINE r == Responding(n)
             k == Len(members[n])
  <2>1. r \in Nat /\ k \in Nat /\ quorum[n] = k \div 2 + 1
    BY CountOfMembers
  <2>2. Cardinality(Voters(n)) = r /\ Cardinality(Range(members[n])) = k
    BY CountOfMembers
  <2>3. IsQuorumReached(n) <=> r >= quorum[n]
    BY DEF IsQuorumReached
  <2> HIDE DEF r, k
  <2>4. r >= k \div 2 + 1 <=> 2 * r > k
    BY <2>1
  <2> QED
    BY <2>1, <2>2, <2>3, <2>4
<1> QED
  BY <1>1, Invariant, PTL

\* A node whose id names the host of its address runs there, with its peers only.
THEOREM RunsConfigured == Spec => []RunsAsConfigured
<1>1. IInv => RunsAsConfigured
  <2> SUFFICES ASSUME IInv, NEW n \in Running, HostOf(settings[n].self) = ResolveNodeID(settings[n])
               PROVE  address[n] = settings[n].self /\ partners[n] = Range(settings[n].peers)
    BY DEF RunsAsConfigured
  <2> DEFINE s == settings[n]
             ms == members[n]
  <2>1. s \in Settings
    BY MembershipAssumption DEF IInv, TypeOK, Running
  <2>2. /\ ms = ClusterMembers(s) /\ ElectionAccepts(ResolveNodeID(s), ms)
        /\ address[n] = FindSelfAddress(ResolveNodeID(s), ms)
        /\ partners[n] = Range(ms) \ {address[n]}
    BY DEF IInv, RaftAsStarted
  <2>3. /\ ms \in Seq(Texts) /\ Len(ms) = Len(s.peers) + 1 /\ ms[1] = s.self
        /\ \A i \in 1 .. Len(s.peers) : ms[i + 1] = s.peers[i]
    BY <2>1, <2>2, MembersAreTexts
  <2>4. address[n] = s.self
    BY <2>2, <2>3, SelfAddressIsMember
  <2>5. Range(ms) = Range(s.peers) \cup {s.self}
    BY <2>1, <2>2, RangeOfMembers
  <2>6. s.self \notin Range(s.peers)
    <3> SUFFICES ASSUME s.self \in Range(s.peers) PROVE FALSE
      OBVIOUS
    <3>1. Range(ms) = Range(s.peers)
      BY <2>5
    <3>2. s.peers \in Seq(Texts) /\ Len(s.peers) \in Nat
      BY <2>1 DEF Settings
    <3>3. Cardinality(Range(s.peers)) <= Len(s.peers)
      BY <3>2, RangeBounded
    <3>4. Cardinality(Range(ms)) = Len(s.peers) + 1
      BY <2>2, <2>3 DEF ElectionAccepts
    <3> QED
      BY <3>1, <3>2, <3>3, <3>4
  <2> QED
    BY <2>2, <2>4, <2>5, <2>6
<1> QED
  BY <1>1, Invariant, PTL

\* The readers of both frameworks make the same of the same settings.
THEOREM ReadersAgreeAlways == Spec => []ReadersAgree
<1>1. IInv => ReadersAgree
  <2> SUFFICES ASSUME IInv, NEW m \in Nodes, NEW n \in Nodes,
                      settings[m] = settings[n], settings[m].sections # "invalid",
                      status[m] # "down", status[n] # "down"
               PROVE  status[m] = status[n]
    BY DEF ReadersAgree
  <2>1. Accepts(m, settings[m]) <=> Accepts(n, settings[m])
    BY DEF Accepts, DjangoAccepts, FastAPIAccepts
  <2>2. /\ status[m] \in {"static", "raft"} \cup Failures
        /\ status[n] \in {"static", "raft"} \cup Failures
    BY DEF IInv, TypeOK
  <2>3. ElectionAccepts(ResolveNodeID(settings[m]), ClusterMembers(settings[m])) <=>
        ElectionAccepts(ResolveNodeID(settings[n]), ClusterMembers(settings[n]))
    OBVIOUS
  <2>4. /\ status[m] = "raft" => ElectionAccepts(ResolveNodeID(settings[m]), ClusterMembers(settings[m]))
        /\ status[n] = "raft" => ElectionAccepts(ResolveNodeID(settings[n]), ClusterMembers(settings[n]))
    BY DEF IInv, RaftAsStarted, Running
  <2> QED
    BY <2>1, <2>2, <2>3, <2>4 DEF IInv, StatusExplained, Failures
<1> QED
  BY <1>1, Invariant, PTL
===============================================================================
