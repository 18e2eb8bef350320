------------------------------ MODULE Membership ------------------------------
(***************************************************************************)
(* From the settings of a node to its place in the cluster: the settings   *)
(* readers of the two frameworks, LiteFSSettings, the factory, and the     *)
(* checks, the address, the partners and the quorum of RaftLeaderElection. *)
(* Processes are configured and started one by one, each from settings of  *)
(* its own, so that nodes which disagree about the members run side by     *)
(* side.  Membership is static: a process keeps its members until it ends. *)
(***************************************************************************)
EXTENDS Naturals, Sequences, FiniteSets, Functions

CONSTANTS
  Nodes,       \* the processes
  Framework,   \* Framework[n]: the reader that n uses, "django" or "fastapi"
  AllSettings  \* what an operator may write

\* A text is the part before its first colon, and what follows it; extra says what is
\* about it that is no part of a name: whitespace around it (in front, if it has a port),
\* or a control character.
NoPort == "none"
Texts == [host : STRING, port : STRING, extra : {"none", "space", "control"}]
Addresses == {t \in Texts : t.port # NoPort}
Empty == [host |-> "", port |-> NoPort, extra |-> "none"]  \* "", or a setting that is not there
HostOf(a) == [a EXCEPT !.port = NoPort]                    \* member.split(":")[0]
Strip(t) == IF t.extra = "space" THEN [t EXCEPT !.extra = "none"] ELSE t

\* common: the fields that are about neither election nor forwarding are there and
\* in order; sections: what PROXY and FORWARDING hold.  node_id is LITEFS_NODE_ID.
Settings == [common : BOOLEAN, election : {"static", "raft", "other"}, self : Texts,
             peers : Seq(Texts), hostname : Texts, node_id : Texts,
             sections : {"absent", "valid", "invalid"}]

ASSUME MembershipAssumption ==
  /\ Framework \in [Nodes -> {"django", "fastapi"}]
  /\ AllSettings # {} /\ AllSettings \subseteq Settings

VARIABLES
  settings,  \* settings[n]: what n finds when it starts
  status,    \* status[n]: "down", how its start failed, or what it runs
  members,   \* members[n]: _cluster_members
  address,   \* address[n]: self_address
  partners,  \* partners[n]: the partners it gives to the Raft library
  quorum,    \* quorum[n]: _quorum_size
  counted    \* counted[n]: the partners whose status is 2

electionVars == <<members, address, partners, quorum>>
vars == <<settings, status, electionVars, counted>>

Failures == {"config_error", "no_node_id", "invalid_configuration"}
Running == {n \in Nodes : status[n] = "raft"}

Init ==
  /\ settings \in [Nodes -> AllSettings]
  /\ status = [n \in Nodes |-> "down"]
  /\ members = [n \in Nodes |-> <<>>]
  /\ address = [n \in Nodes |-> Empty]
  /\ partners = [n \in Nodes |-> {}]
  /\ quorum = [n \in Nodes |-> 0]
  /\ counted = [n \in Nodes |-> {}]

-------------------------------------------------------------------------------
\* StaticLeaderConfig; a hostname that is not there is refused by the readers.
HostnameValid(s) ==
  /\ s.hostname # Empty
  /\ s.hostname.extra # "control"
  /\ s.hostname = Strip(s.hostname)

\* LiteFSSettings.__post_init__
SettingsValid(s) ==
  /\ s.common
  /\ s.election \in {"static", "raft"}
  /\ s.election = "raft" => Strip(s.self) # Empty /\ s.peers # <<>>

DjangoAccepts(s) ==
  /\ s.election = "static" => HostnameValid(s)
  /\ s.sections # "invalid"
  /\ SettingsValid(s)

\* FastAPI has no PROXY and no FORWARDING.
FastAPIAccepts(s) ==
  /\ s.election = "static" => HostnameValid(s)
  /\ SettingsValid(s)

Accepts(n, s) == IF Framework[n] = "django" THEN DjangoAccepts(s) ELSE FastAPIAccepts(s)

\* EnvironmentNodeIDResolver
ResolveNodeID(s) == Strip(s.node_id)
NodeIDResolves(s) == ResolveNodeID(s) # Empty

\* create_raft_leader_election: the node itself comes first.
BugClusterMembers(s) == Append(s.peers, s.self)
ClusterMembers(s) == <<s.self>> \o s.peers

-------------------------------------------------------------------------------
\* Mutant: an address that is listed twice is let through.
BugElectionAccepts(id, ms) ==
  /\ Len(ms) >= 2
  /\ \A m \in Range(ms) : m.port # NoPort
  /\ \E m \in Range(ms) : HostOf(m) = id

\* _validate_configuration, and the end of _find_self_address.  The two times are the
\* factory's defaults, which pass.
ElectionAccepts(id, ms) ==
  /\ Len(ms) >= 2
  /\ Len(ms) = Cardinality(Range(ms))
  /\ \A m \in Range(ms) : m.port # NoPort
  /\ \E m \in Range(ms) : HostOf(m) = id

BugFindSelfAddress(id, ms) == id

\* The first member on the host that node_id names.
FindSelfAddress(id, ms) ==
  ms[CHOOSE i \in DOMAIN ms : /\ HostOf(ms[i]) = id
                              /\ \A j \in DOMAIN ms : HostOf(ms[j]) = id => i <= j]

BugQuorumSize(ms) == (Len(ms) + 1) \div 2
QuorumSize(ms) == Len(ms) \div 2 + 1

-------------------------------------------------------------------------------
SetStatus(n, s) == status' = [status EXCEPT ![n] = s]

\* The operator writes other settings for a process that does not run.
Configure(n) ==
  /\ status[n] \notin {"static", "raft"}
  /\ \E s \in AllSettings : settings' = [settings EXCEPT ![n] = s]
  /\ SetStatus(n, "down")
  /\ UNCHANGED <<electionVars, counted>>

\* A start that ends with LiteFSConfigError, with the KeyError or ValueError of the
\* resolver, or with InvalidConfigurationError.
StartFails(n) ==
  LET s == settings[n] IN
  /\ status[n] = "down"
  /\ \/ ~Accepts(n, s) /\ SetStatus(n, "config_error")
     \/ Accepts(n, s) /\ ~NodeIDResolves(s) /\ SetStatus(n, "no_node_id")
     \/ /\ Accepts(n, s) /\ NodeIDResolves(s) /\ s.election = "raft"
        /\ ~ElectionAccepts(ResolveNodeID(s), ClusterMembers(s))
        /\ SetStatus(n, "invalid_configuration")
  /\ UNCHANGED <<settings, electionVars, counted>>

StartStatic(n) ==
  /\ status[n] = "down"
  /\ Accepts(n, settings[n]) /\ NodeIDResolves(settings[n]) /\ settings[n].election = "static"
  /\ SetStatus(n, "static")
  /\ UNCHANGED <<settings, electionVars, counted>>

\* RaftLeaderElection.__init__
StartRaft(n) ==
  LET s == settings[n]
      ms == ClusterMembers(s)
      self == FindSelfAddress(ResolveNodeID(s), ms)
  IN
  /\ status[n] = "down"
  /\ Accepts(n, s) /\ NodeIDResolves(s) /\ s.election = "raft"
  /\ ElectionAccepts(ResolveNodeID(s), ms)
  /\ SetStatus(n, "raft")
  /\ members' = [members EXCEPT ![n] = ms]
  /\ address' = [address EXCEPT ![n] = self]
  /\ partners' = [partners EXCEPT ![n] = Range(ms) \ {self}]
  /\ quorum' = [quorum EXCEPT ![n] = QuorumSize(ms)]
  /\ UNCHANGED <<settings, counted>>

\* destroy, or the end of the process.  Others go on counting it until they notice.
Stop(n) ==
  /\ status[n] \in {"static", "raft"}
  /\ SetStatus(n, "down")
  /\ members' = [members EXCEPT ![n] = <<>>]
  /\ address' = [address EXCEPT ![n] = Empty]
  /\ partners' = [partners EXCEPT ![n] = {}]
  /\ quorum' = [quorum EXCEPT ![n] = 0]
  /\ counted' = [counted EXCEPT ![n] = {}]
  /\ UNCHANGED settings

\* The Raft library: a connection to a partner that runs, whether or not that one
\* knows n, and its loss, whatever the reason.
Connect(n) ==
  /\ n \in Running
  /\ \E m \in Running : /\ address[m] \in partners[n] \ counted[n]
                        /\ counted' = [counted EXCEPT ![n] = @ \cup {address[m]}]
  /\ UNCHANGED <<settings, status, electionVars>>

Disconnect(n) ==
  /\ \E a \in counted[n] : counted' = [counted EXCEPT ![n] = @ \ {a}]
  /\ UNCHANGED <<settings, status, electionVars>>

Next ==
  \E n \in Nodes :
    Configure(n) \/ StartFails(n) \/ StartStatic(n) \/ StartRaft(n) \/ Stop(n)
      \/ Connect(n) \/ Disconnect(n)

Spec == Init /\ [][Next]_vars

-------------------------------------------------------------------------------
\* get_responding_nodes_count counts the node itself; is_quorum_reached.
Responding(n) == 1 + Cardinality(counted[n])
IsQuorumReached(n) == n \in Running /\ Responding(n) >= quorum[n]

\* Whom n takes to be there when it counts.
Voters(n) == {address[n]} \cup counted[n]

\* The members of two nodes are the same, or one has one more: a change of the
\* cluster that has reached only some of the nodes.
OneApart(A, B) == \E x \in A \cup B : A = B \cup {x} \/ B = A \cup {x}

TypeOK ==
  /\ settings \in [Nodes -> AllSettings]
  /\ status \in [Nodes -> {"down", "static", "raft"} \cup Failures]
  /\ members \in [Nodes -> Seq(Addresses)]
  /\ address \in [Nodes -> Addresses \cup {Empty}]
  /\ partners \in [Nodes -> SUBSET Addresses]
  /\ quorum \in [Nodes -> Nat]
  /\ counted \in [Nodes -> SUBSET Addresses]

\* Two nodes that both report a quorum have counted some node in common, also while
\* a change of one member has reached only one of the two: however long they go on
\* counting connections that are gone, two halves of a cluster that never had a
\* connection in common cannot both have it (election.py:74, election.py:224).
QuorumsIntersect ==
  \A m, n \in Nodes :
    IsQuorumReached(m) /\ IsQuorumReached(n) /\ OneApart(Range(members[m]), Range(members[n]))
      => Voters(m) \cap Voters(n) # {}

\* A quorum is exactly what the docstring calls one, more than half of the cluster: of
\* the addresses that are configured, each counted once however it got into the list,
\* and the node itself among them, for even and odd clusters.  The code compares the
\* length of a list with a number of connections (election.py:74,224, _raft_node.py:88).
MajorityIsQuorum ==
  \A n \in Running : IsQuorumReached(n) <=> 2 * Cardinality(Voters(n)) > Cardinality(Range(members[n]))

\* A node whose id names the host of its own address runs at that address, also when
\* a peer is on the same host, and has all its peers, and only them, for partners
\* (factories.py:83, election.py:137).
RunsAsConfigured ==
  \A n \in Running :
    LET s == settings[n] IN
    HostOf(s.self) = ResolveNodeID(s) => address[n] = s.self /\ partners[n] = Range(s.peers)

\* The two frameworks make the same of the same settings, up to the sections that
\* FastAPI does not read (the two settings.py).
ReadersAgree ==
  \A m, n \in Nodes :
    /\ settings[m] = settings[n] /\ settings[m].sections # "invalid"
    /\ status[m] # "down" /\ status[n] # "down"
    => status[m] = status[n]
===============================================================================
