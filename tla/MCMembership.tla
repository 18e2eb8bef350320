----------------------------- MODULE MCMembership -----------------------------
(* Three processes, and settings of two to four members for Membership.tla:  *)
(* on three hosts, one of which has two addresses, and with every mistake    *)
(* that one of the checks is there for.                                      *)
EXTENDS Membership

CONSTANTS n1, n2, n3

MCNodes == {n1, n2, n3}
MCFramework == [n \in MCNodes |-> IF n = n2 THEN "fastapi" ELSE "django"]

Address(h, p) == [host |-> h, port |-> p, extra |-> "none"]
Host(h) == Address(h, NoPort)
Blank == [Empty EXCEPT !.extra = "space"]   \* nothing but whitespace
a == Address("a", "1")
a2 == Address("a", "2")
b == Address("b", "1")
c == Address("c", "1")

Good(self, peers) ==
  [common |-> TRUE, election |-> "raft", self |-> self, peers |-> peers,
   hostname |-> Empty, node_id |-> HostOf(self), sections |-> "absent"]
Fixed == [Good(Empty, <<>>) EXCEPT !.election = "static", !.hostname = Host("a"),
                                   !.node_id = Host("a"), !.sections = "valid"]

MCAllSettings ==
  { Good(a, <<b>>), Good(b, <<a>>), Good(b, <<a, c>>), Good(c, <<a2, b, a>>),
    Good(a2, <<b, a, c>>), [Good(b, <<c, a>>) EXCEPT !.node_id = Host("a")] }
    \cup { Fixed, [Fixed EXCEPT !.hostname.extra = "control"], [Fixed EXCEPT !.hostname.extra = "space"],
           [Fixed EXCEPT !.sections = "invalid"],
           [Fixed EXCEPT !.node_id = Blank], [Fixed EXCEPT !.election = "other"],
           Good(a, <<b, a>>), Good(a, <<b, Blank>>), Good(a, <<>>), Good(Empty, <<b>>),
           [Good(a, <<b>>) EXCEPT !.common = FALSE],
           [Good(a, <<b>>) EXCEPT !.node_id = a], [Good(a, <<b>>) EXCEPT !.node_id.extra = "space"],
           Good(a, <<b, b, b>>) }
===============================================================================
