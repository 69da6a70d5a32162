------------------------- MODULE MCSocksUdpGwClient -------------------------
(* Small instances of SocksUdpGwClient: who sends what. *)
EXTENDS SocksUdpGwClient, TLC

CONSTANTS a, b, c, dns1, dns2, web, web1, web2

Flow(l, r, d, n) == [local |-> l, remote |-> r, dns |-> d, len |-> n]

\* Three ports: one is used for everything, with two resolvers and two other
\* servers, the others are there to compete with it for the connections.
Shared == {Flow(a, dns1, TRUE, 1), Flow(a, dns2, TRUE, 1), Flow(a, web1, FALSE, 1),
           Flow(a, web2, FALSE, 1), Flow(b, web, FALSE, 1), Flow(c, web, FALSE, 1)}

\* Bound: the different flows of one connection.  Two make every kind of shared port:
\* two resolvers, two servers, one of each.
MaxUses == 2
FewUses == \A l \in Locals : Cardinality(con[l].used) <= MaxUses

\* The names of the resolvers, of the servers and of the two other ports do not matter.
Names == {p @@ q @@ r : p \in Permutations({b, c}), q \in Permutations({dns1, dns2}),
                        r \in Permutations({web1, web2})}

\* A datagram as long as the tunnel's MTU allows.
Long == {Flow(b, web1, FALSE, 3), Flow(b, web2, FALSE, 1)}
=============================================================================
