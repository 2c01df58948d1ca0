------------------------------ MODULE MCParts --------------------------------
(* One request_id and four calls; one cached id, two processes, two writes; *)
(* three replicas for two numbers; four deliveries of an event; three runs  *)
(* of a job; two Watches of a configuration; two look-ups and two           *)
(* subscribers of a service; two services to record.                        *)
EXTENDS Parts, TLC

CONSTANTS c1, c2, c3, c4, r1, r2, r3, w1, w2, p1, p2, g1, g2, g3, d1, d2, d3, d4, j1, j2, j3,
          v1, v2, l1, l2, u1, u2, s1, s2

MCCall == {c1, c2, c3, c4}
MCReader == {r1, r2, r3}
MCWriter == {w1, w2}
MCProcess == {p1, p2}
MCHome == r1 :> p1 @@ r2 :> p1 @@ r3 :> p2
MCReplica == {g1, g2, g3}
MCDelivery == {d1, d2, d3, d4}
MCRun == {j1, j2, j3}
MCCaller == {v1, v2}
MCLookup == {l1, l2}
MCSubscriber == {u1, u2}
MCService == {s1, s2}

\* The writers are alike, and so are the replicas, of which two are enough:
\* every permutation costs a little in each state of the other parts.
Symmetry == Permutations(Writer) \cup Permutations({g1, g2})
=============================================================================
