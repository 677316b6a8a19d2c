----------------------------- MODULE MCFloatingIPs -----------------------------
(* FloatingIPs with two tenants of one instance each.                       *)
EXTENDS FloatingIPs, TLC

CONSTANTS c1, c2, c3, c4, t1, t2, i1, i2, p1, p2

MCOwner == i1 :> t1 @@ i2 :> t2

\* One tenant, for the runs that need no second one.
MCOwnerOne == i1 :> t1

\* One pool of two ranges of one address each.
MCRanges == p1 :> << {1}, {2} >>

\* One pool with a single address, which is allocated again and again.
MCScarce == p1 :> << {1} >>

\* cidr is text: "10.0.0.0/30" is before "9.0.0.0/30".
MCTextOrder == p1 :> << {10, 11}, {9} >>

Symmetry == Permutations(Calls)
================================================================================
