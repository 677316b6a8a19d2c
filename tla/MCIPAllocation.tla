----------------------------- MODULE MCIPAllocation -----------------------------
(* IPAllocation with addresses of four bits in IPv4 and of three in IPv6.   *)
EXTENDS IPAllocation

MCSpace == [f \in {4, 6} |-> IF f = 4 THEN 16 ELSE 8]

\* Every aligned prefix, up to the last of the address space.
MCPrefixes ==
    {p \in [family : {4, 6}, net : 0 .. 15, size : {1, 2, 4, 8}] :
        p.net % p.size = 0 /\ p.net + p.size <= MCSpace[p.family]}
================================================================================
