------------------------------ MODULE MCRegistrar ------------------------------
(* Registrar with one domain, two tenants and four calls.                   *)
EXTENDS Registrar, TLC

CONSTANTS t1, t2, d1, c1, c2, c3, c4

Call(k, t) == [kind |-> k, tenant |-> t, domain |-> d1, period |-> 1]

\* One tenant registers, renews and removes; the other transfers in.
MCRequests ==
    {Call("register", t1), Call("renew", t1), Call("delete", t1), Call("transfer", t2)}

\* A registration and its renewals.
MCRenewals == {Call("register", t1), Call("renew", t1)}

Symmetry == Permutations(Calls)
================================================================================
