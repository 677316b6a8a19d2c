---------------------------- MODULE MCBillingLedger ----------------------------
(* BillingLedger with two tenants, one user each, and one charge key.       *)
EXTENDS BillingLedger, TLC

CONSTANTS a1, a2, t1, t2, k1, c1, c2, c3

MCTenantOf == (a1 :> t1) @@ (a2 :> t2)

Charge(a, k) == [kind |-> "charge", acct |-> a, amount |-> 2, key |-> k]
Topup(a) == [kind |-> "topup", acct |-> a, amount |-> 1, key |-> NoKey]
Refund(a) == [Topup(a) EXCEPT !.kind = "refund"]
Rebuild(a) == [kind |-> "rebuild", acct |-> a, amount |-> 0, key |-> NoKey]

\* A charge exceeds a topup, so balances cross the threshold 0 both ways.
MCRequests ==
    {Charge(a1, k1), Charge(a2, k1), Charge(a1, NoKey), Topup(a1), Refund(a1), Rebuild(a1)}

\* One user, for the runs about one cached balance.
MCOneAccount == {Charge(a1, NoKey), Topup(a1), Rebuild(a1)}

\* What a rebuild may find: charges and other rebuilds, succeeded or failed.
MCRebuild == {Charge(a1, NoKey), Rebuild(a1)}

Symmetry == Permutations(Calls)
================================================================================
