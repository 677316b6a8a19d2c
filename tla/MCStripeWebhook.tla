---------------------------- MODULE MCStripeWebhook ----------------------------
(* StripeWebhook with a payment, an event that is not ours, and the events  *)
(* of one subscription.                                                     *)
EXTENDS StripeWebhook, TLC

CONSTANTS d1, d2, d3, s1

Ev(kind, ours, period) ==
    [kind |-> kind, ours |-> ours, sub |-> s1, period |-> period, nr |-> 0]

MCEvents == {Ev("payment", TRUE, 0), Ev("payment", FALSE, 0), Ev("invoice", TRUE, 0),
             Ev("updated", TRUE, 1), Ev("deleted", TRUE, 0), Ev("other", TRUE, 0)}

\* For the runs that look for one lost payment or one unmarked row.
MCPayments == {Ev("payment", TRUE, 0), Ev("payment", FALSE, 0)}

MCQuota == s1 :> 5

Symmetry == Permutations(Deliveries)
================================================================================
