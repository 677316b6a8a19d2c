---------------------------- MODULE MCSubscriptions ----------------------------
(* One subscription that renews once, with API calls and deliveries.        *)
EXTENDS Subscriptions, TLC

CONSTANTS d1, d2, o1, o2, s1

MCQuota == s1 :> 5

\* Two periods at most; every emission has a number below 8.
MCEvents == [kind : {"created", "updated", "deleted", "invoice"}, ours : {TRUE}, sub : Subs,
             period : 1..2, nr : 0..7]

Symmetry == Permutations(Deliveries) \cup Permutations(ApiCalls)
================================================================================
