\* Three deliveries of any events, one subscription.
SPECIFICATION Spec
CONSTANTS
    d1 = d1  d2 = d2  d3 = d3  s1 = s1
    Deliveries = {d1, d2, d3}
    Events <- MCEvents
    NoEvent = NoEvent
    Subs = {s1}
    Quota <- MCQuota
SYMMETRY Symmetry
INVARIANTS
    CreditedAtMostOnce
    AppliedIsCredited
PROPERTY InboxSpec
\* Deliveries is finite: when every delivery was answered nothing happens.
CHECK_DEADLOCK FALSE
