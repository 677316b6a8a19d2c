\* An event that carries no tenant.
SPECIFICATION Spec
CONSTANTS
    d1 = d1  d2 = d2  d3 = d3  s1 = s1
    Deliveries = {d1, d2}
    Events <- MCPayments
    NoEvent = NoEvent
    Subs = {s1}
    Quota <- MCQuota
INVARIANT ProcessedIsMarked
\* Deliveries is finite: when every delivery was answered nothing happens.
CHECK_DEADLOCK FALSE
