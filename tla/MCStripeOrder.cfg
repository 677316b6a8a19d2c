\* Events that Stripe delivers late, in another order or before the local row.
\* One claim at a time: exchange the comment marks for another one.
SPECIFICATION SubscriptionsSpec
CONSTANTS
    d1 = d1  d2 = d2  o1 = o1  o2 = o2  s1 = s1
    Deliveries = {d1, d2}
    ApiCalls = {o1, o2}
    Events <- MCEvents
    NoEvent = NoEvent
    NoRequest = NoRequest
    MaxPeriod = 2
    Subs = {s1}
    Quota <- MCQuota
SYMMETRY Symmetry
PROPERTY Lifecycle
\* PROPERTY PeriodNeverRegresses
\* INVARIANT QuotaIsCredited
CHECK_DEADLOCK FALSE
