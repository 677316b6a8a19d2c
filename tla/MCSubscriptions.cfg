\* Two API calls and two deliveries on one subscription.
SPECIFICATION SubscriptionsSpec
CONSTANTS
    d1 = d1  d2 = d2  o1 = o1  o2 = o2  s1 = s1
    Deliveries = {d1, d2}
    ApiCalls = {o1, o2}
    Events <- MCEvents
    NoEvent = NoEvent
    NoRequest = NoRequest
    MaxPeriod = 2
    Subs = {s1}
    Quota <- MCQuota
SYMMETRY Symmetry
INVARIANTS
    SubscriptionsTypeOK
    LocalFollowsStripe
\* Calls and deliveries are finite: when all have returned nothing happens.
CHECK_DEADLOCK FALSE
