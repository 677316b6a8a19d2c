\* Is every order charged, and a failed one refunded?
\* One claim at a time: exchange the comment marks for another one.
SPECIFICATION Spec
CONSTANTS
    t1 = t1  t2 = t2  d1 = d1  c1 = c1  c2 = c2  c3 = c3  c4 = c4
    Calls = {c1, c2, c3}
    Tenants = {t1, t2}
    Domains = {d1}
    Requests <- MCRenewals
    NoRow = NoRow
    NoKey = NoKey
    YearPrice = 1
SYMMETRY Symmetry
INVARIANT EveryOrderIsCharged
\* PROPERTY FailedIsRefunded
