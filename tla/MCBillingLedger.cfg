\* Three racing calls, two tenants, one idempotency key.
SPECIFICATION Spec
CONSTANTS
    a1 = a1  a2 = a2  t1 = t1  t2 = t2  k1 = k1  c1 = c1  c2 = c2  c3 = c3
    Calls = {c1, c2, c3}
    Accounts = {a1, a2}
    Tenants = {t1, t2}
    TenantOf <- MCTenantOf
    Keys = {k1}
    NoKey = NoKey
    Requests <- MCRequests
    LowBalanceThreshold = 0
SYMMETRY Symmetry
INVARIANTS
    TypeOK
    ChargedExactlyOnce
    FreshUnlessDisturbed
PROPERTY BookSpec
\* Calls is finite: when every call has returned nothing happens.
CHECK_DEADLOCK FALSE
