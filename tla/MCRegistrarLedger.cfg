\* Three overlapping calls of two tenants on one domain.
SPECIFICATION ComposedSpec
CONSTANTS
    t1 = t1  t2 = t2  d1 = d1  c1 = c1  c2 = c2  c3 = c3
    Calls = {c1, c2, c3}
    Tenants = {t1, t2}
    Accounts = {t1, t2}
    TenantOf <- MCTenantOf
    Domains = {d1}
    Requests <- MCRequests
    NoRow = NoRow
    NoKey = NoKey
    YearPrice = 1
    LowBalanceThreshold = 0
SYMMETRY Symmetry
INVARIANTS
    ComposedTypeOK
    OrdersStayPaid
    ExpiryNotAhead
    RowsAreOrders
PROPERTY RegistrarSpec
