\* Four overlapping calls of two tenants on one domain.
SPECIFICATION Spec
CONSTANTS
    t1 = t1  t2 = t2  d1 = d1  c1 = c1  c2 = c2  c3 = c3  c4 = c4
    Calls = {c1, c2, c3, c4}
    Tenants = {t1, t2}
    Domains = {d1}
    Requests <- MCRequests
    NoRow = NoRow
    NoKey = NoKey
    YearPrice = 1
SYMMETRY Symmetry
INVARIANTS
    TypeOK
    OrdersStayPaid
    ExpiryNotAhead
    RowsAreOrders
