\* Three calls of two tenants on two addresses.
SPECIFICATION Spec
CONSTANTS
    c1 = c1  c2 = c2  c3 = c3  c4 = c4
    t1 = t1  t2 = t2  i1 = i1  i2 = i2  p1 = p1  p2 = p2
    Calls = {c1, c2, c3}
    Tenants = {t1, t2}
    Instances = {i1, i2}
    Owner <- MCOwner
    NoInstance = NoInstance
    Pools = {p1}
    Ranges <- MCRanges
    NoAddress = NoAddress
    NoRequest = NoRequest
SYMMETRY Symmetry
INVARIANTS
    TypeOK
    AddressUnique
    AttachedWithinTenant
    ForwardsFollowRows
\* Calls is finite: when every call has returned nothing happens.
CHECK_DEADLOCK FALSE
