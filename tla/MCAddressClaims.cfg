\* An attach overlaps a release; the pool or the instance is deleted.
\* One claim at a time: exchange the comment marks for another one.
SPECIFICATION Spec
CONSTANTS
    c1 = c1  c2 = c2  c3 = c3  c4 = c4
    t1 = t1  t2 = t2  i1 = i1  i2 = i2  p1 = p1  p2 = p2
    Calls = {c1, c2, c3}
    Tenants = {t1}
    Instances = {i1}
    Owner <- MCOwnerOne
    NoInstance = NoInstance
    Pools = {p1}
    Ranges <- MCScarce
    NoAddress = NoAddress
    NoRequest = NoRequest
INVARIANT ReleaseDetaches
\* INVARIANT DeletedPoolIsEmpty
\* INVARIANT DeleteInstanceDetaches
\* Calls is finite: when every call has returned nothing happens.
CHECK_DEADLOCK FALSE
