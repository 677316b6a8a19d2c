\* Three calls on two names: two creates that compete for the quota, or a
\* create, its delete and a namesake, with the other calls between them.
SPECIFICATION Spec
CONSTANTS
    Calls = {c1, c2, c3}
    Names = {n1, n2}
    Cpus = {1, 2}
    MaxVCPUs = 2
    Actions = {"start", "freeze"}
    Keep = Keep
    None = None
SYMMETRY Symmetry
INVARIANTS
    TypeOK
    QuotaHolds
    RowsHaveInstances
    RowsMirrorInstances
PROPERTY
    OmittedIsKept
\* Calls is finite: when every call has returned nothing happens.
CHECK_DEADLOCK FALSE
