\* Four calls: a login, its refreshes, a reuse or a logout, and the
\* administrator's calls in between.
SPECIFICATION Spec
CONSTANTS
    Calls = {c1, c2, c3, c4}
    None = None
SYMMETRY Symmetry
INVARIANTS
    TypeOK
    OneLiveToken
    RotatedOnce
    BurntStaysBurnt
    DisabledHasNoSession
\* Calls is finite: when every call has returned and every row has expired,
\* nothing happens.
CHECK_DEADLOCK FALSE
