\* Three redemptions of a single-use, a two-use and an unlimited code.
SPECIFICATION Spec
CONSTANTS
    c1 = c1  c2 = c2  c3 = c3
    k1 = k1  k2 = k2  k3 = k3
    Calls = {c1, c2, c3}
    Users = {"u1"}
    Codes = {k1, k2, k3}
    MaxUses <- MCMaxUses
    Unlimited = Unlimited
    NoRequest = NoRequest
SYMMETRY Symmetry
INVARIANTS
    TypeOK
    UsesWithinMax
    CreditsCounted
\* Calls is finite: when every call has returned and no code is left to
\* create, revoke or expire, nothing happens.
CHECK_DEADLOCK FALSE
