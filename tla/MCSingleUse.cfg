\* Two users race for a single-use code.
SPECIFICATION Spec
CONSTANTS
    c1 = c1  c2 = c2  c3 = c3
    k1 = k1  k2 = k2  k3 = k3
    Calls = {c1, c2}
    Users = {"u1", "u2"}
    Codes = {k1}
    MaxUses <- MCSingleUse
    Unlimited = Unlimited
    NoRequest = NoRequest
SYMMETRY Symmetry
INVARIANT CreditsWithinMaxUses
\* Calls is finite: when every call has returned and no code is left to
\* create, revoke or expire, nothing happens.
CHECK_DEADLOCK FALSE
