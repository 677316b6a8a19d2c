\* One user redeems a code of two uses twice.
SPECIFICATION Spec
CONSTANTS
    c1 = c1  c2 = c2  c3 = c3
    k1 = k1  k2 = k2  k3 = k3
    Calls = {c1, c2}
    Users = {"u1"}
    Codes = {k1}
    MaxUses <- MCTwoUses
    Unlimited = Unlimited
    NoRequest = NoRequest
SYMMETRY Symmetry
INVARIANT OncePerUser
\* Calls is finite: when every call has returned and no code is left to
\* create, revoke or expire, nothing happens.
CHECK_DEADLOCK FALSE
