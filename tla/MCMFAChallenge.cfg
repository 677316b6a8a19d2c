\* Three requests of one user on two pending tokens, with a lockout after two
\* failures and batches of two codes.
SPECIFICATION Spec
CONSTANTS
    Calls = {c1, c2, c3}
    Tokens = {t1, t2}
    MaxAttempts = 2
    BatchSize = 2
    Initial = Initial
    None = None
SYMMETRY Symmetry
INVARIANTS
    TypeOK
    OpensOnce
    Lockout
    OneBatch
    ConfirmedWasProved
PROPERTY
    ConfirmedStays
\* Calls and Tokens are finite: when every call has returned and every token
\* has expired, a user without a factor has nothing left to do.
CHECK_DEADLOCK FALSE
