\* Two challenges of one pending token, and two mintings of recovery codes.
\* One claim at a time: exchange the comment marks for another one.
SPECIFICATION Spec
CONSTANTS
    Calls = {c1, c2, c3}
    Tokens = {t1, t2}
    MaxAttempts = 2
    BatchSize = 2
    Initial = Initial
    None = None
SYMMETRY Symmetry
INVARIANT SingleUse
\* INVARIANT OldCodesStop
CHECK_DEADLOCK FALSE
