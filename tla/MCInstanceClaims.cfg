\* What the comments say of the cached status and of the quota.
\* One claim at a time: exchange the comment marks for another one.
SPECIFICATION Spec
CONSTANTS
    Calls = {c1, c2, c3}
    Names = {n1, n2}
    Cpus = {1, 2}
    MaxVCPUs = 2
    Actions = {"start", "freeze"}
    Keep = Keep
    None = None
SYMMETRY Symmetry
INVARIANT StatusOfInstance
\* INVARIANT PatchWithinQuota
CHECK_DEADLOCK FALSE
