\* The walk over prefixes of up to eight addresses, of which it looks at six.
SPECIFICATION WalkSpec
CONSTANTS
    Space <- MCSpace
    Prefixes <- MCPrefixes
    MaxIter = 6
    None = None
INVARIANTS
    WalkTypeOK
    ReturnsFirstFree
\* The function returns.
CHECK_DEADLOCK FALSE
