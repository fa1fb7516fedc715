SPECIFICATION Spec
CONSTANTS
    Requests = {r1, r2}
    None = None
    Rows = {a}
    MaxDepth = 3
INVARIANT NeverReturnsOpen
CHECK_DEADLOCK FALSE
