CONSTANTS
    MaxOps = 3
SPECIFICATION Spec
INVARIANT SessionInv NoSessionLeak
CHECK_DEADLOCK FALSE
