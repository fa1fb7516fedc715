SPECIFICATION Spec
CONSTANT Attempts = {a1, a2}
INVARIANT AppliedOnce
CHECK_DEADLOCK FALSE
