\* A nested call that fails on a context that is done.
CONSTANT MaxCalls = 2
SPECIFICATION Spec
INVARIANT FailedNestedStaysOut
CHECK_DEADLOCK FALSE
