\* Three calls: nesting to depth three, or an outer call with two inner ones,
\* or transactions one after the other.
CONSTANT MaxCalls = 3
SPECIFICATION Spec
INVARIANTS TypeOK ConnectionReturned RolledBackStaysOut OuterAllOrNothing NothingLost
CHECK_DEADLOCK FALSE
