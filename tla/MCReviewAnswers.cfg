CONSTANTS
    Review = {a1, a2, a3}
    None = None
    MaxChanges = 1
SPECIFICATION ReviewSpec
CHECK_DEADLOCK FALSE
INVARIANT AnsweredOnce
