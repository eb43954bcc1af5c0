CONSTANTS
    None = None
    Users <- MCUsers
    Amounts <- MCAmounts
    MaxRows = 4
SPECIFICATION Spec
INVARIANT JoinLosesNothing
