\* An owner and a newcomer; two calls at once, one change by hand.
SPECIFICATION Spec
CONSTANTS
    People = {p1, p2}
    Existing = {p1}
    Boss = p1
    Grants <- AdminOrNot
    Docs = {d1, d2}
    TypeOf <- OneType
    Required = {"terms"}
    Calls = {c1, c2}
    None = None
    MaxStarts = 3
    MaxChanges = 1
SYMMETRY Alike
CHECK_DEADLOCK FALSE
INVARIANTS AccountsTypeOK EnteringFailsInRaceOnly TokenTellsRoles ConsentsAreComplete BlockIsExplained
PROPERTIES DeletionTimeKept DeletedIsFinal
VIEW Rest
