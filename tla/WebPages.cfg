\* Every page against five APIs; three rows, two or three calls, answers get lost.
SPECIFICATION FairSpec
CONSTANTS
    Rows = {r1, r2, r3}
    None = None
    Openings <- MCOpenings
    Lossy = TRUE
    MaxLoads = 2
    MaxCalls <- TwoOrThree
CHECK_DEADLOCK FALSE
INVARIANTS PagesTypeOK ShownIsTrue OneCallPerButton
PROPERTIES LoadsEnd ButtonsComeBack
