\* An owner opens the resources page of the API as it is; nothing fails.
SPECIFICATION FairSpec
CONSTANTS
    Rows = {r1, r2, r3}
    None = None
    Openings <- OwnerOpensResources
    Lossy = FALSE
    MaxLoads = 2
    MaxCalls <- TwoOrThree
CHECK_DEADLOCK FALSE
PROPERTIES OwnersGetIn
