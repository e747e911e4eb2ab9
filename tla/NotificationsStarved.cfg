\* More requests than a poll reads.
SPECIFICATION FairSpec
CONSTANTS
    Bookings = {b1}
    u1 = u1
    u2 = u2
    Users = {u1, u2}
    OwnerOf <- Booker
    Staff <- Admins
    Starts = {1}
    Polls = {p1}
    PageLimit = 1
    WindowFactor = 2
    WindowFloor = 2
    DueLimit = 1
    LeadTime = 1
    None = None
    Failures = {}
    Unreachable = {}
    MaxLog = 3
    MaxTime = 1
PROPERTIES EventuallyDelivered
