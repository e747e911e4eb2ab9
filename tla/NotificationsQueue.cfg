\* Sends, reports and polls fail, the bot lives.
SPECIFICATION FairSpec
CONSTANTS
    Bookings = {b1}
    u1 = u1
    u2 = u2
    Users = {u1, u2}
    OwnerOf <- Booker
    Staff <- Admins
    Starts = {1}
    Polls = {p1}
    PageLimit = 1
    WindowFactor = 2
    WindowFloor = 5
    DueLimit = 1
    LeadTime = 1
    None = None
    Failures = {"send", "report", "poll"}
    Unreachable = {}
    MaxLog = 2
    MaxTime = 0
PROPERTIES EventuallyDelivered
