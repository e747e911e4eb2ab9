\* The bot dies with a poll, a message or a report under way.
SPECIFICATION Spec
CONSTANTS
    Bookings = {b1}
    u1 = u1
    u2 = u2
    Users = {u1, u2}
    OwnerOf <- Booker
    Staff <- Admins
    Starts = {1}
    Polls = {p1, p2}
    PageLimit = 2
    WindowFactor = 2
    WindowFloor = 5
    DueLimit = 1
    LeadTime = 1
    None = None
    Failures = {"send", "report", "poll", "crash"}
    Unreachable = {}
    MaxLog = 2
    MaxTime = 1
INVARIANTS NotificationsTypeOK NothingSentAgain RemindersAreRaces TriedInOrder
PROPERTIES ImplementsMailbox
VIEW Rest
