\* Calls of every kind race for one booking and die anywhere, while the clock runs.
SPECIFICATION RaceSpec
CONSTANTS
    Requests = {r1, r2, r3}
    Users = {u1}
    BookingIds = {b1}
    Tables = {t1}
    Rooms = {room1}
    Intervals <- OneRange
    Schedules <- AllOpen
    Rules <- OneNotice
    DefaultLimit = 3
    None = None
    DayMinutes = 24
    SlotStep = 1
    MaxEdits = 0
    MaxHistory = 3
    MaxTime = 1
SYMMETRY Interchangeable
INVARIANTS StatusHistoryChain FollowUpOnce SignalsAccounted
PROPERTIES StatusFollowsLifecycle HistoryTellsTheChange EndedBookingsStay
