\* Two requests race into one range.
SPECIFICATION RaceSpec
CONSTANTS
    Requests = {r1, r2}
    Users = {u1}
    BookingIds = {b1, b2}
    Tables = {t1}
    Rooms = {room1}
    Intervals <- TwoClashing
    Schedules <- AllOpen
    Rules <- NoneOrOne
    DefaultLimit = 2
    None = None
    DayMinutes = 24
    SlotStep = 1
    MaxEdits = 0
    MaxHistory = 0
    MaxTime = 0
SYMMETRY Interchangeable
INVARIANTS NoActiveOverlap
