\* Two calls of every kind race for two bookings of one table and die anywhere.
SPECIFICATION RaceSpec
CONSTANTS
    Requests = {r1, r2}
    Users = {u1}
    BookingIds = {b1, b2}
    Tables = {t1}
    Rooms = {room1}
    Intervals <- TwoInTheDay
    Schedules <- AllOpen
    Rules <- NoneOrOne
    DefaultLimit = 2
    None = None
    DayMinutes = 24
    SlotStep = 1
    MaxEdits = 0
    MaxHistory = 2
    MaxTime = 0
SYMMETRY Interchangeable
VIEW NoSignals
INVARIANTS TypeOK
PROPERTIES ImplementsLedger DoubleBookingsAreRaces ConfirmedClashesAreRaces LimitAsCounted
