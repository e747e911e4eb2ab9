\* Owners edit the club twice while two calls are in flight.
SPECIFICATION RaceSpec
CONSTANTS
    Requests = {r1, r2}
    Users = {u1}
    BookingIds = {b1}
    Tables = {t1}
    Rooms = {room1, room2}
    Intervals <- BackToBack
    Schedules <- OpenOrClosed
    Rules <- NoneOrOne
    DefaultLimit = 3
    None = None
    DayMinutes = 24
    SlotStep = 1
    MaxEdits = 2
    MaxHistory = 2
    MaxTime = 0
SYMMETRY Interchangeable
VIEW NoSignals
PROPERTIES AdmissionSound
