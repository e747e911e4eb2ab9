\* Two days, one table; slots taken by others, lost answers, an ending session.
SPECIFICATION Spec
CONSTANTS
    Days = {d1, d2}
    Rooms = {r1}
    Tables = {t1}
    RoomOf <- OneRoom
    Slots <- ThreeSlots
    None = None
    MaxLoads = 2
    MaxPosts = 2
    MaxOthers = 1
    Wanted <- MiddleSlots
CHECK_DEADLOCK FALSE
SYMMETRY Alike
INVARIANTS FlowTypeOK ShowsChosenDay SelectionIsOffered OwnBookingNotOffered
PROPERTIES SendsWhatIsSummarised
VIEW Rest
