\* Two owners and one query; a club that starts with one room and one table.
SPECIFICATION Spec
CONSTANTS
    Rooms = {r1, r2}
    Tables = {t1, t2}
    Exceptions = {e1, e2}
    Days = {mon}
    Dates = {day}
    DayOf <- MCDayOf
    Times = {2, 3, 6}
    Numbers = {n1}
    Sizes = {2, 4}
    Ranges <- Afternoon
    HoursPatches <- SomeHours
    TablePatches <- SomeTables
    FirstHours <- MissingOrOpen
    FirstException <- NoneOrSome
    Calls = {c1, c2}
    None = None
    MaxCalls = 2
    Date = day
    SlotStep = 2
    Questions <- SomeQuestions
    DayMinutes = 8
    MaxQueries = 1
SYMMETRY Alike
CHECK_DEADLOCK FALSE
INVARIANTS ClubTypeOK OffersAreFree OffersWhatCanBeBooked
PROPERTIES OnlyAskedChanges
