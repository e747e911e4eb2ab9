---------------------------- MODULE Availability ----------------------------
(***************************************************************************)
(* BookingsService.getAvailability, reading the club while owners edit it  *)
(* and members book: one query at a time, one database statement per step, *)
(* the last three of them at once and in any order.                        *)
(***************************************************************************)
EXTENDS Club

CONSTANTS
    Date,        \* the date asked about
    SlotStep,    \* slotStepMinutes of the active rule, None without a rule
    Questions,   \* what is asked: [minutes, partySize, roomId], each may be None
    DayMinutes,  \* length of a day
    MaxQueries   \* bound: queries

ASSUME AvailabilityAssumption ==
    /\ Date \in Dates
    /\ SlotStep \in Optional(Int)
    /\ Questions \subseteq [minutes: Optional(Nat), partySize: Optional(Sizes),
                            roomId: Optional(Rooms)]
    /\ DayMinutes \in Nat /\ \A t \in Times : t < DayMinutes
    /\ MaxQueries \in Nat

VARIABLES
    step,     \* of the query
    ask,      \* its parameters and what it has read
    offered,  \* availableSlots of the last answer
    queries,  \* queries made
    asOf,     \* history: the value of edits when the query began
    stood     \* history: what has been in the way ever since

query == <<step, ask, offered, queries, asOf, stood>>
vars == <<weekly, exceptions, spent, rooms, tables, closures, bookings, pc, loc, calls,
          edits, overtaken, step, ask, offered, queries, asOf, stood>>

resolveSlotStepMinutes(n) == IF n = None \/ n <= 0 THEN 30 ELSE n

slotMinutes == resolveSlotStepMinutes(SlotStep)

Reads == {"room closures", "table closures", "bookings"}

(* rooms holds the rooms found, listed the tables found with their rooms,  *)
(* ranges what is in the way at each place.                                *)
NoQuery == [duration |-> slotMinutes, partySize |-> None, roomId |-> None,
            hours |-> None, rooms |-> {}, listed |-> {}, todo |-> {}, ranges |-> {}]

(* The rows of a list: bookings and the two kinds of closure are kept      *)
(* apart, and one that ends does not hide another at the same time.        *)
RowsOf(list) ==
    IF list = "bookings"
    THEN {[list |-> list, place |-> b.table, iv |-> b.iv] : b \in bookings}
    ELSE {[list |-> list, place |-> c.place, iv |-> c.iv] : c \in {c \in closures :
            c.place \in IF list = "room closures" THEN Rooms ELSE Tables}}

Obstacles == UNION {RowsOf(list) : list \in Reads}

Init ==
    /\ ClubInit
    /\ step = "idle" /\ ask = NoQuery /\ offered = {} /\ queries = 0
    /\ asOf = 0 /\ stood = {}

-----------------------------------------------------------------------------
(* The slots of one table. *)

(* Mutant of buildAvailableSlots: a slot may not end when the day does.    *)
SlotsBeforeTheEnd(open, close, duration, blocked) ==
    LET from[s \in Nat] ==
            IF s + duration >= close THEN {}
            ELSE LET slot == [start |-> s, end |-> s + duration]
                 IN  from[s + slotMinutes] \cup
                        IF \E iv \in blocked : rangesOverlap(slot, iv) THEN {} ELSE {slot}
    IN  from[open]

buildAvailableSlots(open, close, duration, blocked) ==
    LET from[s \in Nat] ==
            IF s + duration > close THEN {}
            ELSE LET slot == [start |-> s, end |-> s + duration]
                 IN  from[s + slotMinutes] \cup
                        IF \E iv \in blocked : rangesOverlap(slot, iv) THEN {} ELSE {slot}
    IN  from[open]

-----------------------------------------------------------------------------
getAvailability ==
    /\ step \in {"idle", "answered"} /\ queries < MaxQueries
    /\ \E q \in Questions :
        LET duration == IF q.minutes = None THEN slotMinutes ELSE q.minutes
        IN  /\ duration >= slotMinutes /\ duration % slotMinutes = 0
            /\ ask' = [NoQuery EXCEPT !.duration = duration, !.partySize = q.partySize,
                                      !.roomId = q.roomId]
    /\ step' = "exception"
    /\ queries' = queries + 1
    /\ offered' = {}
    /\ asOf' = edits
    /\ stood' = Obstacles
    /\ UNCHANGED clubVars

(* An empty list of rooms is the answer for a day without hours. *)
KnowHours(hours) ==
    /\ step' = IF hours.isClosed THEN "idle" ELSE "rooms"
    /\ ask' = [ask EXCEPT !.hours = hours]

resolveScheduleForDate ==
    /\ step = "exception"
    /\ \/ /\ findScheduleExceptionByDate(Date) = {}
          /\ step' = "weekly"
          /\ UNCHANGED ask
       \/ \E e \in findScheduleExceptionByDate(Date) : KnowHours(exceptions[e].hours)
    /\ UNCHANGED <<offered, queries, asOf, stood, clubVars>>

findWeeklyWorkingHour ==
    /\ step = "weekly"
    /\ \/ /\ weekly[DayOf[Date]] = None
          /\ step' = "idle"
          /\ UNCHANGED ask
       \/ /\ weekly[DayOf[Date]] # None
          /\ KnowHours(weekly[DayOf[Date]])
    /\ UNCHANGED <<offered, queries, asOf, stood, clubVars>>

(* The active rooms, then the active tables of those: two statements.      *)
listActiveRooms ==
    /\ step = "rooms"
    /\ ask' = [ask EXCEPT !.rooms = {r \in Rooms : rooms[r] = TRUE /\ ask.roomId \in {None, r}}]
    /\ step' = "tables"
    /\ UNCHANGED <<offered, queries, asOf, stood, clubVars>>

listActiveTables ==
    /\ step = "tables"
    /\ ask' = [ask EXCEPT !.todo = Reads, !.listed =
            {[table |-> t, room |-> tables[t].room] : t \in {t \in Tables :
                /\ tables[t] # None /\ tables[t].isActive
                /\ tables[t].room \in ask.rooms
                /\ ask.partySize # None => tables[t].capacity >= ask.partySize}}]
    /\ step' = "ranges"
    /\ UNCHANGED <<offered, queries, asOf, stood, clubVars>>

(* Mutant of InTheWay: closures that began before opening are not found.   *)
FromOpeningOn(hours) == {o \in Obstacles :
    o.iv.start < hours.closesAt /\ o.iv.start >= hours.opensAt}

(* The query of each list: what overlaps the hours of the day.             *)
InTheWay(hours) == {o \in Obstacles :
    rangesOverlap(o.iv, [start |-> hours.opensAt, end |-> hours.closesAt])}

(* Where each list looks: the rooms that were listed, or their tables.     *)
PlacesOf(list) ==
    IF list = "room closures" THEN {l.room : l \in ask.listed}
                              ELSE {l.table : l \in ask.listed}

listOverlapping(list) ==
    /\ step = "ranges" /\ list \in ask.todo
    /\ ask' = [ask EXCEPT !.todo = @ \ {list}, !.ranges = @ \cup
            {o \in RowsOf(list) \cap InTheWay(ask.hours) : o.place \in PlacesOf(list)}]
    /\ UNCHANGED <<step, offered, queries, asOf, stood, clubVars>>

AnswerAvailability ==
    /\ step = "ranges" /\ ask.todo = {}
    /\ offered' = UNION {
            {[table |-> l.table, iv |-> slot] : slot \in
                buildAvailableSlots(ask.hours.opensAt, ask.hours.closesAt, ask.duration,
                    {o.iv : o \in {o \in ask.ranges : o.place \in {l.table, l.room}}})} :
            l \in ask.listed}
    /\ step' = "answered"
    /\ UNCHANGED <<ask, queries, asOf, stood, clubVars>>

Reading ==
    \/ getAvailability \/ resolveScheduleForDate \/ findWeeklyWorkingHour
    \/ listActiveRooms \/ listActiveTables \/ AnswerAvailability
    \/ \E list \in Reads : listOverlapping(list)

Editing ==
    /\ ClubNext
    /\ stood' = stood \cap Obstacles'
    /\ UNCHANGED <<step, ask, offered, queries, asOf>>

Next == Reading \/ Editing

Spec == Init /\ [][Next]_vars

=============================================================================
