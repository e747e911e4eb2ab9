-------------------------------- MODULE Club --------------------------------
(***************************************************************************)
(* What owners edit: weekly hours and exceptions (ScheduleService,         *)
(* ScheduleExceptionsService), rooms, tables and closures (RoomsService,   *)
(* TablesService, ClosuresService).  A call runs one database statement    *)
(* per step and stops where an error is answered; the first statement      *)
(* belongs to its start.  Names, reasons, order and time zone are left out *)
(* and times count from midnight, in the zone of the club.                 *)
(***************************************************************************)
EXTENDS Intervals, FiniteSets

CONSTANTS
    Rooms, Tables, Exceptions,  \* ids
    Days, Dates, DayOf,  \* days of the week, dates, and the day of each date
    Times,       \* opening and closing times
    Numbers,     \* table numbers, unique within a room
    Sizes,       \* capacities
    Ranges,      \* what is closed or booked
    HoursPatches, TablePatches,  \* bodies of PATCH requests
    FirstHours, FirstException,  \* what there is at the start
    Calls,       \* owners' calls in flight
    None,        \* null, and undefined in a request
    MaxCalls     \* bound: calls

Optional(S) == S \cup {None}

(* A field that is None is not in the body. *)
HoursPatch == [type: Optional({"closed", "special_hours"}),
               opensAt: Optional(Times), closesAt: Optional(Times)]

TablePatch == [room: Optional(Rooms), number: Optional(Numbers),
               capacity: Optional(Sizes), isActive: Optional(BOOLEAN)]

(* closesAt and opensAt are null on closed days and in order on others.    *)
Consistent(closed, opens, closes) ==
    IF closed THEN opens = None /\ closes = None
    ELSE opens # None /\ closes # None /\ opens < closes

Hours == {h \in [isClosed: BOOLEAN, opensAt: Optional(Times), closesAt: Optional(Times)] :
            Consistent(h.isClosed, h.opensAt, h.closesAt)}

ASSUME ClubAssumption ==
    /\ FirstHours \cup FirstException \subseteq Optional(Hours)
    /\ HoursPatches \subseteq HoursPatch /\ TablePatches \subseteq TablePatch
    /\ \A body \in HoursPatches \cup TablePatches : \E f \in DOMAIN body : body[f] # None
    /\ DayOf \in [Dates -> Days]
    /\ Times \subseteq Nat /\ Sizes \subseteq Nat /\ MaxCalls \in Nat
    /\ Ranges \subseteq [start: Nat, end: Nat]
    /\ \A iv \in Ranges : iv.start < iv.end

Table == [room: Rooms, number: Numbers, capacity: Sizes, isActive: BOOLEAN]

(* Ids are UUIDs: no room has that of a table. *)
ASSUME IdAssumption == Rooms \cap Tables = {}

ASSUME NoneAssumption == None \notin Table \cup BOOLEAN \cup Hours

Closure == [place: Rooms \cup Tables, iv: Ranges]

(* Two bookings may overlap, or even be alike: n tells them apart.         *)
Booking == [n: Nat, table: Tables, iv: Ranges]

VARIABLES
    weekly,      \* working hours of each day, None where they are missing
    exceptions,  \* rows of schedule_exceptions: [date, hours], or None
    spent,       \* ids of exceptions that have been given out
    rooms,       \* isActive of each room, or None
    tables,      \* rows of club_tables, or None
    closures, bookings,  \* rows of closures, active rows of bookings
    pc, loc,     \* the next statement of each call, and what it remembers
    calls,       \* calls made
    edits,       \* history: changes of the rows above
    overtaken    \* history: calls whose exception was written meanwhile

places == <<rooms, tables>>
schedule == <<weekly, exceptions, spent>>
clubVars == <<weekly, exceptions, spent, rooms, tables, closures, bookings,
              pc, loc, calls, edits, overtaken>>

(* id is the row a call is about, body its request, row what it will write. *)
NoCall == [id |-> None, body |-> None, row |-> None]

ClubInit ==
    /\ weekly \in [Days -> FirstHours]
    /\ \E e \in Exceptions, d \in Dates, h \in FirstException :
        /\ exceptions = [x \in Exceptions |-> IF x = e /\ h # None
                                               THEN [date |-> d, hours |-> h] ELSE None]
        /\ spent = {x \in Exceptions : exceptions[x] # None}
    /\ \E r \in Rooms, t \in Tables, n \in Numbers, c \in Sizes :
        /\ rooms = [s \in Rooms |-> IF s = r THEN TRUE ELSE None]
        /\ tables = [u \in Tables |->
            IF u = t THEN [room |-> r, number |-> n, capacity |-> c, isActive |-> TRUE]
            ELSE None]
    /\ closures = {} /\ bookings = {}
    /\ pc = [c \in Calls |-> "idle"] /\ loc = [c \in Calls |-> NoCall]
    /\ calls = 0 /\ edits = 0 /\ overtaken = {}

Goto(c, step) == pc' = [pc EXCEPT ![c] = step]

Enter(c, step, id, body, row) ==
    /\ pc[c] = "idle" /\ calls < MaxCalls
    /\ calls' = calls + 1
    /\ Goto(c, step)
    /\ loc' = [loc EXCEPT ![c] = [id |-> id, body |-> body, row |-> row]]
    /\ UNCHANGED <<schedule, places, closures, bookings, edits, overtaken>>

(* A call of a single statement. *)
AtOnce(c) ==
    /\ pc[c] = "idle" /\ calls < MaxCalls
    /\ calls' = calls + 1 /\ edits' = edits + 1
    /\ UNCHANGED <<pc, loc>>

Done(c) ==
    /\ Goto(c, "idle")
    /\ loc' = [loc EXCEPT ![c] = NoCall]
    /\ overtaken' = overtaken \ {c}
    /\ UNCHANGED calls

Written(c) == Done(c) /\ edits' = edits + 1

Refused(c) == Done(c) /\ UNCHANGED <<schedule, places, closures, bookings, edits>>

-----------------------------------------------------------------------------
(* ScheduleService. *)

ensureUniqueDays(days) == \A x, y \in days : x.day = y.day => x = y

(* One transaction for all days of the request. *)
updateWorkingHours(c) ==
    /\ \E days \in SUBSET [day: Days, hours: Hours] :
        /\ days # {} /\ Cardinality(days) <= 2
        /\ ensureUniqueDays(days)
        /\ weekly' = [d \in Days |-> IF \E x \in days : x.day = d
                                     THEN (CHOOSE x \in days : x.day = d).hours
                                     ELSE weekly[d]]
    /\ AtOnce(c)
    /\ UNCHANGED <<exceptions, spent, places, closures, bookings, overtaken>>

-----------------------------------------------------------------------------
(* ScheduleExceptionsService. *)

findScheduleExceptionByDate(date) ==
    {e \in Exceptions : exceptions[e] # None /\ exceptions[e].date = date}

(* The date is unique; a second exception is answered with a conflict.     *)
createScheduleException(c) ==
    /\ \E e \in Exceptions \ spent, date \in Dates, hours \in Hours :
        /\ findScheduleExceptionByDate(date) = {}
        /\ exceptions' = [exceptions EXCEPT ![e] = [date |-> date, hours |-> hours]]
        /\ spent' = spent \cup {e}
    /\ AtOnce(c)
    /\ UNCHANGED <<weekly, places, closures, bookings, overtaken>>

mergedPayload(body, old) ==
    [isClosed |-> IF body.type = None THEN old.isClosed ELSE body.type = "closed",
     opensAt |-> IF body.opensAt = None THEN old.opensAt ELSE body.opensAt,
     closesAt |-> IF body.closesAt = None THEN old.closesAt ELSE body.closesAt]

(* Mutant of normalizeExceptionPayload: only what the request itself says  *)
(* is looked at, not the row it is merged with.                            *)
NormalizeRequestOnly(body, old) ==
    {h \in {mergedPayload(body, old)} :
        None \notin {body.opensAt, body.closesAt} => body.opensAt < body.closesAt}

(* The row to write, or nothing where the request is refused.              *)
normalizeExceptionPayload(body, old) == {mergedPayload(body, old)} \cap Hours

updateScheduleException(c) ==
    \E e \in Exceptions, body \in HoursPatches :
        /\ exceptions[e] # None
        /\ \E h \in normalizeExceptionPayload(body, exceptions[e].hours) :
            Enter(c, "find exception", e, body, h)

(* The repository looks for the row again. *)
FindException(c) ==
    /\ pc[c] = "find exception"
    /\ IF exceptions[loc[c].id] = None
       THEN Refused(c)
       ELSE /\ Goto(c, "write exception")
            /\ UNCHANGED <<schedule, places, closures, bookings, loc, calls, edits, overtaken>>

(* Calls under way on exception e learn that it is no longer what they read. *)
Overtake(c, e) ==
    overtaken' = (overtaken \cup {d \in Calls : pc[d] # "idle" /\ loc[d].id = e}) \ {c}

WriteException(c) ==
    /\ pc[c] = "write exception"
    /\ \/ /\ exceptions[loc[c].id] = None
          /\ Refused(c)
       \/ /\ exceptions[loc[c].id] # None
          /\ exceptions' = [exceptions EXCEPT ![loc[c].id].hours = loc[c].row]
          /\ Overtake(c, loc[c].id)
          /\ Goto(c, "idle") /\ loc' = [loc EXCEPT ![c] = NoCall]
          /\ edits' = edits + 1
          /\ UNCHANGED <<weekly, spent, places, closures, bookings, calls>>

deleteScheduleException(c) ==
    \E e \in Exceptions :
        /\ exceptions[e] # None
        /\ Enter(c, "delete exception", e, None, None)

(* Of two calls that delete a row the second fails. *)
DeleteException(c) ==
    /\ pc[c] = "delete exception"
    /\ \/ /\ exceptions[loc[c].id] = None
          /\ Refused(c)
       \/ /\ exceptions[loc[c].id] # None
          /\ exceptions' = [exceptions EXCEPT ![loc[c].id] = None]
          /\ Written(c)
          /\ UNCHANGED <<weekly, spent, places, closures, bookings>>

-----------------------------------------------------------------------------
(* RoomsService.  Of a room only isActive is kept, and a request may leave *)
(* that out; deleting a room deactivates it.                *)

createRoom(c) ==
    /\ \E r \in Rooms, active \in BOOLEAN :
        /\ rooms[r] = None
        /\ rooms' = [rooms EXCEPT ![r] = active]
    /\ AtOnce(c)
    /\ UNCHANGED <<schedule, tables, closures, bookings, overtaken>>

updateRoom(c) ==
    \E r \in Rooms, body \in [isActive: Optional(BOOLEAN)] :
        rooms[r] # None /\ Enter(c, "write room", r, body, None)

deactivateRoom(c) ==
    \E r \in Rooms : rooms[r] = TRUE /\ Enter(c, "write room", r, [isActive |-> FALSE], None)

WriteRoom(c) ==
    /\ pc[c] = "write room"
    /\ rooms' = [rooms EXCEPT ![loc[c].id] =
            IF loc[c].body.isActive = None THEN @ ELSE loc[c].body.isActive]
    /\ Written(c)
    /\ UNCHANGED <<schedule, tables, closures, bookings>>

-----------------------------------------------------------------------------
(* TablesService. *)

NumberTaken(room, number, except) ==
    \E t \in Tables \ {except} :
        tables[t] # None /\ tables[t].room = room /\ tables[t].number = number

createTable(c) ==
    \E t \in Tables, row \in Table :
        /\ tables[t] = None
        /\ \A d \in Calls : pc[d] = "insert table" => loc[d].id # t  \* a new id
        /\ rooms[row.room] # None  \* roomExists
        /\ Enter(c, "insert table", t, None, row)

InsertTable(c) ==
    LET t == loc[c].id
        row == loc[c].row
    IN  /\ pc[c] = "insert table"
        /\ \/ /\ NumberTaken(row.room, row.number, t)
              /\ Refused(c)
           \/ /\ ~NumberTaken(row.room, row.number, t)
              /\ tables' = [tables EXCEPT ![t] = row]
              /\ Written(c)
              /\ UNCHANGED <<schedule, rooms, closures, bookings>>

updateTable(c) ==
    \E t \in Tables, body \in TablePatches :
        /\ body.room # None => rooms[body.room] # None  \* roomExists
        /\ Enter(c, "find table", t, body, None)

deactivateTable(c) ==
    \E t \in Tables :
        Enter(c, "find active table", t, [room |-> None, number |-> None, capacity |-> None,
                                          isActive |-> FALSE], None)

(* Nothing is written to a table that is not there, nor to one that is to  *)
(* be taken out of use and is already.                                     *)
FindTable(c) ==
    LET found == tables[loc[c].id]
    IN  /\ pc[c] \in {"find table", "find active table"}
        /\ IF found = None \/ (pc[c] = "find active table" /\ ~found.isActive)
           THEN Refused(c)
           ELSE /\ Goto(c, "write table")
                /\ loc' = [loc EXCEPT ![c].row = found]
                /\ UNCHANGED <<schedule, places, closures, bookings, calls, edits, overtaken>>

(* What the body gives, on top of a row. *)
Patched(row, body) ==
    [f \in DOMAIN row |-> IF body[f] = None THEN row[f] ELSE body[f]]

(* Mutant of buildTableUpdateData: the row that was found is written back. *)
WholeRow(c) == Patched(loc[c].row, loc[c].body)

(* Only the fields of the request are written, onto the row as it is now.  *)
buildTableUpdateData(c) == Patched(tables[loc[c].id], loc[c].body)

WriteTable(c) ==
    LET new == buildTableUpdateData(c)
    IN  /\ pc[c] = "write table"
        /\ \/ /\ NumberTaken(new.room, new.number, loc[c].id)
              /\ Refused(c)
           \/ /\ ~NumberTaken(new.room, new.number, loc[c].id)
              /\ tables' = [tables EXCEPT ![loc[c].id] = new]
              /\ Written(c)
              /\ UNCHANGED <<schedule, rooms, closures, bookings>>

-----------------------------------------------------------------------------
(* ClosuresService, and the bookings that members make and cancel.         *)

createClosure(c) ==
    \E closure \in Closure :
        /\ closure.place \in Rooms => rooms[closure.place] # None
        /\ closure.place \in Tables => tables[closure.place] # None
        /\ Enter(c, "insert closure", closure.place, None, closure)

InsertClosure(c) ==
    /\ pc[c] = "insert closure"
    /\ closures' = closures \cup {loc[c].row}
    /\ Written(c)
    /\ UNCHANGED <<schedule, places, bookings>>

(* Requests that race may book a table twice (module BookingRaces).        *)
BookingMade(c) ==
    /\ \E t \in Tables, iv \in Ranges :
        /\ tables[t] # None
        /\ bookings' = bookings \cup {[n |-> calls, table |-> t, iv |-> iv]}
    /\ AtOnce(c)
    /\ UNCHANGED <<schedule, places, closures, overtaken>>

BookingCancelled(c) ==
    /\ \E b \in bookings : bookings' = bookings \ {b}
    /\ AtOnce(c)
    /\ UNCHANGED <<schedule, places, closures, overtaken>>

-----------------------------------------------------------------------------
EditSchedule(c) ==
    \/ updateWorkingHours(c) \/ createScheduleException(c)
    \/ updateScheduleException(c) \/ FindException(c) \/ WriteException(c)
    \/ deleteScheduleException(c) \/ DeleteException(c)

EditPlaces(c) ==
    \/ createRoom(c) \/ updateRoom(c) \/ deactivateRoom(c) \/ WriteRoom(c)
    \/ createTable(c) \/ InsertTable(c)
    \/ updateTable(c) \/ deactivateTable(c) \/ FindTable(c) \/ WriteTable(c)

BlockTime(c) ==
    \/ createClosure(c) \/ InsertClosure(c) \/ BookingMade(c) \/ BookingCancelled(c)

ClubNext == \E c \in Calls : EditSchedule(c) \/ EditPlaces(c) \/ BlockTime(c)

=============================================================================
