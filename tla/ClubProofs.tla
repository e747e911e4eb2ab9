------------------------------ MODULE ClubProofs ------------------------------
(* Proofs about what owners edit, for every number of rooms, tables,       *)
(* exceptions and calls.                                                   *)
EXTENDS AvailabilityProperties, FiniteSetTheorems, WellFoundedInduction, TLAPS

(* All steps of a call. *)
CallStep(c) ==
    \/ updateWorkingHours(c) \/ createScheduleException(c)
    \/ updateScheduleException(c) \/ FindException(c) \/ WriteException(c)
    \/ deleteScheduleException(c) \/ DeleteException(c)
    \/ createRoom(c) \/ updateRoom(c) \/ deactivateRoom(c) \/ WriteRoom(c)
    \/ createTable(c) \/ InsertTable(c)
    \/ updateTable(c) \/ deactivateTable(c) \/ FindTable(c) \/ WriteTable(c)
    \/ createClosure(c) \/ InsertClosure(c) \/ BookingMade(c) \/ BookingCancelled(c)

LEMMA NextSplits == [Next]_vars => UNCHANGED clubVars \/ \E c \in Calls : CallStep(c)
  <1>1. Reading => UNCHANGED clubVars
    BY DEF Reading, getAvailability, resolveScheduleForDate, findWeeklyWorkingHour,
       listActiveRooms, listActiveTables, AnswerAvailability, listOverlapping
  <1>2. Editing => \E c \in Calls : CallStep(c)
    BY Zenon DEF Editing, ClubNext, EditSchedule, EditPlaces, BlockTime, CallStep
  <1>3. UNCHANGED vars => UNCHANGED clubVars
    BY DEF vars, clubVars
  <1> QED BY <1>1, <1>2, <1>3 DEF Next

Row == [date: Dates, hours: Hours]

(* The times of a row of hours, which a request may leave out. *)
TimesOfDay == {"opensAt", "closesAt"}

RowsOK ==
    /\ exceptions \in [Exceptions -> Optional(Row)]
    /\ \A e \in Exceptions : exceptions[e] # None => e \in spent
    /\ rooms \in [Rooms -> Optional(BOOLEAN)]
    /\ tables \in [Tables -> Optional(Table)]

(* What call c carries, and how the row it will write relates to the row   *)
(* it was merged with: the times the request leaves out are those of the   *)
(* exception as it still is, unless the call has been overtaken.  An id    *)
(* that was given out is never given to another exception.                 *)
ExceptionCall(c) ==
    pc[c] \in {"find exception", "write exception"} =>
        /\ loc[c].id \in Exceptions \cap spent
        /\ loc[c].row \in Hours
        /\ exceptions[loc[c].id] # None /\ c \notin overtaken =>
              \A f \in TimesOfDay : loc[c].body[f] = None =>
                  loc[c].row[f] = exceptions[loc[c].id].hours[f]

Finding == {"find table", "find active table"}

(* A table is inserted where there is none, and changed where there is one.*)
TableCall(c) ==
    /\ pc[c] \in {"insert table", "write table"} \cup Finding => loc[c].id \in Tables
    /\ pc[c] = "insert table" => loc[c].row \in Table /\ tables[loc[c].id] = None
    /\ pc[c] \in {"write table"} \cup Finding => loc[c].body \in TablePatch
    /\ pc[c] = "write table" => tables[loc[c].id] # None

OtherCall(c) ==
    /\ pc[c] = "delete exception" => loc[c].id \in Exceptions
    /\ pc[c] = "write room" => /\ loc[c].id \in Rooms
                               /\ loc[c].body \in [isActive: Optional(BOOLEAN)]

CallOK(c) == ExceptionCall(c) /\ TableCall(c) /\ OtherCall(c)

InsertsApart ==
    \A c, d \in Calls :
        (pc[c] = "insert table" /\ pc[d] = "insert table" /\ loc[c].id = loc[d].id) => c = d

Carries(new) == {"id", "body"} \subseteq DOMAIN new

Places == /\ pc = [c \in Calls |-> pc[c]]
          /\ loc = [c \in Calls |-> loc[c]]
          /\ \A c \in Calls : Carries(loc[c])

ClubInv == RowsOK /\ Places /\ InsertsApart /\ \A c \in Calls : CallOK(c)

LEMMA InitClub == Init => ClubInv
  <1> SUFFICES ASSUME ClubInit PROVE ClubInv
    BY DEF Init
  <1>1. PICK e \in Exceptions, d \in Dates, h \in FirstException :
          /\ exceptions = [x \in Exceptions |-> IF x = e /\ h # None
                                                 THEN [date |-> d, hours |-> h] ELSE None]
          /\ spent = {x \in Exceptions : exceptions[x] # None}
    BY DEF ClubInit
  <1>2. exceptions \in [Exceptions -> Optional(Row)]
    <2>1. h \in Optional(Hours)
      BY ClubAssumption
    <2>2. h # None => [date |-> d, hours |-> h] \in Row
      BY <2>1 DEF Row, Optional
    <2> QED BY <1>1, <2>2 DEF Optional
  <1>3. PICK r \in Rooms, t \in Tables, n \in Numbers, c \in Sizes :
          /\ rooms = [s \in Rooms |-> IF s = r THEN TRUE ELSE None]
          /\ tables = [u \in Tables |->
              IF u = t THEN [room |-> r, number |-> n, capacity |-> c, isActive |-> TRUE]
              ELSE None]
    BY DEF ClubInit
  <1>4. rooms \in [Rooms -> Optional(BOOLEAN)]
    BY <1>3 DEF Optional
  <1>5. tables \in [Tables -> Optional(Table)]
    <2>1. [room |-> r, number |-> n, capacity |-> c, isActive |-> TRUE] \in Table
      BY DEF Table
    <2> QED BY <1>3, <2>1 DEF Optional
  <1>6. \A x \in Calls : pc[x] = "idle"
    BY DEF ClubInit
  <1>7. Places
    BY DEF Places, ClubInit, Carries, NoCall
  <1>8. RowsOK
    BY <1>1, <1>2, <1>4, <1>5 DEF RowsOK
  <1>9. InsertsApart /\ \A x \in Calls : CallOK(x)
    BY <1>6 DEF InsertsApart, CallOK, ExceptionCall, TableCall, Finding, OtherCall
  <1> QED BY <1>7, <1>8, <1>9 DEF ClubInv

-----------------------------------------------------------------------------
(* What a step does to the calls that do not take it. *)

(* Rows change only under calls that have been overtaken, and a table      *)
(* neither disappears nor appears where a call is about to insert one.     *)
Gentle(d) ==
    /\ spent \subseteq spent'
    /\ d \in overtaken => d \in overtaken'
    /\ pc[d] \in {"find exception", "write exception"} =>
          \/ exceptions'[loc[d].id] \in {None, exceptions[loc[d].id]}
          \/ d \in overtaken'
    /\ pc[d] = "write table" => tables'[loc[d].id] # None
    /\ pc[d] = "insert table" => tables'[loc[d].id] = tables[loc[d].id]

LEMMA OthersKept ==
    ASSUME ClubInv, NEW d \in Calls, pc'[d] = pc[d], loc'[d] = loc[d], Gentle(d)
    PROVE  CallOK(d)'
  <1>1. CallOK(d)
    BY DEF ClubInv
  <1>2. ExceptionCall(d)'
    BY <1>1 DEF CallOK, ExceptionCall, Gentle
  <1>3. TableCall(d)'
    BY <1>1 DEF CallOK, TableCall, Finding, Gentle
  <1>4. OtherCall(d)'
    BY <1>1 DEF CallOK, OtherCall
  <1> QED BY <1>2, <1>3, <1>4 DEF CallOK

(* A step of call c, which goes to label and remembers new. *)
Moves(c, label, new) ==
    pc' = [pc EXCEPT ![c] = label] /\ loc' = [loc EXCEPT ![c] = new]

LEMMA MovesKeep ==
    ASSUME ClubInv, NEW c \in Calls, NEW label, NEW new, Moves(c, label, new), Carries(new),
           RowsOK',
           label = "insert table" =>
              \A d \in Calls : pc[d] = "insert table" => loc[d].id # new.id,
           CallOK(c)', \A d \in Calls \ {c} : Gentle(d)
    PROVE  ClubInv'
  <1>1. Places'
    BY DEF ClubInv, Places, Moves
  <1>2. pc'[c] = label /\ loc'[c] = new
    BY DEF ClubInv, Places, Moves
  <1>3. \A d \in Calls \ {c} : pc'[d] = pc[d] /\ loc'[d] = loc[d]
    BY DEF ClubInv, Places, Moves
  <1>4. InsertsApart'
    <2> SUFFICES ASSUME NEW x \in Calls, NEW y \in Calls, pc'[x] = "insert table",
                        pc'[y] = "insert table", loc'[x].id = loc'[y].id
                 PROVE  x = y
      BY Zenon DEF InsertsApart
    <2>1. CASE x # c /\ y # c
      BY <1>3, <2>1 DEF ClubInv, InsertsApart
    <2>2. CASE x = c /\ y # c
      BY <1>2, <1>3, <2>2
    <2>3. CASE x # c /\ y = c
      BY <1>2, <1>3, <2>3
    <2> QED BY <2>1, <2>2, <2>3
  <1>5. \A d \in Calls : CallOK(d)'
    BY <1>3, OthersKept
  <1> QED BY <1>1, <1>4, <1>5 DEF ClubInv

(* A call that ends asks for nothing. *)
LEMMA EndsWell ==
    ASSUME ClubInv, NEW c \in Calls, Moves(c, "idle", NoCall), RowsOK',
           \A d \in Calls \ {c} : Gentle(d)
    PROVE  ClubInv'
  <1>1. pc'[c] = "idle"
    BY DEF ClubInv, Places, Moves
  <1>2. CallOK(c)'
    BY <1>1 DEF CallOK, ExceptionCall, TableCall, Finding, OtherCall
  <1>3. Carries(NoCall)
    BY DEF Carries, NoCall
  <1> QED BY <1>2, <1>3, MovesKeep

(* A call that begins or goes on changes no row. *)
LEMMA QuietStep ==
    ASSUME ClubInv, NEW c \in Calls, NEW label, NEW new, Moves(c, label, new), Carries(new),
           UNCHANGED <<schedule, places, overtaken>>,
           label = "insert table" =>
              \A d \in Calls : pc[d] = "insert table" => loc[d].id # new.id,
           CallOK(c)'
    PROVE  ClubInv'
  <1>1. RowsOK'
    BY DEF ClubInv, RowsOK, schedule, places
  <1>2. \A d \in Calls : Gentle(d)
    <2> SUFFICES ASSUME NEW d \in Calls PROVE Gentle(d)
      OBVIOUS
    <2>1. CallOK(d)
      BY DEF ClubInv
    <2> QED BY <2>1 DEF Gentle, CallOK, TableCall, Finding, schedule, places
  <1> QED BY <1>1, <1>2, MovesKeep

(* A step of one statement moves no call. *)
LEMMA StillStep ==
    ASSUME ClubInv, UNCHANGED <<pc, loc>>, RowsOK', \A d \in Calls : Gentle(d)
    PROVE  ClubInv'
  <1>1. Places' /\ InsertsApart'
    BY DEF ClubInv, Places, InsertsApart
  <1>2. \A d \in Calls : CallOK(d)'
    BY OthersKept
  <1> QED BY <1>1, <1>2 DEF ClubInv

(* Where no row changes, nor does what calls know of them. *)
LEMMA AllGentle ==
    ASSUME ClubInv, NEW S \in SUBSET Calls, \A d \in S : d \in overtaken => d \in overtaken',
           UNCHANGED <<exceptions, spent, tables>>
    PROVE  \A d \in S : Gentle(d)
  <1> SUFFICES ASSUME NEW d \in S PROVE Gentle(d)
    OBVIOUS
  <1>1. CallOK(d)
    BY DEF ClubInv
  <1> QED BY <1>1 DEF Gentle, CallOK, TableCall, Finding

LEMMA DoneMoves ==
    ASSUME NEW c, Done(c)
    PROVE  Moves(c, "idle", NoCall) /\ overtaken' = overtaken \ {c}
  BY DEF Done, Goto, Moves

LEMMA RefusedKeeps ==
    ASSUME ClubInv, NEW c \in Calls, Refused(c)
    PROVE  ClubInv'
  <1>1. RowsOK'
    BY DEF Refused, ClubInv, RowsOK, schedule, places
  <1>2. Moves(c, "idle", NoCall) /\ overtaken' = overtaken \ {c}
    BY DoneMoves DEF Refused
  <1>3. UNCHANGED <<exceptions, spent, tables>>
    BY DEF Refused, schedule, places
  <1>4. \A d \in Calls \ {c} : Gentle(d)
    BY <1>2, <1>3, AllGentle
  <1> QED BY <1>1, <1>2, <1>4, EndsWell

-----------------------------------------------------------------------------
(* The calls about exceptions. *)

LEMMA EnterMoves ==
    ASSUME ClubInv, NEW c \in Calls, NEW label, NEW id, NEW body, NEW row,
           Enter(c, label, id, body, row)
    PROVE  /\ pc[c] = "idle" /\ pc'[c] = label
           /\ loc'[c].id = id /\ loc'[c].body = body /\ loc'[c].row = row
           /\ Moves(c, label, [id |-> id, body |-> body, row |-> row])
           /\ UNCHANGED <<schedule, places, overtaken>>
  BY DEF Enter, Goto, Moves, ClubInv, Places

(* The statement found the row that it looked for, and changed it. *)
LEMMA WrittenKeeps ==
    ASSUME ClubInv, NEW c \in Calls, Written(c), RowsOK', spent \subseteq spent',
           \A d \in Calls \ {c} :
              /\ pc[d] \in {"find exception", "write exception"} =>
                    exceptions'[loc[d].id] \in {None, exceptions[loc[d].id]}
              /\ pc[d] = "write table" => tables'[loc[d].id] # None
              /\ pc[d] = "insert table" => tables'[loc[d].id] = tables[loc[d].id]
    PROVE  ClubInv'
  <1>1. Moves(c, "idle", NoCall) /\ overtaken' = overtaken \ {c}
    BY DoneMoves DEF Written
  <1>2. \A d \in Calls \ {c} : Gentle(d)
    BY <1>1 DEF Gentle
  <1> QED BY <1>1, <1>2, EndsWell

LEMMA MergeRespects ==
    ASSUME NEW body, NEW old, NEW h \in normalizeExceptionPayload(body, old)
    PROVE  h \in Hours /\ \A f \in TimesOfDay : body[f] = None => h[f] = old[f]
  <1>1. h = mergedPayload(body, old) /\ h \in Hours
    BY DEF normalizeExceptionPayload
  <1>2. /\ h.opensAt = IF body.opensAt = None THEN old.opensAt ELSE body.opensAt
        /\ h.closesAt = IF body.closesAt = None THEN old.closesAt ELSE body.closesAt
    BY <1>1 DEF mergedPayload
  <1>3. /\ body["opensAt"] = None => h["opensAt"] = old["opensAt"]
        /\ body["closesAt"] = None => h["closesAt"] = old["closesAt"]
    BY <1>2
  <1> QED BY <1>1, <1>3 DEF TimesOfDay

LEMMA ScheduleKeeps ==
    ASSUME ClubInv, NEW c \in Calls,
           \/ updateWorkingHours(c) \/ createScheduleException(c)
           \/ updateScheduleException(c) \/ FindException(c) \/ WriteException(c)
           \/ deleteScheduleException(c) \/ DeleteException(c)
    PROVE  ClubInv'
  <1>0. CallOK(c) /\ RowsOK
    BY DEF ClubInv
  <1>1. CASE updateWorkingHours(c)
    <2>1. UNCHANGED <<pc, loc, exceptions, spent, rooms, tables, overtaken>>
      BY <1>1 DEF updateWorkingHours, AtOnce, places
    <2>2. RowsOK'
      BY <1>0, <2>1 DEF RowsOK
    <2>3. \A d \in Calls : Gentle(d)
      BY <2>1, AllGentle
    <2> QED BY <2>1, <2>2, <2>3, StillStep
  <1>2. CASE createScheduleException(c)
    <2>1. PICK e \in Exceptions \ spent, date \in Dates, hours \in Hours :
            /\ exceptions' = [exceptions EXCEPT ![e] = [date |-> date, hours |-> hours]]
            /\ spent' = spent \cup {e}
      BY <1>2 DEF createScheduleException
    <2>2. UNCHANGED <<pc, loc, rooms, tables, overtaken>>
      BY <1>2 DEF createScheduleException, AtOnce, places
    <2>3. [date |-> date, hours |-> hours] \in Optional(Row)
      BY DEF Optional, Row
    <2>4. RowsOK'
      BY <1>0, <2>1, <2>2, <2>3 DEF RowsOK
    <2>5. \A d \in Calls : Gentle(d)
      <3> SUFFICES ASSUME NEW d \in Calls PROVE Gentle(d)
        OBVIOUS
      <3>1. CallOK(d)
        BY DEF ClubInv
      <3>2. pc[d] \in {"find exception", "write exception"} =>
              exceptions'[loc[d].id] = exceptions[loc[d].id]
        BY <1>0, <2>1, <3>1 DEF CallOK, ExceptionCall, RowsOK
      <3> QED BY <2>1, <2>2, <3>1, <3>2 DEF Gentle, CallOK, TableCall, Finding
    <2> QED BY <2>2, <2>4, <2>5, StillStep
  <1>3. CASE updateScheduleException(c)
    <2>1. PICK e \in Exceptions, body \in HoursPatches :
            /\ exceptions[e] # None
            /\ \E h \in normalizeExceptionPayload(body, exceptions[e].hours) :
                  Enter(c, "find exception", e, body, h)
      BY <1>3 DEF updateScheduleException
    <2>2. PICK h \in normalizeExceptionPayload(body, exceptions[e].hours) :
            Enter(c, "find exception", e, body, h)
      BY <2>1
    <2>3. /\ pc'[c] = "find exception" /\ loc'[c].id = e /\ loc'[c].body = body /\ loc'[c].row = h
          /\ Moves(c, "find exception", [id |-> e, body |-> body, row |-> h])
          /\ UNCHANGED <<schedule, places, overtaken>>
      BY <2>2, EnterMoves
    <2>4. h \in Hours /\ \A f \in TimesOfDay : body[f] = None => h[f] = exceptions[e].hours[f]
      BY MergeRespects
    <2>5. e \in spent
      BY <1>0, <2>1 DEF RowsOK
    <2>6. ExceptionCall(c)'
      BY <2>3, <2>4, <2>5 DEF ExceptionCall, schedule
    <2>7. CallOK(c)'
      BY <2>3, <2>6 DEF CallOK, TableCall, Finding, OtherCall
    <2> QED BY <2>3, <2>7, QuietStep DEF Carries
  <1>4. CASE FindException(c)
    <2>1. CASE Refused(c)
      BY <2>1, RefusedKeeps
    <2>2. CASE ~ Refused(c)
      <3>1. /\ pc[c] = "find exception" /\ Goto(c, "write exception") /\ loc' = loc
            /\ UNCHANGED <<schedule, places, overtaken>>
        BY <1>4, <2>2 DEF FindException
      <3>2. /\ Moves(c, "write exception", loc[c]) /\ pc'[c] = "write exception"
            /\ Carries(loc[c])
        BY <3>1 DEF Goto, Moves, ClubInv, Places
      <3>3. CallOK(c)'
        BY <1>0, <3>1, <3>2 DEF CallOK, ExceptionCall, TableCall, Finding, OtherCall, schedule
      <3> QED BY <3>1, <3>2, <3>3, QuietStep
    <2> QED BY <2>1, <2>2
  <1>5. CASE WriteException(c)
    <2>1. CASE Refused(c)
      BY <2>1, RefusedKeeps
    <2>2. CASE ~ Refused(c)
      <3> DEFINE e == loc[c].id
      <3>1. /\ pc[c] = "write exception" /\ exceptions[e] # None
            /\ exceptions' = [exceptions EXCEPT ![e].hours = loc[c].row]
            /\ Overtake(c, e) /\ Moves(c, "idle", NoCall)
            /\ UNCHANGED <<spent, places>>
        BY <1>5, <2>2 DEF WriteException, Goto, Moves
      <3>2. e \in Exceptions /\ loc[c].row \in Hours
        BY <1>0, <3>1 DEF CallOK, ExceptionCall
      <3>3. [exceptions[e] EXCEPT !.hours = loc[c].row] \in Optional(Row)
        BY <1>0, <3>1, <3>2 DEF RowsOK, Optional, Row
      <3>4. exceptions' = [exceptions EXCEPT ![e] = [exceptions[e] EXCEPT !.hours = loc[c].row]]
        BY <3>1
      <3>5. RowsOK'
        <4>1. exceptions' \in [Exceptions -> Optional(Row)]
          BY <1>0, <3>2, <3>3, <3>4 DEF RowsOK
        <4>2. \A x \in Exceptions : exceptions'[x] # None => x \in spent
          BY <1>0, <3>1, <3>2, <3>4 DEF RowsOK
        <4> QED BY <1>0, <3>1, <4>1, <4>2 DEF RowsOK, places
      <3>6. ASSUME NEW d \in Calls \ {c}
            PROVE  Gentle(d)
        <4>1. CallOK(d)
          BY DEF ClubInv
        <4>2. d \in overtaken => d \in overtaken'
          BY <3>1 DEF Overtake
        <4>3. pc[d] \in {"find exception", "write exception"} /\ loc[d].id = e => d \in overtaken'
          BY <3>1 DEF Overtake
        <4>4. pc[d] \in {"find exception", "write exception"} /\ loc[d].id # e =>
                exceptions'[loc[d].id] = exceptions[loc[d].id]
          BY <1>0, <3>4, <4>1 DEF CallOK, ExceptionCall, RowsOK
        <4> QED BY <3>1, <4>1, <4>2, <4>3, <4>4 DEF Gentle, CallOK, TableCall, Finding, places
      <3> QED BY <3>1, <3>5, <3>6, EndsWell
    <2> QED BY <2>1, <2>2
  <1>6. CASE deleteScheduleException(c)
    <2>1. PICK e \in Exceptions : Enter(c, "delete exception", e, None, None)
      BY <1>6 DEF deleteScheduleException
    <2>2. /\ pc'[c] = "delete exception" /\ loc'[c].id = e
          /\ Moves(c, "delete exception", [id |-> e, body |-> None, row |-> None])
          /\ UNCHANGED <<schedule, places, overtaken>>
      BY <2>1, EnterMoves
    <2>3. CallOK(c)'
      BY <2>1, <2>2 DEF CallOK, ExceptionCall, TableCall, Finding, OtherCall
    <2> QED BY <2>1, <2>2, <2>3, QuietStep DEF Carries
  <1>7. CASE DeleteException(c)
    <2>1. CASE Refused(c)
      BY <2>1, RefusedKeeps
    <2>2. CASE ~ Refused(c)
      <3>1. /\ exceptions' = [exceptions EXCEPT ![loc[c].id] = None]
            /\ Written(c) /\ UNCHANGED <<spent, places>>
        BY <1>7, <2>2 DEF DeleteException
      <3>2. RowsOK'
        BY <1>0, <3>1 DEF RowsOK, Optional, places
      <3>3. ASSUME NEW d \in Calls \ {c}
            PROVE  /\ pc[d] \in {"find exception", "write exception"} =>
                        exceptions'[loc[d].id] \in {None, exceptions[loc[d].id]}
                   /\ pc[d] = "write table" => tables'[loc[d].id] # None
                   /\ pc[d] = "insert table" => tables'[loc[d].id] = tables[loc[d].id]
        <4>1. CallOK(d)
          BY DEF ClubInv
        <4> QED BY <1>0, <3>1, <4>1 DEF CallOK, ExceptionCall, TableCall, Finding, RowsOK, places
      <3> QED BY <3>1, <3>2, <3>3, WrittenKeeps
    <2> QED BY <2>1, <2>2
  <1> QED BY <1>1, <1>2, <1>3, <1>4, <1>5, <1>6, <1>7

-----------------------------------------------------------------------------
(* The calls about rooms, tables and closures. *)

LEMMA PatchedTable ==
    ASSUME NEW row \in Table, NEW body \in TablePatch
    PROVE  Patched(row, body) \in Table /\ Patched(row, body) # None
           /\ \A f \in DOMAIN row : Patched(row, body)[f] # row[f] => body[f] # None
  <1>1. DOMAIN row = {"room", "number", "capacity", "isActive"}
    BY DEF Table
  <1>2. Patched(row, body) = [room |-> Patched(row, body)["room"],
                              number |-> Patched(row, body)["number"],
                              capacity |-> Patched(row, body)["capacity"],
                              isActive |-> Patched(row, body)["isActive"]]
    BY <1>1 DEF Patched
  <1>3. /\ Patched(row, body)["room"] \in Rooms
        /\ Patched(row, body)["number"] \in Numbers
        /\ Patched(row, body)["capacity"] \in Sizes
        /\ Patched(row, body)["isActive"] \in BOOLEAN
    BY <1>1 DEF Patched, Table, TablePatch, Optional
  <1>4. Patched(row, body) \in Table
    BY <1>2, <1>3 DEF Table
  <1>5. \A f \in DOMAIN row : Patched(row, body)[f] # row[f] => body[f] # None
    BY <1>1 DEF Patched
  <1> QED BY <1>4, <1>5, NoneAssumption

(* A table that is written to was a table and is one afterwards. *)
LEMMA TableWritten ==
    ASSUME ClubInv, NEW c \in Calls, Written(c), NEW t \in Tables, NEW row \in Table,
           tables' = [tables EXCEPT ![t] = row], UNCHANGED <<schedule, rooms>>,
           \A d \in Calls \ {c} : pc[d] = "insert table" => loc[d].id # t
    PROVE  ClubInv'
  <1>1. RowsOK'
    BY DEF ClubInv, RowsOK, Optional, schedule
  <1>2. row # None
    BY NoneAssumption
  <1>3. ASSUME NEW d \in Calls \ {c}
        PROVE  /\ pc[d] \in {"find exception", "write exception"} =>
                    exceptions'[loc[d].id] \in {None, exceptions[loc[d].id]}
               /\ pc[d] = "write table" => tables'[loc[d].id] # None
               /\ pc[d] = "insert table" => tables'[loc[d].id] = tables[loc[d].id]
    <2>1. CallOK(d) /\ tables \in [Tables -> Optional(Table)]
      BY DEF ClubInv, RowsOK
    <2> QED BY <1>2, <2>1 DEF CallOK, TableCall, Finding, schedule
  <1> QED BY <1>1, <1>3, WrittenKeeps DEF schedule

LEMMA PlacesKeep ==
    ASSUME ClubInv, NEW c \in Calls,
           \/ createRoom(c) \/ updateRoom(c) \/ deactivateRoom(c) \/ WriteRoom(c)
           \/ createTable(c) \/ InsertTable(c)
           \/ updateTable(c) \/ deactivateTable(c) \/ FindTable(c) \/ WriteTable(c)
    PROVE  ClubInv'
  <1>0. CallOK(c) /\ RowsOK
    BY DEF ClubInv
  <1>1. CASE createRoom(c)
    <2>1. UNCHANGED <<pc, loc, exceptions, spent, tables, overtaken>>
      BY <1>1 DEF createRoom, AtOnce, schedule
    <2>2. rooms' \in [Rooms -> Optional(BOOLEAN)]
      BY <1>0, <1>1 DEF createRoom, RowsOK, Optional
    <2>3. RowsOK'
      BY <1>0, <2>1, <2>2 DEF RowsOK
    <2>4. \A d \in Calls : Gentle(d)
      BY <2>1, AllGentle
    <2> QED BY <2>1, <2>3, <2>4, StillStep
  <1>2. CASE updateRoom(c) \/ deactivateRoom(c)
    <2>1. PICK r \in Rooms, body \in [isActive: Optional(BOOLEAN)] :
            Enter(c, "write room", r, body, None)
      BY <1>2 DEF updateRoom, deactivateRoom, Optional
    <2>2. /\ pc'[c] = "write room" /\ loc'[c].id = r /\ loc'[c].body = body /\ loc'[c].row = None
          /\ Moves(c, "write room", [id |-> r, body |-> body, row |-> None])
          /\ UNCHANGED <<schedule, places, overtaken>>
      BY <2>1, EnterMoves
    <2>3. CallOK(c)'
      BY <2>1, <2>2 DEF CallOK, ExceptionCall, TableCall, Finding, OtherCall
    <2> QED BY <2>1, <2>2, <2>3, QuietStep DEF Carries
  <1>3. CASE WriteRoom(c)
    <2>1. Written(c) /\ UNCHANGED <<exceptions, spent, tables>>
      BY <1>3 DEF WriteRoom, schedule
    <2>2. rooms' \in [Rooms -> Optional(BOOLEAN)]
      BY <1>0, <1>3 DEF WriteRoom, CallOK, OtherCall, RowsOK, Optional
    <2>3. RowsOK'
      BY <1>0, <2>1, <2>2 DEF RowsOK
    <2>4. \A d \in Calls \ {c} : CallOK(d)
      BY DEF ClubInv
    <2> QED BY <2>1, <2>3, <2>4, WrittenKeeps DEF CallOK, TableCall, Finding
  <1>4. CASE createTable(c)
    <2>1. PICK t \in Tables, row \in Table :
            /\ tables[t] = None /\ \A d \in Calls : pc[d] = "insert table" => loc[d].id # t
            /\ Enter(c, "insert table", t, None, row)
      BY <1>4 DEF createTable
    <2>2. /\ pc'[c] = "insert table" /\ loc'[c].id = t /\ loc'[c].body = None /\ loc'[c].row = row
          /\ Moves(c, "insert table", [id |-> t, body |-> None, row |-> row])
          /\ UNCHANGED <<schedule, places, overtaken>>
      BY <2>1, EnterMoves
    <2>3. CallOK(c)'
      BY <2>1, <2>2 DEF CallOK, ExceptionCall, TableCall, Finding, OtherCall, places
    <2> QED BY <2>1, <2>2, <2>3, QuietStep DEF Carries
  <1>5. CASE InsertTable(c)
    <2>1. CASE Refused(c)
      BY <2>1, RefusedKeeps
    <2>2. CASE ~ Refused(c)
      <3>1. /\ pc[c] = "insert table" /\ Written(c) /\ UNCHANGED <<schedule, rooms>>
            /\ tables' = [tables EXCEPT ![loc[c].id] = loc[c].row]
        BY <1>5, <2>2 DEF InsertTable
      <3>2. loc[c].id \in Tables /\ loc[c].row \in Table
        BY <1>0, <3>1 DEF CallOK, TableCall, Finding
      <3>3. \A d \in Calls \ {c} : pc[d] = "insert table" => loc[d].id # loc[c].id
        BY <3>1 DEF ClubInv, InsertsApart
      <3> QED BY <3>1, <3>2, <3>3, TableWritten
    <2> QED BY <2>1, <2>2
  <1>6. CASE updateTable(c) \/ deactivateTable(c)
    <2>1. PICK first \in Finding, t \in Tables, body \in TablePatch :
            Enter(c, first, t, body, None)
      <3>1. [room |-> None, number |-> None, capacity |-> None, isActive |-> FALSE] \in TablePatch
        BY DEF TablePatch, Optional
      <3> QED BY <1>6, <3>1, ClubAssumption DEF updateTable, deactivateTable, Finding
    <2>2. /\ pc'[c] = first /\ loc'[c].id = t /\ loc'[c].body = body /\ loc'[c].row = None
          /\ Moves(c, first, [id |-> t, body |-> body, row |-> None])
          /\ UNCHANGED <<schedule, places, overtaken>>
      BY <2>1, EnterMoves
    <2>3. CallOK(c)'
      BY <2>1, <2>2 DEF CallOK, ExceptionCall, TableCall, Finding, OtherCall
    <2>4. Carries([id |-> t, body |-> body, row |-> None]) /\ first # "insert table"
      BY <2>1 DEF Carries, Finding
    <2> QED BY <2>2, <2>3, <2>4, QuietStep
  <1>7. CASE FindTable(c)
    <2>1. CASE Refused(c)
      BY <2>1, RefusedKeeps
    <2>2. CASE ~ Refused(c)
      <3> DEFINE new == [loc[c] EXCEPT !.row = tables[loc[c].id]]
      <3>1. /\ pc[c] \in Finding /\ tables[loc[c].id] # None /\ Moves(c, "write table", new)
            /\ UNCHANGED <<schedule, places, overtaken>>
        BY <1>7, <2>2 DEF FindTable, Finding, Goto, Moves
      <3>2. new.id = loc[c].id /\ new.body = loc[c].body
        BY DEF ClubInv, Places, Carries
      <3>3. pc'[c] = "write table" /\ loc'[c] = new /\ Carries(new)
        BY <3>1 DEF Moves, ClubInv, Places, Carries
      <3> HIDE DEF new
      <3>4. CallOK(c)'
        BY <1>0, <3>1, <3>2, <3>3 DEF CallOK, ExceptionCall, TableCall, Finding, OtherCall, places
      <3> QED BY <3>1, <3>3, <3>4, QuietStep
    <2> QED BY <2>1, <2>2
  <1>8. CASE WriteTable(c)
    <2>1. CASE Refused(c)
      BY <2>1, RefusedKeeps
    <2>2. CASE ~ Refused(c)
      <3> DEFINE row == Patched(tables[loc[c].id], loc[c].body)
      <3>1. /\ pc[c] = "write table" /\ Written(c) /\ UNCHANGED <<schedule, rooms>>
            /\ tables' = [tables EXCEPT ![loc[c].id] = row]
        BY <1>8, <2>2 DEF WriteTable, buildTableUpdateData
      <3>2. /\ loc[c].id \in Tables /\ loc[c].body \in TablePatch
            /\ tables[loc[c].id] # None /\ tables[loc[c].id] \in Table
        BY <1>0, <3>1 DEF CallOK, TableCall, Finding, RowsOK, Optional
      <3>3. row \in Table
        BY <3>2, PatchedTable
      <3>4. ASSUME NEW d \in Calls, pc[d] = "insert table"
            PROVE  loc[d].id # loc[c].id
        <4>1. CallOK(d)
          BY DEF ClubInv
        <4> QED BY <3>2, <3>4, <4>1 DEF CallOK, TableCall, Finding
      <3> HIDE DEF row
      <3> QED BY <3>1, <3>2, <3>3, <3>4, TableWritten
    <2> QED BY <2>1, <2>2
  <1> QED BY <1>1, <1>2, <1>3, <1>4, <1>5, <1>6, <1>7, <1>8

LEMMA TimeKeeps ==
    ASSUME ClubInv, NEW c \in Calls,
           createClosure(c) \/ InsertClosure(c) \/ BookingMade(c) \/ BookingCancelled(c)
    PROVE  ClubInv'
  <1>0. RowsOK
    BY DEF ClubInv
  <1>1. CASE createClosure(c)
    <2>1. PICK closure : Enter(c, "insert closure", closure.place, None, closure)
      BY <1>1 DEF createClosure
    <2>2. /\ pc'[c] = "insert closure"
          /\ Moves(c, "insert closure", [id |-> closure.place, body |-> None, row |-> closure])
          /\ UNCHANGED <<schedule, places, overtaken>>
      BY <2>1, EnterMoves
    <2>3. CallOK(c)'
      BY <2>1, <2>2 DEF CallOK, ExceptionCall, TableCall, Finding, OtherCall
    <2> QED BY <2>1, <2>2, <2>3, QuietStep DEF Carries
  <1>2. CASE InsertClosure(c)
    <2>1. Written(c) /\ UNCHANGED <<schedule, places>>
      BY <1>2 DEF InsertClosure
    <2>2. RowsOK'
      BY <1>0, <2>1 DEF RowsOK, schedule, places
    <2>3. \A d \in Calls \ {c} : CallOK(d)
      BY DEF ClubInv
    <2> QED BY <2>1, <2>2, <2>3, WrittenKeeps DEF CallOK, TableCall, Finding, schedule, places
  <1>3. CASE BookingMade(c) \/ BookingCancelled(c)
    <2>1. UNCHANGED <<pc, loc, exceptions, spent, rooms, tables, overtaken>>
      BY <1>3 DEF BookingMade, BookingCancelled, AtOnce, schedule, places
    <2>2. RowsOK'
      BY <1>0, <2>1 DEF RowsOK
    <2>3. \A d \in Calls : Gentle(d)
      BY <2>1, AllGentle
    <2> QED BY <2>1, <2>2, <2>3, StillStep
  <1> QED BY <1>1, <1>2, <1>3

LEMMA NextClub == ClubInv /\ [Next]_vars => ClubInv'
  <1> SUFFICES ASSUME ClubInv, [Next]_vars PROVE ClubInv'
    OBVIOUS
  <1>1. ASSUME UNCHANGED clubVars
        PROVE  ClubInv'
    <2>1. UNCHANGED <<pc, loc, exceptions, spent, rooms, tables, overtaken>>
      BY <1>1 DEF clubVars
    <2>2. RowsOK'
      BY <2>1 DEF ClubInv, RowsOK
    <2>3. \A d \in Calls : Gentle(d)
      BY <2>1, AllGentle
    <2> QED BY <2>1, <2>2, <2>3, StillStep
  <1>2. ASSUME NEW c \in Calls, CallStep(c)
        PROVE  ClubInv'
    BY <1>2, ScheduleKeeps, PlacesKeep, TimeKeeps DEF CallStep
  <1> QED BY <1>1, <1>2, NextSplits

LEMMA ClubKept == Spec => []ClubInv
  BY InitClub, NextClub, PTL DEF Spec

-----------------------------------------------------------------------------
(* Which statements write to which rows, and what a step counts. *)
Entering(c) ==
    \/ updateScheduleException(c) \/ deleteScheduleException(c) \/ updateRoom(c)
    \/ deactivateRoom(c) \/ createTable(c) \/ updateTable(c) \/ deactivateTable(c)
    \/ createClosure(c)

AllRows == <<weekly, exceptions, spent, rooms, tables, closures, bookings>>

LEMMA EnteringKeepsRows ==
    ASSUME NEW c, Entering(c)
    PROVE  /\ \E label, new : Moves(c, label, new)
           /\ calls' = calls + 1 /\ UNCHANGED <<AllRows, edits, overtaken>>
  <1>1. \E label, id, body, row : Enter(c, label, id, body, row)
    BY Zenon DEF Entering, updateScheduleException, deleteScheduleException, updateRoom,
       deactivateRoom, createTable, updateTable, deactivateTable, createClosure
  <1>2. PICK label, id, body, row : Enter(c, label, id, body, row)
    BY <1>1
  <1>3. Moves(c, label, [id |-> id, body |-> body, row |-> row])
    BY <1>2 DEF Enter, Goto, Moves
  <1>4. calls' = calls + 1 /\ UNCHANGED <<AllRows, edits, overtaken>>
    BY <1>2 DEF Enter, AllRows, schedule, places
  <1> QED BY <1>3, <1>4

LEMMA RefusedKeepsRows ==
    ASSUME NEW c, Refused(c)
    PROVE  /\ Moves(c, "idle", NoCall)
           /\ overtaken' = overtaken \ {c} /\ UNCHANGED <<AllRows, calls, edits>>
  BY DoneMoves DEF Refused, Done, AllRows, schedule, places

(* The steps that read no more than whether a row is there. *)
LEMMA FindingKeepsRows ==
    ASSUME NEW c, FindException(c) \/ FindTable(c)
    PROVE  /\ UNCHANGED <<AllRows, calls, edits>>
           /\ overtaken' \in {overtaken, overtaken \ {c}}
           /\ \/ \E label, new : Moves(c, label, new)
              \/ loc' = loc /\ pc' = [pc EXCEPT ![c] = "write exception"]
  <1>1. CASE Refused(c)
    BY <1>1, RefusedKeepsRows
  <1>2. CASE ~ Refused(c)
    BY <1>2 DEF FindException, FindTable, AllRows, schedule, places, Goto, Moves
  <1> QED BY <1>1, <1>2

(* A single statement. *)
LEMMA AtOnceSteps ==
    ASSUME NEW c, \/ updateWorkingHours(c) \/ createScheduleException(c) \/ createRoom(c)
                  \/ BookingMade(c) \/ BookingCancelled(c)
    PROVE  /\ UNCHANGED <<pc, loc, overtaken>> /\ calls' = calls + 1 /\ edits' = edits + 1
           /\ updateWorkingHours(c) \/ weekly' = weekly
           /\ createScheduleException(c) \/ UNCHANGED <<exceptions, spent>>
           /\ createRoom(c) \/ rooms' = rooms
           /\ UNCHANGED <<tables, closures>>
           /\ BookingMade(c) \/ BookingCancelled(c) \/ bookings' = bookings
  <1>1. CASE updateWorkingHours(c)
    BY <1>1 DEF updateWorkingHours, AtOnce, places
  <1>2. CASE createScheduleException(c)
    BY <1>2 DEF createScheduleException, AtOnce, places
  <1>3. CASE createRoom(c)
    BY <1>3 DEF createRoom, AtOnce, schedule
  <1>4. CASE BookingMade(c)
    BY <1>4 DEF BookingMade, AtOnce, schedule, places
  <1>5. CASE BookingCancelled(c)
    BY <1>5 DEF BookingCancelled, AtOnce, schedule, places
  <1> QED BY <1>1, <1>2, <1>3, <1>4, <1>5

(* The last statement of a call, which fails or writes one row. *)
LEMMA WritingSteps ==
    ASSUME NEW c, ~ Refused(c),
           \/ WriteException(c) \/ DeleteException(c) \/ WriteRoom(c)
           \/ InsertTable(c) \/ WriteTable(c) \/ InsertClosure(c)
    PROVE  /\ Moves(c, "idle", NoCall) /\ calls' = calls /\ edits' = edits + 1
           /\ overtaken' = overtaken \ {c} \/ WriteException(c)
           /\ UNCHANGED <<weekly, spent, bookings>>
           /\ WriteException(c) \/ DeleteException(c) \/ exceptions' = exceptions
           /\ WriteRoom(c) \/ rooms' = rooms
           /\ InsertTable(c) \/ WriteTable(c) \/ tables' = tables
           /\ InsertClosure(c) \/ closures' = closures
  <1>1. CASE WriteException(c)
    BY <1>1 DEF WriteException, Goto, Moves, places
  <1>2. CASE DeleteException(c)
    BY <1>2, DoneMoves DEF DeleteException, Written, Done, places
  <1>3. CASE WriteRoom(c)
    BY <1>3, DoneMoves DEF WriteRoom, Written, Done, schedule
  <1>4. CASE InsertTable(c)
    BY <1>4, DoneMoves DEF InsertTable, Written, Done, schedule
  <1>5. CASE WriteTable(c)
    BY <1>5, DoneMoves DEF WriteTable, Written, Done, schedule
  <1>6. CASE InsertClosure(c)
    BY <1>6, DoneMoves DEF InsertClosure, Written, Done, schedule, places
  <1> QED BY <1>1, <1>2, <1>3, <1>4, <1>5, <1>6

(* Who writes to what; a step that writes is counted in edits. *)
LEMMA WhoWrites ==
    ASSUME ClubInv, NEW c \in Calls, CallStep(c)
    PROVE  /\ updateWorkingHours(c) \/ weekly' = weekly
           /\ \/ createScheduleException(c) \/ WriteException(c) \/ DeleteException(c)
              \/ exceptions' = exceptions
           /\ createScheduleException(c) \/ spent' = spent
           /\ createRoom(c) \/ WriteRoom(c) \/ rooms' = rooms
           /\ InsertTable(c) \/ WriteTable(c) \/ tables' = tables
           /\ InsertClosure(c) \/ closures' = closures
           /\ BookingMade(c) \/ BookingCancelled(c) \/ bookings' = bookings
           /\ edits' = edits + 1 \/ UNCHANGED <<AllRows, edits>>
           /\ calls' \in {calls, calls + 1}
           /\ overtaken' \in {overtaken, overtaken \ {c}} \/ WriteException(c)
           /\ \A d \in Calls \ {c} : pc'[d] = pc[d] /\ loc'[d] = loc[d]
  <1>0. ASSUME NEW label, NEW new, Moves(c, label, new)
        PROVE  \A d \in Calls \ {c} : pc'[d] = pc[d] /\ loc'[d] = loc[d]
    BY <1>0 DEF Moves, ClubInv, Places
  <1>1. CASE Entering(c)
    BY <1>0, <1>1, EnteringKeepsRows DEF AllRows
  <1>2. CASE Refused(c)
    BY <1>0, <1>2, RefusedKeepsRows DEF AllRows
  <1>3. CASE FindException(c) \/ FindTable(c)
    <2>1. pc' = [pc EXCEPT ![c] = "write exception"] =>
             \A d \in Calls \ {c} : pc'[d] = pc[d]
      BY DEF ClubInv, Places
    <2> QED BY <1>0, <1>3, <2>1, FindingKeepsRows DEF AllRows
  <1>4. CASE \/ updateWorkingHours(c) \/ createScheduleException(c) \/ createRoom(c)
             \/ BookingMade(c) \/ BookingCancelled(c)
    BY <1>4, AtOnceSteps
  <1>5. CASE /\ ~ Refused(c)
             /\ \/ WriteException(c) \/ DeleteException(c) \/ WriteRoom(c)
                \/ InsertTable(c) \/ WriteTable(c) \/ InsertClosure(c)
    BY <1>0, <1>5, WritingSteps
  <1> QED BY <1>1, <1>2, <1>3, <1>4, <1>5 DEF CallStep, Entering

-----------------------------------------------------------------------------
(* An edit changes what was asked for. *)

LEMMA ExceptionEdits ==
    ASSUME ClubInv, [Next]_vars, NEW e \in Exceptions, exceptions[e] # None,
           exceptions'[e] # None, NEW f \in TimesOfDay,
           exceptions[e].hours[f] # exceptions'[e].hours[f]
    PROVE  \E c \in Calls : MayChange(c, e, f)
  <1>1. RowsOK
    BY DEF ClubInv
  <1>2. exceptions' # exceptions
    OBVIOUS
  <1>3. PICK c \in Calls : CallStep(c)
    BY <1>2, NextSplits DEF clubVars
  <1>4. CASE createScheduleException(c)
    <2>1. PICK x \in Exceptions \ spent, row \in Row :
            exceptions' = [exceptions EXCEPT ![x] = row]
      BY <1>4 DEF createScheduleException, Row
    <2>2. x # e
      BY <1>1 DEF RowsOK
    <2> QED BY <1>1, <2>1, <2>2 DEF RowsOK
  <1>5. CASE DeleteException(c)
    <2>1. exceptions' = [exceptions EXCEPT ![loc[c].id] = None]
      BY <1>2, <1>5 DEF DeleteException, Refused, schedule
    <2> QED BY <1>1, <2>1 DEF RowsOK
  <1>6. CASE WriteException(c)
    <2>1. /\ pc[c] = "write exception"
          /\ exceptions' = [exceptions EXCEPT ![loc[c].id].hours = loc[c].row]
      BY <1>2, <1>6 DEF WriteException, Refused, schedule
    <2>2. loc[c].id = e
      BY <1>1, <2>1 DEF RowsOK
    <2>3. exceptions'[e].hours = loc[c].row
      <3>1. exceptions[e] \in Row /\ exceptions \in [Exceptions -> Optional(Row)]
        BY <1>1 DEF RowsOK, Optional
      <3>2. exceptions'[e] = [exceptions[e] EXCEPT !.hours = loc[c].row]
        BY <2>1, <2>2, <3>1
      <3> QED BY <3>1, <3>2 DEF Row
    <2>4. ExceptionCall(c)
      BY DEF ClubInv, CallOK
    <2> QED BY <2>1, <2>2, <2>3, <2>4 DEF ExceptionCall, MayChange
  <1>7. CASE ~ (createScheduleException(c) \/ DeleteException(c) \/ WriteException(c))
    <2>1. exceptions' = exceptions
      BY <1>3, <1>7, WhoWrites
    <2> QED BY <1>2, <2>1
  <1> QED BY <1>4, <1>5, <1>6, <1>7

LEMMA TableEdits ==
    ASSUME ClubInv, [Next]_vars, NEW t \in Tables, tables[t] # None,
           NEW f \in DOMAIN tables[t], tables[t][f] # tables'[t][f]
    PROVE  \E c \in Calls : Asked(c, t, f)
  <1>1. tables \in [Tables -> Optional(Table)]
    BY DEF ClubInv, RowsOK
  <1>2. tables' # tables
    OBVIOUS
  <1>3. PICK c \in Calls : CallStep(c)
    BY <1>2, NextSplits DEF clubVars
  <1>4. TableCall(c)
    BY DEF ClubInv, CallOK
  <1>5. CASE InsertTable(c)
    <2>1. pc[c] = "insert table" /\ tables' = [tables EXCEPT ![loc[c].id] = loc[c].row]
      BY <1>2, <1>5 DEF InsertTable, Refused, places
    <2> QED BY <1>1, <1>4, <2>1 DEF TableCall, Finding
  <1>6. CASE WriteTable(c)
    <2>1. /\ pc[c] = "write table"
          /\ tables' = [tables EXCEPT ![loc[c].id] = Patched(tables[loc[c].id], loc[c].body)]
      BY <1>2, <1>6 DEF WriteTable, Refused, places, buildTableUpdateData
    <2>2. loc[c].id = t
      BY <1>1, <2>1
    <2>3. tables[t] \in Table /\ loc[c].body \in TablePatch
      BY <1>1, <1>4, <2>1 DEF TableCall, Finding, Optional
    <2>4. tables'[t] = Patched(tables[t], loc[c].body)
      BY <1>1, <2>1, <2>2
    <2> QED BY <2>1, <2>2, <2>3, <2>4, PatchedTable DEF Asked
  <1>7. CASE ~ (InsertTable(c) \/ WriteTable(c))
    <2>1. tables' = tables
      BY <1>3, <1>7, WhoWrites
    <2> QED BY <1>2, <2>1
  <1> QED BY <1>5, <1>6, <1>7

LEMMA RoomEdits ==
    ASSUME ClubInv, [Next]_vars, NEW r \in Rooms, rooms[r] = FALSE, rooms'[r] = TRUE
    PROVE  \E c \in Calls :
             pc[c] = "write room" /\ loc[c].id = r /\ loc[c].body.isActive = TRUE
  <1>1. rooms \in [Rooms -> Optional(BOOLEAN)]
    BY DEF ClubInv, RowsOK
  <1>2. rooms' # rooms
    OBVIOUS
  <1>3. PICK c \in Calls : CallStep(c)
    BY <1>2, NextSplits DEF clubVars
  <1>4. CASE createRoom(c)
    <2>1. PICK s \in Rooms, active \in BOOLEAN :
            rooms[s] = None /\ rooms' = [rooms EXCEPT ![s] = active]
      BY <1>4 DEF createRoom
    <2>2. s # r
      BY <2>1, NoneAssumption
    <2> QED BY <1>1, <2>1, <2>2
  <1>5. CASE WriteRoom(c)
    <2>1. /\ pc[c] = "write room"
          /\ rooms' = [rooms EXCEPT ![loc[c].id] =
                IF loc[c].body.isActive = None THEN rooms[loc[c].id] ELSE loc[c].body.isActive]
      BY <1>5 DEF WriteRoom
    <2>2. loc[c].id = r
      BY <1>1, <2>1
    <2>3. rooms'[r] = IF loc[c].body.isActive = None THEN rooms[r] ELSE loc[c].body.isActive
      BY <1>1, <2>1, <2>2
    <2> QED BY <2>1, <2>2, <2>3
  <1>6. CASE ~ (createRoom(c) \/ WriteRoom(c))
    <2>1. rooms' = rooms
      BY <1>3, <1>6, WhoWrites
    <2> QED BY <1>2, <2>1
  <1> QED BY <1>4, <1>5, <1>6

(* Edits of rooms and tables never undo one another, and one of an         *)
(* exception does so only if it read the row before the other was written  *)
(* (OnlyAskedChanges).                                                     *)
THEOREM EditsDoWhatIsAsked == Spec => OnlyAskedChanges
  <1>1. ClubInv /\ [Next]_vars =>
          [/\ \A e \in Exceptions : exceptions[e] # None /\ exceptions'[e] # None =>
                \A f \in {"opensAt", "closesAt"} :
                    exceptions[e].hours[f] # exceptions'[e].hours[f] =>
                        \E c \in Calls : MayChange(c, e, f)
           /\ \A t \in Tables : tables[t] # None =>
                \A f \in DOMAIN tables[t] : tables[t][f] # tables'[t][f] =>
                    \E c \in Calls : Asked(c, t, f)
           /\ \A r \in Rooms : rooms[r] = FALSE /\ rooms'[r] = TRUE =>
                \E c \in Calls :
                    pc[c] = "write room" /\ loc[c].id = r /\ loc[c].body.isActive = TRUE]_vars
    BY ExceptionEdits, TableEdits, RoomEdits DEF TimesOfDay
  <1> QED BY <1>1, ClubKept, PTL DEF Spec, OnlyAskedChanges

-----------------------------------------------------------------------------
(* Types of the rows. *)

OneExceptionADay ==
    \A e, x \in Exceptions :
        (exceptions[e] # None /\ exceptions[x] # None /\ exceptions[e].date = exceptions[x].date)
            => e = x

RoomsExist == \A t \in Tables : tables[t] # None => rooms[tables[t].room] # None

RowsTyped ==
    /\ weekly \in [Days -> Optional(Hours)]
    /\ spent \subseteq Exceptions
    /\ closures \subseteq Closure /\ bookings \subseteq Booking
    /\ {calls, edits} \subseteq Nat /\ overtaken \subseteq Calls

(* Rooms are never removed: one that was there when it was looked for is   *)
(* there when the table is written.                                        *)
RoomKnown(c) ==
    /\ pc[c] = "insert closure" => loc[c].row \in Closure
    /\ pc[c] = "insert table" => rooms[loc[c].row.room] # None
    /\ (pc[c] \in {"write table"} \cup Finding /\ loc[c].body.room # None)
          => rooms[loc[c].body.room] # None

TypedInv ==
    RowsTyped /\ OneExceptionADay /\ RoomsExist /\ \A c \in Calls : RoomKnown(c)

LEMMA InitTyped == Init => TypedInv
  <1> SUFFICES ASSUME ClubInit PROVE TypedInv
    BY DEF Init
  <1>1. RowsTyped
    BY ClubAssumption DEF ClubInit, RowsTyped, Optional
  <1>2. OneExceptionADay
    BY DEF ClubInit, OneExceptionADay
  <1>3. RoomsExist
    <2>1. PICK r \in Rooms, t \in Tables, n \in Numbers, c \in Sizes :
            /\ rooms = [s \in Rooms |-> IF s = r THEN TRUE ELSE None]
            /\ tables = [u \in Tables |->
                IF u = t THEN [room |-> r, number |-> n, capacity |-> c, isActive |-> TRUE]
                ELSE None]
      BY DEF ClubInit
    <2>2. \A u \in Tables : tables[u] # None => tables[u].room = r
      BY <2>1
    <2> QED BY <2>1, <2>2, NoneAssumption DEF RoomsExist
  <1>4. \A c \in Calls : RoomKnown(c)
    BY DEF ClubInit, RoomKnown, Finding
  <1> QED BY <1>1, <1>2, <1>3, <1>4 DEF TypedInv

LEMMA RoomsStay ==
    ASSUME ClubInv, NEW c \in Calls, CallStep(c), NEW r \in Rooms, rooms[r] # None
    PROVE  rooms'[r] # None
  <1>1. rooms \in [Rooms -> Optional(BOOLEAN)] /\ OtherCall(c)
    BY DEF ClubInv, RowsOK, CallOK
  <1>2. CASE createRoom(c)
    BY <1>1, <1>2, NoneAssumption DEF createRoom
  <1>3. CASE WriteRoom(c)
    BY <1>1, <1>3, NoneAssumption DEF WriteRoom, OtherCall, Optional
  <1>4. CASE ~ createRoom(c) /\ ~ WriteRoom(c)
    BY <1>4, WhoWrites
  <1> QED BY <1>2, <1>3, <1>4

LEMMA RowsStayTyped ==
    ASSUME ClubInv, TypedInv, NEW c \in Calls, CallStep(c)
    PROVE  RowsTyped'
  <1>0. RowsTyped
    BY DEF TypedInv
  <1>1. weekly' \in [Days -> Optional(Hours)]
    <2>1. CASE updateWorkingHours(c)
      <3>1. PICK days \in SUBSET [day: Days, hours: Hours] :
              weekly' = [d \in Days |-> IF \E x \in days : x.day = d
                                         THEN (CHOOSE x \in days : x.day = d).hours
                                         ELSE weekly[d]]
        BY <2>1 DEF updateWorkingHours
      <3>2. ASSUME NEW d \in Days, \E x \in days : x.day = d
            PROVE  (CHOOSE x \in days : x.day = d).hours \in Hours
        BY <3>2
      <3> QED BY <1>0, <3>1, <3>2 DEF RowsTyped, Optional
    <2> QED BY <1>0, <2>1, WhoWrites DEF RowsTyped
  <1>2. spent' \subseteq Exceptions
    <2>1. CASE createScheduleException(c)
      BY <1>0, <2>1 DEF createScheduleException, RowsTyped
    <2> QED BY <1>0, <2>1, WhoWrites DEF RowsTyped
  <1>3. closures' \subseteq Closure
    <2>1. CASE InsertClosure(c)
      BY <1>0, <2>1 DEF InsertClosure, RowsTyped, TypedInv, RoomKnown
    <2> QED BY <1>0, <2>1, WhoWrites DEF RowsTyped
  <1>4. bookings' \subseteq Booking
    <2>1. CASE BookingMade(c)
      <3>1. PICK t \in Tables, iv \in Ranges :
              bookings' = bookings \cup {[n |-> calls, table |-> t, iv |-> iv]}
        BY <2>1 DEF BookingMade
      <3> QED BY <1>0, <3>1 DEF Booking, RowsTyped
    <2>2. CASE BookingCancelled(c)
      BY <1>0, <2>2 DEF BookingCancelled, RowsTyped
    <2> QED BY <1>0, <2>1, <2>2, WhoWrites DEF RowsTyped
  <1>5. {calls', edits'} \subseteq Nat
    BY <1>0, WhoWrites DEF RowsTyped
  <1>6. overtaken' \subseteq Calls
    <2>1. CASE WriteException(c) /\ ~ Refused(c)
      BY <1>0, <2>1 DEF WriteException, Overtake, RowsTyped
    <2>2. CASE Refused(c)
      BY <1>0, <2>2, RefusedKeepsRows DEF RowsTyped
    <2> QED BY <1>0, <2>1, <2>2, WhoWrites DEF RowsTyped
  <1> QED BY <1>1, <1>2, <1>3, <1>4, <1>5, <1>6 DEF RowsTyped

(* No two exceptions of one day: the date was looked for in the statement  *)
(* that inserts, and no edit changes it.                                   *)
LEMMA StillOneADay ==
    ASSUME ClubInv, TypedInv, NEW c \in Calls, CallStep(c)
    PROVE  OneExceptionADay'
  <1>0. exceptions \in [Exceptions -> Optional(Row)] /\ OneExceptionADay
    BY DEF ClubInv, RowsOK, TypedInv
  <1>1. CASE createScheduleException(c)
    <2>1. PICK e \in Exceptions, date \in Dates, hours \in Hours :
            /\ findScheduleExceptionByDate(date) = {}
            /\ exceptions' = [exceptions EXCEPT ![e] = [date |-> date, hours |-> hours]]
      BY <1>1 DEF createScheduleException
    <2>2. exceptions'[e].date = date /\ \A x \in Exceptions \ {e} : exceptions'[x] = exceptions[x]
      BY <1>0, <2>1
    <2>3. \A x \in Exceptions : exceptions[x] # None => exceptions[x].date # date
      BY <2>1 DEF findScheduleExceptionByDate
    <2> QED BY <1>0, <2>2, <2>3 DEF OneExceptionADay
  <1>2. CASE WriteException(c) /\ exceptions' # exceptions
    <2>1. exceptions[loc[c].id] # None /\ loc[c].id \in Exceptions /\
          exceptions' = [exceptions EXCEPT ![loc[c].id].hours = loc[c].row]
      BY <1>2 DEF WriteException, Refused, schedule, ClubInv, CallOK, ExceptionCall
    <2>2. exceptions'[loc[c].id].date = exceptions[loc[c].id].date
      BY <1>0, <2>1 DEF Optional, Row
    <2>3. \A x \in Exceptions \ {loc[c].id} : exceptions'[x] = exceptions[x]
      BY <1>0, <2>1
    <2> QED BY <1>0, <2>1, <2>2, <2>3 DEF OneExceptionADay
  <1>3. CASE DeleteException(c) /\ exceptions' # exceptions
    <2>1. exceptions' = [exceptions EXCEPT ![loc[c].id] = None]
      BY <1>3 DEF DeleteException, Refused, schedule
    <2> QED BY <1>0, <2>1 DEF OneExceptionADay
  <1>4. CASE exceptions' = exceptions
    BY <1>0, <1>4 DEF OneExceptionADay
  <1> QED BY <1>1, <1>2, <1>3, <1>4, WhoWrites

(* A table's room is there. *)
LEMMA RoomsStillExist ==
    ASSUME ClubInv, TypedInv, NEW c \in Calls, CallStep(c)
    PROVE  RoomsExist'
  <1>0. tables \in [Tables -> Optional(Table)] /\ RoomsExist /\ TableCall(c) /\ RoomKnown(c)
    BY DEF ClubInv, RowsOK, CallOK, TypedInv
  <1>1. ASSUME NEW t \in Tables, tables'[t] # None, tables'[t] = tables[t]
        PROVE  rooms'[tables'[t].room] # None
    <2>1. tables[t] \in Table /\ tables[t].room \in Rooms
      BY <1>0, <1>1 DEF Optional, Table
    <2> QED BY <1>0, <1>1, <2>1, RoomsStay DEF RoomsExist
  <1>2. ASSUME NEW t \in Tables, NEW row \in Table, tables' = [tables EXCEPT ![t] = row],
               rooms[row.room] # None
        PROVE  RoomsExist'
    <2>1. row.room \in Rooms
      BY DEF Table
    <2>2. rooms'[row.room] # None
      BY <1>2, <2>1, RoomsStay
    <2> QED BY <1>0, <1>1, <1>2, <2>2 DEF RoomsExist
  <1>3. CASE InsertTable(c) /\ tables' # tables
    <2>1. pc[c] = "insert table" /\ tables' = [tables EXCEPT ![loc[c].id] = loc[c].row]
      BY <1>3 DEF InsertTable, Refused, places
    <2> QED BY <1>0, <1>2, <2>1 DEF TableCall, Finding, RoomKnown
  <1>4. CASE WriteTable(c) /\ tables' # tables
    <2> DEFINE old == tables[loc[c].id]
               row == Patched(old, loc[c].body)
    <2>1. pc[c] = "write table" /\ tables' = [tables EXCEPT ![loc[c].id] = row]
      BY <1>4 DEF WriteTable, Refused, places, buildTableUpdateData
    <2>2. loc[c].id \in Tables /\ old # None /\ old \in Table /\ loc[c].body \in TablePatch
      BY <1>0, <2>1 DEF TableCall, Finding, Optional
    <2>3. row \in Table
      BY <2>2, PatchedTable
    <2>4. row.room = IF loc[c].body.room = None THEN old.room ELSE loc[c].body.room
      BY <2>2 DEF Patched, Table
    <2>5. rooms[row.room] # None
      BY <1>0, <2>1, <2>2, <2>4 DEF RoomKnown, RoomsExist
    <2> HIDE DEF row
    <2> QED BY <1>2, <2>1, <2>2, <2>3, <2>5
  <1>5. CASE tables' = tables
    BY <1>1, <1>5 DEF RoomsExist
  <1> QED BY <1>3, <1>4, <1>5, WhoWrites

(* What a call looked for is there when it writes. *)
LEMMA RoomsStayKnown ==
    ASSUME ClubInv, TypedInv, NEW c \in Calls, CallStep(c), NEW d \in Calls
    PROVE  RoomKnown(d)'
  <1>0. RoomKnown(d) /\ TableCall(d) /\ TableCall(c)
    BY DEF TypedInv, ClubInv, CallOK
  <1>1. CASE pc'[d] = pc[d] /\ loc'[d].body = loc[d].body /\
             (pc[d] \in {"insert closure", "insert table"} => loc'[d].row = loc[d].row)
    <2>1. pc[d] = "insert table" => loc[d].row.room \in Rooms
      BY <1>0 DEF TableCall, Finding, Table
    <2>2. pc[d] \in {"write table"} \cup Finding /\ loc[d].body.room # None
            => loc[d].body.room \in Rooms
      BY <1>0 DEF TableCall, Finding, TablePatch, Optional
    <2> QED BY <1>0, <1>1, <2>1, <2>2, RoomsStay DEF RoomKnown, Finding
  <1>2. CASE d = c /\ createTable(c)
    <2>1. PICK t \in Tables, row \in Table :
            rooms[row.room] # None /\ Enter(c, "insert table", t, None, row)
      BY <1>2 DEF createTable
    <2>2. pc'[c] = "insert table" /\ loc'[c].row = row /\ rooms' = rooms
      BY <2>1, EnterMoves DEF places
    <2> QED BY <1>2, <2>1, <2>2 DEF RoomKnown, Finding
  <1>3. CASE d = c /\ (updateTable(c) \/ deactivateTable(c))
    <2>0. PICK first \in Finding : \E t, body :
            /\ body.room # None => rooms[body.room] # None
            /\ Enter(c, first, t, body, None)
      BY <1>3 DEF updateTable, deactivateTable, Finding
    <2>1. PICK t, body : /\ body.room # None => rooms[body.room] # None
                         /\ Enter(c, first, t, body, None)
      BY <2>0
    <2>2. pc'[c] = first /\ loc'[c].body = body /\ rooms' = rooms
      BY <2>1, EnterMoves DEF places
    <2> QED BY <1>3, <2>1, <2>2 DEF RoomKnown, Finding
  <1>4. CASE d = c /\ createClosure(c)
    <2>1. PICK closure \in Closure : Enter(c, "insert closure", closure.place, None, closure)
      BY <1>4 DEF createClosure
    <2>2. pc'[c] = "insert closure" /\ loc'[c].row = closure
      BY <2>1, EnterMoves
    <2> QED BY <1>4, <2>2 DEF RoomKnown, Finding
  <1>5. CASE d = c /\ (updateScheduleException(c) \/ deleteScheduleException(c)
                          \/ updateRoom(c) \/ deactivateRoom(c))
    <2>1. pc'[c] \in {"find exception", "delete exception", "write room"}
      BY <1>5, EnterMoves DEF updateScheduleException, deleteScheduleException,
         updateRoom, deactivateRoom
    <2> QED BY <1>5, <2>1 DEF RoomKnown, Finding
  <1>6. CASE d = c /\ (FindException(c) \/ FindTable(c)) /\ ~ Refused(c)
    <2>1. CASE FindException(c)
      <3>1. pc'[c] = "write exception"
        BY <1>6, <2>1 DEF FindException, Goto, ClubInv, Places
      <3> QED BY <1>6, <3>1 DEF RoomKnown, Finding
    <2>2. CASE FindTable(c)
      <3>1. /\ pc[c] \in Finding /\ rooms' = rooms
            /\ pc' = [pc EXCEPT ![c] = "write table"]
            /\ loc' = [loc EXCEPT ![c].row = tables[loc[c].id]]
        BY <1>6, <2>2 DEF FindTable, Finding, Goto, places
      <3>2. pc'[c] = "write table" /\ loc'[c].body = loc[c].body
        BY <3>1 DEF ClubInv, Places, Carries
      <3> QED BY <1>0, <1>6, <3>1, <3>2 DEF RoomKnown, Finding
    <2> QED BY <1>6, <2>1, <2>2
  <1>7. CASE d = c /\ Moves(c, "idle", NoCall)
    <2>1. pc'[c] = "idle"
      BY <1>7 DEF Moves, ClubInv, Places
    <2> QED BY <1>7, <2>1 DEF RoomKnown, Finding
  <1>8. CASE d # c \/ UNCHANGED <<pc, loc>>
    <2>1. pc'[d] = pc[d] /\ loc'[d] = loc[d]
      BY <1>8, WhoWrites
    <2> QED BY <1>1, <2>1
  <1> QED BY <1>2, <1>3, <1>4, <1>5, <1>6, <1>7, <1>8, RefusedKeepsRows, AtOnceSteps,
             WritingSteps DEF CallStep

LEMMA NextTyped == ClubInv /\ TypedInv /\ [Next]_vars => TypedInv'
  <1> SUFFICES ASSUME ClubInv, TypedInv, [Next]_vars PROVE TypedInv'
    OBVIOUS
  <1>1. CASE UNCHANGED clubVars
    BY <1>1 DEF clubVars, TypedInv, RowsTyped, OneExceptionADay, RoomsExist, RoomKnown
  <1>2. ASSUME NEW c \in Calls, CallStep(c)
        PROVE  TypedInv'
    BY <1>2, RowsStayTyped, StillOneADay, RoomsStillExist, RoomsStayKnown DEF TypedInv
  <1> QED BY <1>1, <1>2, NextSplits

LEMMA TypesKept == Spec => []TypedInv
  BY InitTyped, NextTyped, ClubKept, InitClub, NextClub, PTL DEF Spec

-----------------------------------------------------------------------------
(* The slots of a table. *)

LEMMA StepIsPositive == slotMinutes \in Nat /\ slotMinutes > 0
  BY AvailabilityAssumption DEF slotMinutes, resolveSlotStepMinutes, Optional

(* A set of naturals has a least element. *)
LEMMA Least ==
    ASSUME NEW S \in SUBSET Nat, S # {}
    PROVE  \E x \in S : \A y \in S : x <= y
  <1> DEFINE R == OpToRel(<, Nat)
  <1>1. IsWellFoundedOn(R, Nat)
    BY NatLessThanWellFounded
  <1>2. \A x, y \in Nat : <<y, x>> \in R <=> y < x
    BY DEF OpToRel
  <1> HIDE DEF R
  <1>3. \E x \in S : \A y \in S : ~ (<<y, x>> \in R)
    BY <1>1, WFMin, Zenon
  <1>4. PICK x \in S : \A y \in S : ~ (<<y, x>> \in R)
    BY <1>3
  <1>5. \A y \in S : x <= y
    <2> TAKE y \in S
    <2>1. x \in Nat /\ y \in Nat /\ ~ (<<y, x>> \in R)
      BY <1>4
    <2>2. ~ (y < x)
      BY <1>2, <2>1, Zenon
    <2> QED BY <2>1, <2>2
  <1> QED BY <1>5

SlotAt(s, duration) == [start |-> s, end |-> s + duration]

(* The slots from s on that end by closing time and overlap nothing.       *)
FreeFrom(s, close, duration, blocked) ==
    {slot \in {SlotAt(s + slotMinutes * k, duration) : k \in Nat} :
        slot.end <= close /\ \A iv \in blocked : ~ rangesOverlap(slot, iv)}

LEMMA NoneAfterClosing ==
    ASSUME NEW s \in Nat, NEW close \in Nat, NEW duration \in Nat, NEW blocked,
           s + duration > close
    PROVE  FreeFrom(s, close, duration, blocked) = {}
  <1> SUFFICES ASSUME NEW k \in Nat, s + slotMinutes * k + duration <= close PROVE FALSE
    BY DEF FreeFrom, SlotAt
  <1>1. slotMinutes * k \in Nat
    BY StepIsPositive
  <1> QED BY <1>1

LEMMA FirstOrLater ==
    ASSUME NEW s \in Nat, NEW close \in Nat, NEW duration \in Nat, NEW blocked,
           s + duration <= close
    PROVE  FreeFrom(s, close, duration, blocked) =
             FreeFrom(s + slotMinutes, close, duration, blocked) \cup
                IF \E iv \in blocked : rangesOverlap(SlotAt(s, duration), iv)
                THEN {} ELSE {SlotAt(s, duration)}
  <1> DEFINE n == slotMinutes
  <1>0. n \in Nat
    BY StepIsPositive
  <1> HIDE DEF n
  <1> DEFINE good(slot) ==
         slot.end <= close /\ \A iv \in blocked : ~ rangesOverlap(slot, iv)
  <1>1. ASSUME NEW k \in Nat
        PROVE  \/ SlotAt(s + n * k, duration) = SlotAt(s, duration)
               \/ \E j \in Nat : SlotAt(s + n * k, duration) = SlotAt(s + n + n * j, duration)
    <2>1. CASE k = 0
      <3>1. s + n * k = s
        BY <1>0, <2>1
      <3> QED BY <3>1
    <2>2. CASE k # 0
      <3>1. k - 1 \in Nat /\ n * k = n + n * (k - 1)
        BY <1>0, <2>2
      <3>2. s + n * k = s + n + n * (k - 1)
        BY <1>0, <3>1
      <3> QED BY <3>1, <3>2
    <2> QED BY <2>1, <2>2
  <1>2. \E k \in Nat : SlotAt(s, duration) = SlotAt(s + n * k, duration)
    <2>1. s = s + n * 0
      BY <1>0
    <2> QED BY <2>1
  <1>3. ASSUME NEW j \in Nat
        PROVE  \E k \in Nat : SlotAt(s + n + n * j, duration) = SlotAt(s + n * k, duration)
    <2>1. j + 1 \in Nat /\ s + n + n * j = s + n * (j + 1)
      BY <1>0
    <2> QED BY <2>1
  <1>4. good(SlotAt(s, duration)) <=>
           ~ \E iv \in blocked : rangesOverlap(SlotAt(s, duration), iv)
    BY DEF SlotAt
  <1> DEFINE now == {SlotAt(s + n * k, duration) : k \in Nat}
             later == {SlotAt(s + n + n * k, duration) : k \in Nat}
             first == SlotAt(s, duration)
  <1>5. now = later \cup {first}
    BY <1>1, <1>2, <1>3
  <1>6. /\ FreeFrom(s, close, duration, blocked) = {slot \in now : good(slot)}
        /\ FreeFrom(s + slotMinutes, close, duration, blocked) = {slot \in later : good(slot)}
    BY DEF FreeFrom, n
  <1>7. good(first) <=> ~ \E iv \in blocked : rangesOverlap(first, iv)
    BY <1>4
  <1> HIDE DEF good, now, later, first
  <1>8. {slot \in now : good(slot)} = {slot \in later : good(slot)} \cup
           IF \E iv \in blocked : rangesOverlap(first, iv) THEN {} ELSE {first}
    BY <1>5, <1>7
  <1> QED BY <1>6, <1>8 DEF first

(* What the loop of buildAvailableSlots collects.                          *)
LEMMA SlotsOfTable ==
    ASSUME NEW open \in Nat, NEW close \in Nat, NEW duration \in Nat, NEW blocked
    PROVE  buildAvailableSlots(open, close, duration, blocked) =
             FreeFrom(open, close, duration, blocked)
  <1> DEFINE Free(s) == FreeFrom(s, close, duration, blocked)
             Own(s) == IF \E iv \in blocked : rangesOverlap(SlotAt(s, duration), iv)
                       THEN {} ELSE {SlotAt(s, duration)}
             Body(f, s) == IF s + duration > close THEN {}
                           ELSE f[s + slotMinutes] \cup Own(s)
             from == CHOOSE f : f = [s \in Nat |-> Body(f, s)]
  <1>1. buildAvailableSlots(open, close, duration, blocked) = from[open]
    BY DEF buildAvailableSlots, SlotAt
  <1>2. \A s \in Nat : s + slotMinutes \in Nat /\ s + slotMinutes > s
    BY StepIsPositive
  <1>3. \A s \in Nat : s + duration > close => Free(s) = {}
    BY NoneAfterClosing
  <1>4. \A s \in Nat : s + duration <= close => Free(s) = Free(s + slotMinutes) \cup Own(s)
    BY FirstOrLater
  <1> HIDE DEF Free, Own
  <1>5. \E f : f = [s \in Nat |-> Body(f, s)]
    <2> DEFINE G == [s \in Nat |-> Free(s)]
    <2>1. \A s \in Nat : Free(s) = Body(G, s)
      BY <1>2, <1>3, <1>4
    <2>2. G = [s \in Nat |-> Body(G, s)]
      BY <2>1
    <2> HIDE DEF G
    <2> QED BY <2>2
  <1>6. from = [s \in Nat |-> Body(from, s)]
    BY <1>5
  <1> HIDE DEF from
  <1>7. ASSUME NEW s \in Nat, from[s] # Free(s)
        PROVE  s + duration <= close /\ from[s + slotMinutes] # Free(s + slotMinutes)
    <2>1. from[s] = Body(from, s)
      BY <1>6
    <2> QED BY <1>3, <1>4, <1>7, <2>1
  <1> HIDE DEF Body
  <1>8. \A s \in Nat : from[s] = Free(s)
    <2> SUFFICES ASSUME NEW s0 \in Nat, from[s0] # Free(s0) PROVE FALSE
      OBVIOUS
    <2> DEFINE Bad == {n \in Nat : \E s \in Nat : s + n = close /\ from[s] # Free(s)}
    <2>1. close - s0 \in Bad
      BY <1>7
    <2>2. PICK n \in Bad : \A m \in Bad : n <= m
      BY <2>1, Least
    <2>3. PICK s \in Nat : s + n = close /\ from[s] # Free(s)
      OBVIOUS
    <2> DEFINE t == s + slotMinutes
    <2>4. t \in Nat /\ t > s /\ from[t] # Free(t)
      BY <1>2, <1>7, <2>3
    <2> HIDE DEF t
    <2>5. t + duration <= close
      BY <1>7, <2>4
    <2>6. close - t \in Bad /\ close - t < n
      BY <2>3, <2>4, <2>5
    <2> QED BY <2>2, <2>6
  <1> QED BY <1>1, <1>8 DEF Free

-----------------------------------------------------------------------------
(* The query. *)

Obstacle == [list: Reads, place: Rooms \cup Tables, iv: Ranges]

Listed == [table: Tables, room: Rooms]

AskType ==
    [duration: Nat, partySize: Optional(Sizes), roomId: Optional(Rooms),
     hours: Optional(Hours), rooms: SUBSET Rooms, listed: SUBSET Listed,
     todo: SUBSET Reads, ranges: SUBSET Obstacle]

BlockedFor(l) == {o.iv : o \in {o \in ask.ranges : o.place \in {l.table, l.room}}}

(* What AnswerAvailability makes of what the query has read.               *)
Answer ==
    UNION {{[table |-> l.table, iv |-> slot] : slot \in
                buildAvailableSlots(ask.hours.opensAt, ask.hours.closesAt, ask.duration,
                                    BlockedFor(l))} : l \in ask.listed}

HoursKnown == step \in {"rooms", "tables", "ranges", "answered"}

QueryInv ==
    /\ step \in {"idle", "exception", "weekly", "rooms", "tables", "ranges", "answered"}
    /\ ask \in AskType
    /\ ask.duration >= slotMinutes /\ ask.duration % slotMinutes = 0
    /\ HoursKnown => ask.hours \in Hours /\ ~ ask.hours.isClosed
    /\ \A l, m \in ask.listed : l.table = m.table => l = m
    /\ step = "answered" => ask.todo = {}
    /\ offered = IF step = "answered" THEN Answer ELSE {}

(* Whatever stood in the way since the query began is in the list that was *)
(* read, if it is at a place that was looked at.                           *)
Noticed(o) ==
    (/\ o.list \notin ask.todo /\ o.place \in PlacesOf(o.list)
     /\ rangesOverlap(o.iv, [start |-> ask.hours.opensAt, end |-> ask.hours.closesAt]))
        => o \in ask.ranges

FreeInv ==
    /\ stood \subseteq Obstacles
    /\ step \in {"ranges", "answered"} => \A o \in stood : Noticed(o)

(* As long as no row has changed, what was read is what there is.          *)
UpToDate ==
    /\ step = "weekly" => findScheduleExceptionByDate(Date) = {}
    /\ HoursKnown => ask.hours = HoursOf(Date)
    /\ step = "tables" => \A r \in ask.rooms : rooms[r] = TRUE
    /\ step \in {"ranges", "answered"} =>
          \A l \in ask.listed : TableIsActive(l.table) /\ l.room = tables[l.table].room
    /\ step # "idle" => stood = Obstacles /\ ask.ranges \subseteq Obstacles

StillInv ==
    /\ asOf \in Nat /\ asOf <= edits
    /\ asOf = edits => UpToDate

LEMMA RowsShown ==
    ASSUME TypedInv
    PROVE  /\ Obstacles \subseteq Obstacle
           /\ \A o \in Obstacles : o \in RowsOf(o.list) /\
                 o.place \in IF o.list = "room closures" THEN Rooms ELSE Tables
  <1>1. closures \subseteq Closure /\ bookings \subseteq Booking
    BY DEF TypedInv, RowsTyped
  <1>2. ASSUME NEW list \in Reads, NEW o \in RowsOf(list)
        PROVE  /\ o \in Obstacle /\ o.list = list
               /\ o.place \in IF list = "room closures" THEN Rooms ELSE Tables
    <2>1. CASE list = "bookings"
      BY <1>1, <1>2, <2>1 DEF RowsOf, Booking, Obstacle
    <2>2. CASE list # "bookings"
      <3>1. PICK c \in closures :
              /\ c.place \in IF list = "room closures" THEN Rooms ELSE Tables
              /\ o = [list |-> list, place |-> c.place, iv |-> c.iv]
        BY <1>2, <2>2 DEF RowsOf
      <3> QED BY <1>1, <3>1 DEF Closure, Obstacle
    <2> QED BY <2>1, <2>2
  <1> QED BY <1>2 DEF Obstacles

LEMMA RowsSame ==
    ASSUME UNCHANGED AllRows
    PROVE  /\ \A list \in Reads : RowsOf(list)' = RowsOf(list)
           /\ Obstacles' = Obstacles
           /\ findScheduleExceptionByDate(Date)' = findScheduleExceptionByDate(Date)
           /\ HoursOf(Date)' = HoursOf(Date)
           /\ \A t \in Tables : TableIsActive(t)' = TableIsActive(t)
  <1>1. UNCHANGED <<weekly, exceptions, rooms, tables, closures, bookings>>
    BY DEF AllRows
  <1>2. \A list \in Reads : RowsOf(list)' = RowsOf(list)
    BY <1>1 DEF RowsOf
  <1>3. Obstacles' = Obstacles
    BY <1>1 DEF Obstacles, RowsOf
  <1>4. findScheduleExceptionByDate(Date)' = findScheduleExceptionByDate(Date)
    BY <1>1 DEF findScheduleExceptionByDate
  <1>5. HoursOf(Date)' = HoursOf(Date)
    BY <1>1 DEF HoursOf, findScheduleExceptionByDate
  <1>6. \A t \in Tables : TableIsActive(t)' = TableIsActive(t)
    BY <1>1 DEF TableIsActive
  <1> QED BY <1>2, <1>3, <1>4, <1>5, <1>6

(* A step of the query changes no row. *)
LEMMA ReadingKeepsRows ==
    ASSUME Reading
    PROVE  UNCHANGED <<AllRows, edits>>
  BY DEF Reading, getAvailability, resolveScheduleForDate, findWeeklyWorkingHour,
     listActiveRooms, listActiveTables, AnswerAvailability, listOverlapping, clubVars, AllRows

QueryInvs == QueryInv /\ FreeInv /\ StillInv

LEMMA InitQuery == Init => QueryInvs
  <1> SUFFICES ASSUME Init PROVE QueryInvs
    OBVIOUS
  <1>1. /\ step = "idle" /\ ask = NoQuery /\ offered = {} /\ asOf = 0 /\ stood = {} /\ edits = 0
    BY DEF Init, ClubInit
  <1>2. slotMinutes % slotMinutes = 0
    BY StepIsPositive
  <1>3. QueryInv
    BY <1>1, <1>2, StepIsPositive DEF QueryInv, NoQuery, AskType, Optional, HoursKnown
  <1>4. FreeInv /\ StillInv
    BY <1>1 DEF FreeInv, StillInv, UpToDate, HoursKnown
  <1> QED BY <1>3, <1>4 DEF QueryInvs

(* An edit leaves the query alone; one that changes a row is counted.      *)
LEMMA EditingKeepsQuery ==
    ASSUME ClubInv, TypedInv, QueryInvs, Editing
    PROVE  QueryInvs'
  <1>1. UNCHANGED <<step, ask, offered, asOf>> /\ stood' = stood \cap Obstacles'
    BY DEF Editing
  <1>2. QueryInv'
    BY <1>1 DEF QueryInvs, QueryInv, HoursKnown, Answer, BlockedFor
  <1>3. FreeInv'
    BY <1>1 DEF QueryInvs, FreeInv, Noticed, PlacesOf
  <1>4. edits' = edits + 1 \/ UNCHANGED <<AllRows, edits>>
    <2>1. PICK c \in Calls : CallStep(c)
      BY Zenon DEF Editing, ClubNext, EditSchedule, EditPlaces, BlockTime, CallStep
    <2> QED BY <2>1, WhoWrites
  <1>5. edits \in Nat /\ asOf \in Nat /\ asOf <= edits
    BY DEF TypedInv, RowsTyped, QueryInvs, StillInv
  <1>6. CASE edits' = edits + 1
    BY <1>1, <1>2, <1>3, <1>5, <1>6 DEF StillInv, QueryInvs
  <1>7. CASE UNCHANGED <<AllRows, edits>>
    <2>1. \A l \in ask.listed : l.table \in Tables
      BY DEF QueryInvs, QueryInv, AskType, Listed
    <2>2. tables' = tables /\ rooms' = rooms
      BY <1>7 DEF AllRows
    <2>3. UpToDate => UpToDate'
      BY <1>1, <1>7, <2>1, <2>2, RowsSame DEF UpToDate, HoursKnown
    <2>4. StillInv'
      BY <1>1, <1>5, <1>7, <2>3 DEF QueryInvs, StillInv
    <2> QED BY <1>2, <1>3, <2>4 DEF QueryInvs
  <1> QED BY <1>2, <1>3, <1>4, <1>6, <1>7 DEF QueryInvs

(* The steps of the query, one by one. *)
LEMMA ReadingKeepsQuery ==
    ASSUME ClubInv, TypedInv, QueryInvs, Reading
    PROVE  QueryInvs'
  <1>0. /\ UNCHANGED <<AllRows, edits>> /\ Obstacles' = Obstacles
        /\ findScheduleExceptionByDate(Date)' = findScheduleExceptionByDate(Date)
        /\ HoursOf(Date)' = HoursOf(Date)
        /\ \A t \in Tables : TableIsActive(t)' = TableIsActive(t)
    BY ReadingKeepsRows, RowsSame
  <1>q. QueryInv /\ FreeInv /\ StillInv /\ ask \in AskType
    BY DEF QueryInvs, QueryInv
  <1>n. edits \in Nat
    BY DEF TypedInv, RowsTyped
  <1>1. CASE getAvailability
    <2>1. PICK q, duration :
            /\ q \in Questions
            /\ duration = IF q.minutes = None THEN slotMinutes ELSE q.minutes
            /\ duration >= slotMinutes /\ duration % slotMinutes = 0
            /\ ask' = [NoQuery EXCEPT !.duration = duration, !.partySize = q.partySize,
                                      !.roomId = q.roomId]
      BY <1>1 DEF getAvailability
    <2>2. step' = "exception" /\ offered' = {} /\ asOf' = edits /\ stood' = Obstacles
      BY <1>1 DEF getAvailability
    <2>3. duration \in Nat /\ q.partySize \in Optional(Sizes) /\ q.roomId \in Optional(Rooms)
      BY <2>1, StepIsPositive, AvailabilityAssumption DEF Optional
    <2>4. ask' = [duration |-> duration, partySize |-> q.partySize, roomId |-> q.roomId,
                  hours |-> None, rooms |-> {}, listed |-> {}, todo |-> {},
                  ranges |-> {}]
      BY <2>1 DEF NoQuery
    <2>5. ask' \in AskType
      BY <2>3, <2>4 DEF AskType, Optional
    <2>6. QueryInv'
      <3>1. ask'.duration = duration /\ ask'.listed = {}
        BY <2>4
      <3> QED BY <2>1, <2>2, <2>5, <3>1 DEF QueryInv, HoursKnown
    <2>7. FreeInv'
      BY <1>0, <2>2 DEF FreeInv
    <2>8. StillInv'
      BY <1>0, <1>n, <2>2, <2>4 DEF StillInv, UpToDate, HoursKnown
    <2> QED BY <2>6, <2>7, <2>8 DEF QueryInvs
  <1>2. ASSUME NEW hours \in Hours, KnowHours(hours), UNCHANGED <<offered, asOf, stood>>,
               step \in {"exception", "weekly"}, asOf = edits => hours = HoursOf(Date)
        PROVE  QueryInvs'
    <2>1. /\ step' = IF hours.isClosed THEN "idle" ELSE "rooms"
          /\ ask' = [ask EXCEPT !.hours = hours]
      BY <1>2 DEF KnowHours
    <2>2. /\ ask' \in AskType /\ ask'.hours = hours /\ ask'.duration = ask.duration
          /\ ask'.listed = ask.listed /\ ask'.ranges = ask.ranges
      BY <1>q, <2>1 DEF AskType, Optional
    <2>3. QueryInv'
      BY <1>2, <1>q, <2>1, <2>2 DEF QueryInv, HoursKnown
    <2>4. FreeInv'
      BY <1>0, <1>2, <1>q, <2>1 DEF FreeInv
    <2>5. StillInv'
      BY <1>0, <1>2, <1>q, <2>1, <2>2 DEF StillInv, UpToDate, HoursKnown
    <2> QED BY <2>3, <2>4, <2>5 DEF QueryInvs
  <1>3. CASE resolveScheduleForDate
    <2>1. step = "exception" /\ UNCHANGED <<offered, asOf, stood>>
      BY <1>3 DEF resolveScheduleForDate
    <2>2. CASE /\ findScheduleExceptionByDate(Date) = {} /\ step' = "weekly" /\ ask' = ask
      <3>1. QueryInv'
        BY <1>q, <2>1, <2>2 DEF QueryInv, HoursKnown
      <3>2. FreeInv'
        BY <1>0, <1>q, <2>1, <2>2 DEF FreeInv
      <3>3. StillInv'
        BY <1>0, <1>q, <2>1, <2>2 DEF StillInv, UpToDate, HoursKnown
      <3> QED BY <3>1, <3>2, <3>3 DEF QueryInvs
    <2>3. ASSUME NEW e \in findScheduleExceptionByDate(Date), KnowHours(exceptions[e].hours)
          PROVE  QueryInvs'
      <3>1. e \in Exceptions /\ exceptions[e] # None /\ exceptions[e].date = Date
        BY DEF findScheduleExceptionByDate
      <3>2. exceptions[e].hours \in Hours
        BY <3>1 DEF ClubInv, RowsOK, Row, Optional
      <3>3. \A x \in findScheduleExceptionByDate(Date) : x = e
        BY <3>1 DEF TypedInv, OneExceptionADay, findScheduleExceptionByDate
      <3>4. HoursOf(Date) = exceptions[e].hours
        BY <3>3 DEF HoursOf
      <3> QED BY <1>2, <2>1, <2>3, <3>2, <3>4
    <2> QED BY <1>3, <2>2, <2>3 DEF resolveScheduleForDate
  <1>4. CASE findWeeklyWorkingHour
    <2>1. step = "weekly" /\ UNCHANGED <<offered, asOf, stood>>
      BY <1>4 DEF findWeeklyWorkingHour
    <2>2. CASE step' = "idle" /\ ask' = ask
      <3>1. QueryInv'
        BY <1>q, <2>1, <2>2 DEF QueryInv, HoursKnown
      <3>2. FreeInv'
        BY <1>0, <1>q, <2>1, <2>2 DEF FreeInv
      <3>3. StillInv'
        BY <1>0, <1>q, <2>1, <2>2 DEF StillInv, UpToDate, HoursKnown
      <3> QED BY <3>1, <3>2, <3>3 DEF QueryInvs
    <2>3. CASE weekly[DayOf[Date]] # None /\ KnowHours(weekly[DayOf[Date]])
      <3>1. DayOf[Date] \in Days
        BY ClubAssumption, AvailabilityAssumption
      <3>2. weekly[DayOf[Date]] \in Hours
        BY <2>3, <3>1 DEF TypedInv, RowsTyped, Optional
      <3>3. asOf = edits => weekly[DayOf[Date]] = HoursOf(Date)
        BY <1>q, <2>1 DEF StillInv, UpToDate, HoursOf
      <3> QED BY <1>2, <2>1, <2>3, <3>2, <3>3
    <2> QED BY <1>4, <2>2, <2>3 DEF findWeeklyWorkingHour
  <1>8. CASE listActiveRooms
    <2> DEFINE found == {r \in Rooms : rooms[r] = TRUE /\ ask.roomId \in {None, r}}
    <2>1. /\ step = "rooms" /\ step' = "tables" /\ UNCHANGED <<offered, asOf, stood>>
          /\ ask' = [ask EXCEPT !.rooms = found]
      BY <1>8 DEF listActiveRooms
    <2>2. found \in SUBSET Rooms /\ \A r \in found : rooms[r] = TRUE
      OBVIOUS
    <2> HIDE DEF found
    <2>3. /\ ask' \in AskType /\ ask'.hours = ask.hours /\ ask'.duration = ask.duration
          /\ ask'.listed = ask.listed /\ ask'.rooms = found /\ ask'.ranges = ask.ranges
      BY <1>q, <2>1, <2>2 DEF AskType
    <2>4. QueryInv'
      BY <1>q, <2>1, <2>3 DEF QueryInv, HoursKnown
    <2>5. FreeInv'
      BY <1>0, <1>q, <2>1 DEF FreeInv
    <2>6. StillInv'
      <3>1. rooms' = rooms
        BY <1>0 DEF AllRows
      <3> QED BY <1>0, <1>q, <2>1, <2>2, <2>3, <3>1 DEF StillInv, UpToDate, HoursKnown
    <2> QED BY <2>4, <2>5, <2>6 DEF QueryInvs
  <1>5. CASE listActiveTables
    <2> DEFINE found == {t \in Tables :
                /\ tables[t] # None /\ tables[t].isActive
                /\ tables[t].room \in ask.rooms
                /\ ask.partySize # None => tables[t].capacity >= ask.partySize}
               new == {[table |-> t, room |-> tables[t].room] : t \in found}
    <2>1. /\ step = "tables" /\ step' = "ranges" /\ UNCHANGED <<offered, asOf, stood>>
          /\ ask' = [ask EXCEPT !.todo = Reads, !.listed = new]
      BY <1>5 DEF listActiveTables
    <2>2. \A t \in found : t \in Tables /\ tables[t].room \in Rooms
      BY DEF ClubInv, RowsOK, Optional, Table
    <2>8. asOf = edits => \A t \in found : TableIsActive(t)
      BY <1>q, <2>1 DEF StillInv, UpToDate, TableIsActive
    <2>3. /\ new \in SUBSET Listed
          /\ \A l \in new : l.table \in Tables /\ l.room = tables[l.table].room
          /\ asOf = edits => \A l \in new : TableIsActive(l.table)
          /\ \A l, m \in new : l.table = m.table => l = m
      BY <2>2, <2>8 DEF Listed
    <2> HIDE DEF new
    <2>4. /\ ask' \in AskType /\ ask'.hours = ask.hours /\ ask'.duration = ask.duration
          /\ ask'.listed = new /\ ask'.todo = Reads /\ ask'.ranges = ask.ranges
      BY <1>q, <2>1, <2>3 DEF AskType
    <2>5. QueryInv'
      BY <1>q, <2>1, <2>3, <2>4 DEF QueryInv, HoursKnown
    <2>6. FreeInv'
      <3>1. \A o \in Obstacles : o.list \in Reads
        BY RowsShown DEF Obstacle
      <3> QED BY <1>0, <1>q, <2>1, <2>4, <3>1 DEF FreeInv, Noticed
    <2>7. StillInv'
      <3>1. tables' = tables
        BY <1>0 DEF AllRows
      <3> QED BY <1>0, <1>q, <2>1, <2>3, <2>4, <3>1 DEF StillInv, UpToDate, HoursKnown
    <2> QED BY <2>5, <2>6, <2>7 DEF QueryInvs
  <1>6. ASSUME NEW list \in Reads, listOverlapping(list)
        PROVE  QueryInvs'
    <2> DEFINE rows == {o \in RowsOf(list) \cap InTheWay(ask.hours) : o.place \in PlacesOf(list)}
    <2>1. /\ step = "ranges" /\ step' = "ranges" /\ UNCHANGED <<offered, asOf, stood>>
          /\ ask' = [ask EXCEPT !.todo = ask.todo \ {list}, !.ranges = ask.ranges \cup rows]
      BY <1>6 DEF listOverlapping
    <2>2. rows \subseteq Obstacles /\ rows \subseteq Obstacle
      BY RowsShown DEF InTheWay
    <2>3. \A o \in Obstacles :
            (/\ o.list = list /\ o.place \in PlacesOf(list)
             /\ rangesOverlap(o.iv, [start |-> ask.hours.opensAt, end |-> ask.hours.closesAt]))
              => o \in rows
      BY RowsShown DEF InTheWay
    <2> HIDE DEF rows
    <2>4. /\ ask' \in AskType /\ ask'.hours = ask.hours /\ ask'.duration = ask.duration
          /\ ask'.listed = ask.listed /\ ask'.todo = ask.todo \ {list}
          /\ ask'.ranges = ask.ranges \cup rows
      BY <1>q, <2>1, <2>2 DEF AskType
    <2>5. QueryInv'
      BY <1>q, <2>1, <2>4 DEF QueryInv, HoursKnown
    <2>6. FreeInv'
      <3>1. \A l : PlacesOf(l)' = PlacesOf(l)
        BY <2>4 DEF PlacesOf
      <3> QED BY <1>0, <1>q, <2>1, <2>3, <2>4, <3>1 DEF FreeInv, Noticed
    <2>7. StillInv'
      <3>1. tables' = tables
        BY <1>0 DEF AllRows
      <3>2. \A l \in ask.listed : l.table \in Tables
        BY <1>q DEF AskType, Listed
      <3> QED BY <1>0, <1>q, <2>1, <2>2, <2>4, <3>1, <3>2 DEF StillInv, UpToDate, HoursKnown
    <2> QED BY <2>5, <2>6, <2>7 DEF QueryInvs
  <1>7. CASE AnswerAvailability
    <2>1. /\ step = "ranges" /\ step' = "answered" /\ ask.todo = {}
          /\ UNCHANGED <<ask, asOf, stood>> /\ offered' = Answer
      BY <1>7 DEF AnswerAvailability, Answer, BlockedFor
    <2>2. Answer' = Answer
      BY <2>1 DEF Answer, BlockedFor
    <2>3. QueryInv'
      BY <1>q, <2>1, <2>2 DEF QueryInv, HoursKnown
    <2>4. FreeInv'
      BY <1>0, <1>q, <2>1 DEF FreeInv, Noticed, PlacesOf
    <2>5. StillInv'
      <3>1. tables' = tables
        BY <1>0 DEF AllRows
      <3>2. \A l \in ask.listed : l.table \in Tables
        BY <1>q DEF AskType, Listed
      <3> QED BY <1>0, <1>q, <2>1, <3>1, <3>2 DEF StillInv, UpToDate, HoursKnown
    <2> QED BY <2>3, <2>4, <2>5 DEF QueryInvs
  <1> QED BY <1>1, <1>3, <1>4, <1>5, <1>6, <1>7, <1>8 DEF Reading

LEMMA NextQuery == ClubInv /\ TypedInv /\ QueryInvs /\ [Next]_vars => QueryInvs'
  <1> SUFFICES ASSUME ClubInv, TypedInv, QueryInvs, [Next]_vars PROVE QueryInvs'
    OBVIOUS
  <1>1. CASE UNCHANGED vars
    <2>1. UNCHANGED <<step, ask, offered, asOf, stood, edits, AllRows>>
      BY <1>1 DEF vars, AllRows
    <2>2. /\ Obstacles' = Obstacles /\ HoursOf(Date)' = HoursOf(Date)
          /\ findScheduleExceptionByDate(Date)' = findScheduleExceptionByDate(Date)
          /\ \A t \in Tables : TableIsActive(t)' = TableIsActive(t)
      BY <2>1, RowsSame
    <2>3. QueryInv'
      BY <2>1 DEF QueryInvs, QueryInv, HoursKnown, Answer, BlockedFor
    <2>4. FreeInv'
      BY <2>1, <2>2 DEF QueryInvs, FreeInv, Noticed, PlacesOf
    <2>5. StillInv'
      <3>1. \A l \in ask.listed : l.table \in Tables
        BY DEF QueryInvs, QueryInv, AskType, Listed
      <3>2. tables' = tables /\ rooms' = rooms
        BY <2>1 DEF AllRows
      <3> QED BY <2>1, <2>2, <3>1, <3>2 DEF QueryInvs, StillInv, UpToDate, HoursKnown
    <2> QED BY <2>3, <2>4, <2>5 DEF QueryInvs
  <1> QED BY <1>1, EditingKeepsQuery, ReadingKeepsQuery DEF Next

LEMMA QueryKept == Spec => [](ClubInv /\ TypedInv /\ QueryInvs)
  <1>1. Init => ClubInv /\ TypedInv /\ QueryInvs
    BY InitClub, InitTyped, InitQuery
  <1>2. ClubInv /\ TypedInv /\ QueryInvs /\ [Next]_vars => (ClubInv /\ TypedInv /\ QueryInvs)'
    BY NextClub, NextTyped, NextQuery
  <1> QED BY <1>1, <1>2, PTL DEF Spec

(* The hours of a query that has listed its tables are times of day. *)
LEMMA OpenHours ==
    ASSUME QueryInvs, HoursKnown
    PROVE  /\ ask.hours.opensAt \in Nat /\ ask.hours.closesAt \in Nat
           /\ ask.hours.closesAt < DayMinutes /\ ask.hours.opensAt < ask.hours.closesAt
  <1>1. ask.hours \in Hours /\ ~ ask.hours.isClosed
    BY DEF QueryInvs, QueryInv
  <1>2. ask.hours.opensAt \in Times /\ ask.hours.closesAt \in Times
    BY <1>1 DEF Hours, Consistent, Optional
  <1>3. ask.hours.opensAt < ask.hours.closesAt
    BY <1>1 DEF Hours, Consistent
  <1> QED BY <1>2, <1>3, ClubAssumption, AvailabilityAssumption

(* What is in an answer, table by table and slot by slot. *)
LEMMA WhatIsOffered ==
    ASSUME QueryInvs, step = "answered", NEW slot
    PROVE  slot \in offered <=>
             \E l \in ask.listed, k \in Nat :
                LET iv == SlotAt(ask.hours.opensAt + slotMinutes * k, ask.duration)
                IN  /\ slot = [table |-> l.table, iv |-> iv]
                    /\ iv.end <= ask.hours.closesAt
                    /\ \A b \in BlockedFor(l) : ~ rangesOverlap(iv, b)
  <1>1. HoursKnown /\ offered = Answer /\ ask.duration \in Nat
    BY DEF QueryInvs, QueryInv, HoursKnown, AskType
  <1>2. ask.hours.opensAt \in Nat /\ ask.hours.closesAt \in Nat
    BY <1>1, OpenHours
  <1>3. \A blocked : buildAvailableSlots(ask.hours.opensAt, ask.hours.closesAt, ask.duration, blocked)
                       = FreeFrom(ask.hours.opensAt, ask.hours.closesAt, ask.duration, blocked)
    BY <1>1, <1>2, SlotsOfTable
  <1>4. offered = UNION {{[table |-> l.table, iv |-> iv] : iv \in
                     FreeFrom(ask.hours.opensAt, ask.hours.closesAt, ask.duration, BlockedFor(l))} :
                     l \in ask.listed}
    BY <1>1, <1>3 DEF Answer
  <1> QED BY <1>4 DEF FreeFrom

LEMMA OffersTyped ==
    ASSUME QueryInvs
    PROVE  offered \subseteq [table: Tables, iv: [start: Nat, end: Nat]]
  <1>1. CASE step # "answered"
    BY <1>1 DEF QueryInvs, QueryInv
  <1>2. CASE step = "answered"
    <2> SUFFICES ASSUME NEW slot \in offered
                 PROVE  slot \in [table: Tables, iv: [start: Nat, end: Nat]]
      OBVIOUS
    <2> DEFINE begin(k) == ask.hours.opensAt + slotMinutes * k
    <2>1. PICK l \in ask.listed, k \in Nat :
            slot = [table |-> l.table, iv |-> SlotAt(begin(k), ask.duration)]
      BY <1>2, WhatIsOffered
    <2>2. l.table \in Tables /\ ask.duration \in Nat
      BY DEF QueryInvs, QueryInv, AskType, Listed
    <2>3. begin(k) \in Nat
      <3>1. ask.hours.opensAt \in Nat
        BY <1>2, OpenHours DEF HoursKnown
      <3> QED BY <3>1, StepIsPositive
    <2> HIDE DEF begin
    <2> QED BY <2>1, <2>2, <2>3 DEF SlotAt
  <1> QED BY <1>1, <1>2

(* The tables keep their types: an exception is never merged with another  *)
(* edit into hours out of order, no date has two exceptions, and no table  *)
(* is left without its room (ClubTypeOK).                                  *)
THEOREM ClubIsTyped == Spec => []ClubTypeOK
  <1>1. ClubInv /\ TypedInv /\ QueryInvs => ClubTypeOK
    <2> SUFFICES ASSUME ClubInv, TypedInv, QueryInvs PROVE ClubTypeOK
      OBVIOUS
    <2>1. ASSUME NEW d \in Dates
          PROVE  Cardinality(findScheduleExceptionByDate(d)) <= 1
      <3>1. CASE findScheduleExceptionByDate(d) = {}
        BY <3>1, FS_EmptySet
      <3>2. ASSUME NEW e \in findScheduleExceptionByDate(d)
            PROVE  Cardinality(findScheduleExceptionByDate(d)) <= 1
        <4>1. findScheduleExceptionByDate(d) = {e}
          BY DEF TypedInv, OneExceptionADay, findScheduleExceptionByDate
        <4>2. Cardinality({e}) = 1
          BY FS_Singleton
        <4> QED BY <4>1, <4>2
      <3> QED BY <3>1, <3>2
    <2>2. RowsOK /\ RowsTyped /\ RoomsExist
      BY DEF ClubInv, TypedInv
    <2>3. step \in {"idle", "exception", "weekly", "rooms", "tables", "ranges", "answered"}
      BY DEF QueryInvs, QueryInv
    <2> QED BY <2>1, <2>2, <2>3, OffersTyped DEF ClubTypeOK, RowsOK, Row, RowsTyped, RoomsExist
  <1> QED BY <1>1, QueryKept, PTL

(* What has stood at a table or in its room since the query began, and     *)
(* overlaps a time within the hours, is among what the query has found.    *)
LEMMA BlockersAreSeen ==
    ASSUME TypedInv, QueryInvs, step = "answered", NEW l \in ask.listed, NEW o \in stood,
           o.place \in {l.table, l.room}, NEW s \in Nat, NEW e \in Nat,
           ask.hours.opensAt <= s, e <= ask.hours.closesAt,
           rangesOverlap([start |-> s, end |-> e], o.iv)
    PROVE  o.iv \in BlockedFor(l)
  <1>1. ask.todo = {} /\ ask \in AskType /\ Noticed(o)
    BY DEF QueryInvs, QueryInv, FreeInv
  <1>2. /\ o \in Obstacle
        /\ o.place \in IF o.list = "room closures" THEN Rooms ELSE Tables
    BY RowsShown DEF QueryInvs, FreeInv
  <1>3. l.table \in Tables /\ l.room \in Rooms
    BY <1>1 DEF AskType, Listed
  <1>4. o.place \in PlacesOf(o.list)
    BY <1>2, <1>3, IdAssumption DEF PlacesOf
  <1>5. ask.hours.opensAt \in Nat /\ ask.hours.closesAt \in Nat
    BY OpenHours DEF HoursKnown
  <1>6. o.iv.start \in Nat /\ o.iv.end \in Nat
    BY <1>2, ClubAssumption DEF Obstacle
  <1>7. rangesOverlap(o.iv, [start |-> ask.hours.opensAt, end |-> ask.hours.closesAt])
    BY <1>5, <1>6 DEF rangesOverlap
  <1>8. o \in ask.ranges
    BY <1>1, <1>4, <1>7 DEF Noticed
  <1> QED BY <1>8 DEF BlockedFor

(* However bookings, closures and edits of tables come between the reads   *)
(* of a query, no slot is offered that something has blocked ever since    *)
(* the query began (OffersAreFree).                                        *)
THEOREM WhatIsOfferedIsFree == Spec => []OffersAreFree
  <1>1. ClubInv /\ TypedInv /\ QueryInvs => OffersAreFree
    <2> SUFFICES ASSUME ClubInv, TypedInv, QueryInvs, NEW slot \in offered, NEW o \in stood,
                        \/ o.place = slot.table
                        \/ [table |-> slot.table, room |-> o.place] \in ask.listed
                 PROVE  ~ rangesOverlap(slot.iv, o.iv)
      BY Zenon DEF OffersAreFree
    <2>1. step = "answered" /\ ask.todo = {} /\ ask \in AskType
      BY DEF QueryInvs, QueryInv
    <2> DEFINE begin(k) == ask.hours.opensAt + slotMinutes * k
    <2>2. PICK l \in ask.listed, k \in Nat :
            /\ slot = [table |-> l.table, iv |-> SlotAt(begin(k), ask.duration)]
            /\ SlotAt(begin(k), ask.duration).end <= ask.hours.closesAt
            /\ \A b \in BlockedFor(l) : ~ rangesOverlap(SlotAt(begin(k), ask.duration), b)
      BY <2>1, WhatIsOffered
    <2>3. o.place \in {l.table, l.room}
      BY <2>1, <2>2 DEF QueryInvs, QueryInv
    <2>4. ask.hours.opensAt \in Nat /\ ask.duration \in Nat /\ slotMinutes * k \in Nat
      BY <2>1, OpenHours, StepIsPositive DEF HoursKnown, AskType
    <2> SUFFICES ASSUME rangesOverlap(slot.iv, o.iv) PROVE FALSE
      OBVIOUS
    <2>5. slot.iv = [start |-> begin(k), end |-> begin(k) + ask.duration]
      BY <2>2 DEF SlotAt
    <2>6. begin(k) \in Nat /\ begin(k) + ask.duration \in Nat /\ ask.hours.opensAt <= begin(k)
          /\ begin(k) + ask.duration <= ask.hours.closesAt
      BY <2>2, <2>4 DEF SlotAt
    <2> HIDE DEF begin
    <2>7. o.iv \in BlockedFor(l)
      BY <2>1, <2>3, <2>5, <2>6, BlockersAreSeen
    <2> QED BY <2>2, <2>5, <2>7 DEF SlotAt
  <1> QED BY <1>1, QueryKept, PTL

(* Slots that begin a whole number of steps after opening time are aligned *)
(* to the step exactly when opening time is.                               *)
LEMMA WholeSteps ==
    ASSUME NEW n \in Nat, n > 0, NEW a \in Nat
    PROVE  /\ \A k \in Nat : (a + n * k) % n = 0 <=> a % n = 0
           /\ \A b \in Nat : a % n = 0 /\ b % n = 0 /\ a <= b => \E k \in Nat : b = a + n * k
           /\ \A b \in Nat : a % n = 0 /\ b % n = 0 => (a + b) % n = 0
  <1>1. ASSUME NEW x \in Nat, x % n = 0
        PROVE  \E k \in Nat : x = n * k
    BY <1>1
  <1>2. \A k \in Int : (n * k) % n = 0
    OBVIOUS
  <1>3. ASSUME NEW k \in Nat, a % n = 0
        PROVE  (a + n * k) % n = 0
    <2>1. PICK j \in Nat : a = n * j
      BY <1>1, <1>3
    <2>2. a + n * k = n * (j + k)
      BY <2>1
    <2> QED BY <1>2, <2>2
  <1>4. ASSUME NEW k \in Nat, (a + n * k) % n = 0
        PROVE  a % n = 0
    <2>1. PICK j \in Nat : a + n * k = n * j
      <3>1. a + n * k \in Nat
        OBVIOUS
      <3> QED BY <1>1, <1>4, <3>1
    <2>2. a = n * (j - k) /\ j - k \in Int
      BY <2>1
    <2> QED BY <1>2, <2>2
  <1>5. ASSUME NEW b \in Nat, a % n = 0, b % n = 0, a <= b
        PROVE  \E k \in Nat : b = a + n * k
    <2>1. PICK i \in Nat, j \in Nat : a = n * i /\ b = n * j
      BY <1>1, <1>5
    <2>2. b = a + n * (j - i)
      BY <2>1
    <2>3. j - i \in Nat
      BY <1>5, <2>1
    <2> QED BY <2>2, <2>3
  <1>6. ASSUME NEW b \in Nat, a % n = 0, b % n = 0
        PROVE  (a + b) % n = 0
    <2>1. PICK i \in Nat, j \in Nat : a = n * i /\ b = n * j
      BY <1>1, <1>6
    <2>2. a + b = n * (i + j)
      BY <2>1
    <2> QED BY <1>2, <2>2
  <1> QED BY <1>3, <1>4, <1>5, <1>6

(* Within one day the checks of a range are checks of its two ends. *)
LEMMA WithinADay ==
    ASSUME NEW s \in Nat, NEW e \in Nat, e < DayMinutes, s <= e
    PROVE  WellFormed([start |-> s, end |-> e], DayMinutes, slotMinutes) <=>
             (s < e /\ s % slotMinutes = 0 /\ e % slotMinutes = 0)
  <1>1. DayMinutes \in Nat /\ DayMinutes > 0
    BY AvailabilityAssumption
  <1>2. s % DayMinutes = s /\ e % DayMinutes = e /\ s \div DayMinutes = 0 /\ e \div DayMinutes = 0
    BY <1>1
  <1> QED BY <1>2 DEF WellFormed, SameDay, Aligned

(* The checks of createBookingRequest, for a slot of the length asked for, *)
(* while nothing has changed.                                              *)
LEMMA BookableSlots ==
    ASSUME ClubInv, TypedInv, QueryInvs, step = "answered", asOf = edits,
           NEW l \in ask.listed, NEW s \in Nat
    PROVE  CanBeBooked(l.table, SlotAt(s, ask.duration)) <=>
             /\ s % slotMinutes = 0
             /\ ask.hours.opensAt <= s /\ s + ask.duration <= ask.hours.closesAt
             /\ \A b \in BlockedFor(l) : ~ rangesOverlap(SlotAt(s, ask.duration), b)
  <1> DEFINE iv == SlotAt(s, ask.duration)
  <1>1. /\ ask.duration \in Nat /\ ask.duration >= slotMinutes
        /\ ask.duration % slotMinutes = 0 /\ ask.hours \in Hours /\ ~ ask.hours.isClosed
    BY DEF QueryInvs, QueryInv, AskType, HoursKnown
  <1>2. UpToDate
    BY DEF QueryInvs, StillInv
  <1>3. /\ TableIsActive(l.table) /\ l.room = tables[l.table].room /\ ask.hours = HoursOf(Date)
        /\ stood = Obstacles /\ ask.ranges \subseteq Obstacles
    BY <1>2 DEF UpToDate, HoursKnown
  <1>4. HoursOf(Date) # None /\ ~ HoursOf(Date).isClosed
    BY <1>1, <1>3, NoneAssumption
  <1>5. /\ ask.hours.opensAt \in Nat /\ ask.hours.closesAt \in Nat
        /\ ask.hours.closesAt < DayMinutes
    BY OpenHours DEF HoursKnown
  <1>6. iv = [start |-> s, end |-> s + ask.duration]
    BY DEF SlotAt
  <1>7. ASSUME ask.hours.opensAt <= s, s + ask.duration <= ask.hours.closesAt
        PROVE  /\ WellFormed(iv, DayMinutes, slotMinutes) <=> s % slotMinutes = 0
               /\ (\A o \in Obstacles : o.place \in {l.table, l.room} => ~ rangesOverlap(iv, o.iv))
                    <=> \A b \in BlockedFor(l) : ~ rangesOverlap(iv, b)
    <2>1. s + ask.duration \in Nat /\ s + ask.duration < DayMinutes /\ s < s + ask.duration
      BY <1>1, <1>5, <1>7, StepIsPositive, AvailabilityAssumption
    <2>2. s % slotMinutes = 0 => (s + ask.duration) % slotMinutes = 0
      BY <1>1, StepIsPositive, WholeSteps
    <2>3. WellFormed(iv, DayMinutes, slotMinutes) <=> s % slotMinutes = 0
      BY <1>6, <2>1, <2>2, WithinADay
    <2>4. ASSUME NEW o \in Obstacles, o.place \in {l.table, l.room}, rangesOverlap(iv, o.iv)
          PROVE  o.iv \in BlockedFor(l)
      BY <1>3, <1>6, <1>7, <2>1, <2>4, BlockersAreSeen
    <2>5. ASSUME NEW b \in BlockedFor(l)
          PROVE  \E o \in Obstacles : o.place \in {l.table, l.room} /\ o.iv = b
      BY <1>3 DEF BlockedFor
    <2> QED BY <2>3, <2>4, <2>5
  <1>8. iv.start = s /\ iv.end = s + ask.duration
    BY <1>6
  <1> HIDE DEF iv
  <1> QED BY <1>3, <1>4, <1>7, <1>8 DEF CanBeBooked, iv

(* An answer that nothing has overtaken offers exactly the slots that a    *)
(* booking request would be allowed to take, and with opening hours off    *)
(* the slot step none that it would (OffersWhatCanBeBooked).               *)
THEOREM AnswersAreRight == Spec => []OffersWhatCanBeBooked
  <1>1. ClubInv /\ TypedInv /\ QueryInvs => OffersWhatCanBeBooked
    <2> SUFFICES ASSUME ClubInv, TypedInv, QueryInvs, step = "answered", asOf = edits
                 PROVE  OffersWhatCanBeBooked
      BY DEF OffersWhatCanBeBooked
    <2> DEFINE opens == ask.hours.opensAt
    <2>1. opens \in Nat /\ ask.hours.closesAt \in Nat /\ ask.duration \in Nat
      BY OpenHours DEF HoursKnown, QueryInvs, QueryInv, AskType
    <2>2. \A l, m \in ask.listed : l.table = m.table => l = m
      BY DEF QueryInvs, QueryInv
    <2> HIDE DEF opens
    <2>0. /\ \A k \in Nat : (opens + slotMinutes * k) % slotMinutes = 0 <=> opens % slotMinutes = 0
          /\ \A b \in Nat : opens % slotMinutes = 0 /\ b % slotMinutes = 0 /\ opens <= b
                => \E k \in Nat : b = opens + slotMinutes * k
      BY <2>1, StepIsPositive, WholeSteps, Zenon
    <2>s. \A k \in Nat : opens + slotMinutes * k \in Nat /\ opens <= opens + slotMinutes * k
      <3>1. \A k \in Nat : slotMinutes * k \in Nat
        BY StepIsPositive
      <3> QED BY <2>1, <3>1
    <2>3. ASSUME opens % slotMinutes = 0, NEW l \in ask.listed, NEW s \in Nat
          PROVE  [table |-> l.table, iv |-> SlotAt(s, ask.duration)] \in offered
                    <=> CanBeBooked(l.table, SlotAt(s, ask.duration))
      <3> DEFINE fits == /\ s + ask.duration <= ask.hours.closesAt
                         /\ \A b \in BlockedFor(l) : ~ rangesOverlap(SlotAt(s, ask.duration), b)
      <3>1. [table |-> l.table, iv |-> SlotAt(s, ask.duration)] \in offered
               <=> fits /\ \E k \in Nat : s = opens + slotMinutes * k
        <4>1. \A k : SlotAt(opens + slotMinutes * k, ask.duration) = SlotAt(s, ask.duration)
                       => opens + slotMinutes * k = s
          BY DEF SlotAt
        <4>2. SlotAt(s, ask.duration).end = s + ask.duration
          BY DEF SlotAt
        <4> DEFINE slot == [table |-> l.table, iv |-> SlotAt(s, ask.duration)]
        <4>3. ASSUME slot \in offered
              PROVE  fits /\ \E k \in Nat : s = opens + slotMinutes * k
          <5>1. PICK m \in ask.listed, k \in Nat :
                  LET iv == SlotAt(opens + slotMinutes * k, ask.duration)
                  IN  /\ slot = [table |-> m.table, iv |-> iv]
                      /\ iv.end <= ask.hours.closesAt
                      /\ \A b \in BlockedFor(m) : ~ rangesOverlap(iv, b)
            BY <4>3, WhatIsOffered DEF opens
          <5>2. m = l /\ opens + slotMinutes * k = s
            BY <2>2, <4>1, <5>1
          <5> QED BY <4>2, <5>1, <5>2
        <4>4. ASSUME fits, NEW k \in Nat, s = opens + slotMinutes * k
              PROVE  slot \in offered
          BY <4>2, <4>4, WhatIsOffered DEF opens
        <4> QED BY <4>3, <4>4
      <3> HIDE DEF fits
      <3>2. (\E k \in Nat : s = opens + slotMinutes * k) <=> s % slotMinutes = 0 /\ opens <= s
        BY <2>0, <2>s, <2>3
      <3>3. CanBeBooked(l.table, SlotAt(s, ask.duration))
               <=> fits /\ s % slotMinutes = 0 /\ opens <= s
        BY BookableSlots DEF fits, opens
      <3> QED BY <3>1, <3>2, <3>3
    <2>4. ASSUME opens % slotMinutes # 0, NEW slot \in offered
          PROVE  ~ CanBeBooked(slot.table, slot.iv)
      <3>1. PICK l \in ask.listed, k \in Nat :
              slot = [table |-> l.table, iv |-> SlotAt(opens + slotMinutes * k, ask.duration)]
        BY WhatIsOffered DEF opens
      <3> DEFINE s == opens + slotMinutes * k
      <3>2. s \in Nat /\ s % slotMinutes # 0
        BY <2>0, <2>s, <2>4
      <3> HIDE DEF s
      <3>3. ~ CanBeBooked(l.table, SlotAt(s, ask.duration))
        BY <3>2, BookableSlots
      <3> QED BY <3>1, <3>3 DEF s
    <2>5. 0..DayMinutes \subseteq Nat
      BY AvailabilityAssumption
    <2> QED BY <2>3, <2>4, <2>5 DEF OffersWhatCanBeBooked, SlotAt, opens
  <1> QED BY <1>1, QueryKept, PTL

=============================================================================
