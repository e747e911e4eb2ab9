------------------------------ MODULE WebPages ------------------------------
(***************************************************************************)
(* The pages of the web front end that list rows of the API and act on     *)
(* them: the admins' booking queue, the owners' users, resources and audit *)
(* log, and a user's dashboard.  One page is open; it asks for its rows    *)
(* (after the gate of /admin and a look at the session, where it has       *)
(* those), shows a button for what a row admits, sends one call per click  *)
(* and goes on while calls are under way.  Questions and calls are         *)
(* messages to the API; other people change the same rows.  Of a form one  *)
(* value is kept, whether the row is in use, and the room of a table.      *)
(***************************************************************************)
EXTENDS Naturals, FiniteSets

CONSTANTS
    Rows,         \* bookings, users, rooms, tables, hours, exceptions
    None,         \* null
    Openings,     \* who opens which page, on what API; others change how much
    Lossy,        \* answers may get lost, the API may fail
    MaxLoads,     \* bound: questions a visitor causes
    MaxCalls      \* bound: clicks that send a call, for each page

Everyone == {"user", "admin", "owner"}

Staff == {"admin", "owner"}

Owners == {"owner"}

Active == {"pending", "confirmed"}

Values == {"v1", "v2"}

(* What a form can say: rooms and tables can be taken out of use there.    *)
Forms(of) == Values \cup (IF of \in {"room", "table"} THEN {"off"} ELSE {})

Filters == {"all", "one actor", "from after to"}

AdminPages == {"queue", "users", "audit", "resources"}

(* hasOwnerRouteAccess is asked by these pages themselves. *)
OwnerPages == {"users", "audit", "resources"}

Pages == AdminPages \cup {"dashboard"}

(* The days of the week are one row, which is never created or deleted.    *)
OwnersKinds == {"room", "table", "hours", "exception"}

Kinds == {"booking", "user", "event"} \cup OwnersKinds

(* An API has routes, and answers with so many layers of `data`.           *)
Deployments == [routes: SUBSET (Pages \cup {"session", "tables"}), wrapped: {1, 2}]

VARIABLES
    page, api,  \* the page that is open, the API it talks to
    kind,       \* what each row is
    claims,     \* the role the address claims (?role=)
    role,       \* the role the API gives the session
    server, home,  \* the rows at the API, and the room of a table
    view,       \* viewState
    rows,       \* the rows shown, None for one that is not
    filter,     \* filter of the audit log
    demo,       \* isDemoMode
    busy,       \* processingBookingId, busyUserId, cancelBookingId, busyKey
    loads,      \* questions under way
    asked,      \* number of the last question
    calls,      \* calls under way
    begun,      \* number of the last call
    changes,    \* how many changes others will make
    muddled,    \* history: rows with overlapping calls, a lost answer, or
                \* a change by others
    crossed,    \* history: two questions have been under way at once
    hopped      \* history: calls under way whose busy mark another call took

context == <<page, api, kind, claims>>
stored == <<server, home>>
history == <<muddled, crossed, hopped>>
shown == <<rows, filter, demo>>
vars == <<page, api, kind, claims, role, server, home, view, rows, filter, demo,
          busy, loads, asked, calls, begun, changes, muddled, crossed, hopped>>

-----------------------------------------------------------------------------
(* What the API lists, and what its calls do. *)

Lists == [queue |-> {"pending"}, users |-> {"active", "blocked"},
          dashboard |-> Active \cup {"cancelled_by_admin", "cancelled_by_user"},
          resources |-> Values, audit |-> {"logged"}]

Statuses == [Lists EXCEPT !.queue = Lists.dashboard, !.resources = @ \cup {"off", "absent"}]

MayList == [queue |-> Staff, users |-> Staff, audit |-> Owners,
            dashboard |-> Everyone, resources |-> Everyone]

MayCall == [queue |-> Staff, users |-> Owners, audit |-> {},
            dashboard |-> Everyone, resources |-> Owners]

Opening ==
    {o \in [page: Pages, api: Deployments, role: Everyone \cup {"none"},
            kind: [Rows -> Kinds], home: [Rows -> Rows \cup {None}],
            claims: Everyone \cup {"none"}, changes: Nat, server: [Rows -> UNION {Statuses[p] : p \in Pages}]] :
        /\ o.server \in [Rows -> Statuses[o.page]]
        /\ \A r \in Rows :
            /\ o.kind[r] \in OwnersKinds <=> o.page = "resources"
            /\ o.home[r] = None /\ o.kind[r] = "table" => o.server[r] = "absent"
            /\ o.home[r] # None =>
                  o.kind[r] = "table" /\ o.home[r] \in Rows /\ o.kind[o.home[r]] = "room"}

ASSUME PagesAssumption ==
    /\ Openings \subseteq Opening
    /\ Lossy \in BOOLEAN
    /\ MaxCalls \in [Pages -> Nat]
    /\ MaxLoads \in Nat

(* A button of a row, or one that creates a row. *)
Buttons == [op: {"confirm", "cancel", "reveal", "block", "unblock", "withdraw",
                 "save", "delete", "create"},
            row: Rows \cup {None}, kind: Kinds]

ASSUME NoneAssumption == None \notin Rows \cup Values \cup Buttons

(* A table is listed if its room is in use as well. *)
IsListed(row) ==
    /\ kind[row] = "table" => "tables" \in api.routes
    /\ \A r \in {row, home[row]} \ {None} : server[r] \in Lists[page]

(* The statuses in which the API carries an operation out.  What an owner  *)
(* deletes is only out of use, except for exceptions.                      *)
Accepted(op, row) ==
    LET ofOwners == Values \cup (IF kind[row] = "exception" THEN {} ELSE {"off"})
    IN  [confirm |-> {"pending"}, cancel |-> Active, reveal |-> Lists.dashboard,
         block |-> Lists.users, unblock |-> Lists.users, withdraw |-> Active,
         save |-> ofOwners, delete |-> ofOwners, create |-> {"absent"}][op]

Outcome(c, row) ==
    [confirm |-> "confirmed", cancel |-> "cancelled_by_admin", reveal |-> server[row],
     block |-> "blocked", unblock |-> "active", withdraw |-> "cancelled_by_user",
     save |-> c.value, delete |-> "off", create |-> c.value][c.op]

HomeAfter(c, row) == IF c.room = None THEN home[row] ELSE c.room

(* How many layers of `data` each page takes off an answer, apart from the *)
(* one that extractData takes off for all of them.                         *)
pickArray == {0, 1}

parseUsers == {0, 1}

parseEvents == {0, 1}

normalizeCollection == {0}

dataOfPayload == {1}

Unwraps == [queue |-> pickArray, users |-> parseUsers, audit |-> parseEvents,
            dashboard |-> normalizeCollection, resources |-> dataOfPayload]

extractData(layers) == layers - 1

(* JwtAuthGuard and RolesGuard, behind the routes there are. *)
Verdict(route, allowed) ==
    CASE route \notin api.routes -> "404"
      [] route \in api.routes /\ role = "none" -> "401"
      [] route \in api.routes /\ role \notin allowed \cup {"none"} -> "403"
      [] OTHER -> "200"

(* What a question or a call may come back with when something fails. *)
OrFailure(status) == {status} \cup (IF Lossy THEN {"failed"} ELSE {})

-----------------------------------------------------------------------------
FirstStep(of) ==
    IF of \in OwnerPages THEN "session" ELSE "list"

(* The lists of the resources page are three requests at once, and then    *)
(* one for the tables of each room (todo: those not served yet).           *)
Requests(step) ==
    IF page = "resources" /\ step = "list" THEN {"room", "hours", "exception"} ELSE {step}

Question(n, step) ==
    [n |-> n, step |-> step, filter |-> filter, status |-> "asked", role |-> role,
     todo |-> Requests(step), rows |-> [r \in Rows |-> None]]

Init ==
    /\ \E o \in Openings :
        /\ page = o.page /\ api = o.api
        /\ kind = o.kind /\ home = o.home
        /\ claims = o.claims /\ role = o.role
        /\ server = o.server
        /\ changes = o.changes
    /\ rows = [r \in Rows |-> None]
    /\ filter = "all"
    /\ demo = FALSE
    /\ busy = None
    /\ view = IF page \in AdminPages THEN "checking" ELSE "loading"
    /\ loads = {Question(1, IF page \in AdminPages THEN "gate" ELSE "list")}
    /\ asked = 1
    /\ calls = {}
    /\ begun = 0
    /\ muddled = {}
    /\ crossed = FALSE
    /\ hopped = {}

(* The effect of a page (or of the gate) that asks again. *)
Load(step, of) ==
    /\ view' = IF step = "gate" THEN "checking" ELSE "loading"
    /\ asked' = asked + 1
    /\ loads' = loads \cup {[Question(asked + 1, step) EXCEPT !.filter = of]}
    /\ crossed' = (crossed \/ loads # {})

Retry ==
    /\ asked < MaxLoads
    /\ \/ view = "error" /\ Load(FirstStep(page), filter)
       \/ view = "gate error" /\ Load("gate", filter)
    /\ UNCHANGED <<context, role, stored, shown, busy, calls, begun, changes,
                   muddled, hopped>>

(* A filter of the audit log that the API applies, or "apply" once more.   *)
SetFilter(f) ==
    /\ page = "audit" /\ view = "ready"
    /\ asked < MaxLoads
    /\ filter' = f
    /\ Load("session", f)
    /\ UNCHANGED <<context, role, stored, rows, demo, busy, calls, begun,
                   changes, muddled, hopped>>

-----------------------------------------------------------------------------
(* Clicks. *)

(* A button of a row, or the one that creates a row of some kind.          *)
Button(op, row) == [op |-> op, row |-> row, kind |-> kind[row]]

CreateButton(of) == [op |-> "create", row |-> None, kind |-> of]

(* The resources page keeps one mark per button, the others one per row.   *)
SameMark(a, b) ==
    IF page = "resources" THEN a = b ELSE a.row = b.row

(* Mutant of Disabled: nothing is disabled while a call is under way. *)
NeverDisabled(button) == FALSE

Disabled(button) == busy # None /\ SameMark(busy, button)

(* value and room: what the form says by then, whatever was typed there.   *)
Send(button, value, room) ==
    /\ ~Disabled(button)
    /\ begun < MaxCalls[page]
    /\ busy' = button
    /\ begun' = begun + 1
    /\ calls' = calls \cup
        {[n |-> begun + 1, op |-> button.op, row |-> button.row, button |-> button,
          value |-> value, room |-> room, status |-> "sent", result |-> None]}
    /\ muddled' = muddled \cup {r \in Rows : r = button.row /\ \E c \in calls : c.row = r}
    /\ hopped' = hopped \cup {c.n : c \in {c \in calls : ~SameMark(c.button, button)}}
    /\ UNCHANGED <<context, role, stored, view, shown, loads, asked, changes, crossed>>

(* buttons: the statuses in which a row shows which of them.               *)
ClickWith(buttons, op, row, value, room) ==
    /\ view = "ready" /\ ~demo
    /\ rows[row] \in buttons[op]
    /\ Send(Button(op, row), value, room)

Click(buttons, op, row) == ClickWith(buttons, op, row, None, None)

Save(buttons, row, room) ==
    \E value \in Forms(kind[row]) : ClickWith(buttons, "save", row, value, room)

(* The API names the row. *)
Create(of, value, room) ==
    /\ page = "resources" /\ view = "ready"
    /\ value \in Forms(of)
    /\ Send(CreateButton(of), value, room)

(* The admins' queue, the owners' users, the visitor's own bookings.       *)
QueueButtons == [confirm |-> {"pending"}, cancel |-> {"pending"}, reveal |-> {"pending"}]

handleConfirm(row) == page = "queue" /\ Click(QueueButtons, "confirm", row)

handleCancel(row) == page = "queue" /\ Click(QueueButtons, "cancel", row)

handleEmergencyReveal(row) == page = "queue" /\ Click(QueueButtons, "reveal", row)

UserButtons == [block |-> {"active"}, unblock |-> {"blocked"}]

handleBlock(row) == page = "users" /\ Click(UserButtons, "block", row)

handleUnblock(row) == page = "users" /\ Click(UserButtons, "unblock", row)

BookingButtons == [withdraw |-> Active]

handleCancelBooking(row) == page = "dashboard" /\ Click(BookingButtons, "withdraw", row)

(* The owners' resources: a form for each kind and for each row; that of a *)
(* table names one of the rooms shown.                                     *)
RoomsShown == {r \in Rows : kind[r] = "room" /\ rows[r] # None}

RoomButtons == [save |-> Values, delete |-> Values]

createRoom(value) == Create("room", value, None)

updateRoom(row) == kind[row] = "room" /\ Save(RoomButtons, row, None)

deleteRoom(row) == kind[row] = "room" /\ Click(RoomButtons, "delete", row)

TableButtons == [save |-> Values, delete |-> Values]

createTable(value) == \E room \in RoomsShown : Create("table", value, room)

updateTable(row) ==
    kind[row] = "table" /\ \E room \in RoomsShown : Save(TableButtons, row, room)

deleteTable(row) == kind[row] = "table" /\ Click(TableButtons, "delete", row)

HoursButton == [save |-> Values]

saveWorkingHours(row) == kind[row] = "hours" /\ Save(HoursButton, row, None)

ExceptionButtons == [save |-> Values, delete |-> Values]

createException(value) == Create("exception", value, None)

updateException(row) == kind[row] = "exception" /\ Save(ExceptionButtons, row, None)

deleteException(row) == kind[row] = "exception" /\ Click(ExceptionButtons, "delete", row)

(* Without the route of the users the page plays with users of its own. *)
PlayDemo(op, row) ==
    /\ view = "ready" /\ demo
    /\ rows[row] \in UserButtons[op]
    /\ rows' = [rows EXCEPT ![row] = IF op = "block" THEN "blocked" ELSE "active"]
    /\ UNCHANGED <<context, role, stored, view, filter, demo, busy, loads, asked,
                   calls, begun, changes, history>>

-----------------------------------------------------------------------------
(* The API, and everybody else. *)

(* The rows that a request of a question asks for. *)
AskedFor(l, request) ==
    CASE l.step = "tables" -> {r \in Rows : kind[r] = "table" /\ home[r] = request}
      [] l.step = "list" /\ page = "resources" -> {r \in Rows : kind[r] = request}
      [] l.step = "list" /\ page # "resources" -> Rows
      [] OTHER -> {}

Listed(l, request) ==
    [r \in Rows |-> IF r \notin AskedFor(l, request) THEN l.rows[r]
                    ELSE IF page = "audit" THEN l.filter
                    ELSE IF IsListed(r) THEN server[r] ELSE None]

(* An audit filter that ends before it starts is refused.  Where tables    *)
(* have no route, a room has no tables.                                    *)
AnswerOf(l) ==
    CASE l.step \in {"gate", "session"} -> Verdict("session", Everyone)
      [] l.step = "list" /\ l.filter = "from after to"
           /\ Verdict(page, MayList[page]) = "200" -> "failed"
      [] l.step = "tables" /\ "tables" \notin api.routes -> "200"
      [] l.step = "tables" /\ "tables" \in api.routes -> Verdict("tables", Everyone)
      [] OTHER -> Verdict(page, MayList[page])

(* A question is answered when its last request is, or one of them fails.  *)
ServeLoad(l) ==
    /\ l.status = "asked"
    /\ \E request \in l.todo, status \in OrFailure(AnswerOf(l)) :
        loads' = (loads \ {l}) \cup
            {[l EXCEPT !.status = IF status = "200" /\ l.todo # {request} THEN "asked" ELSE status,
                       !.role = role, !.todo = @ \ {request},
                       !.rows = IF status = "200" THEN Listed(l, request) ELSE @]}
    /\ UNCHANGED <<context, role, stored, view, shown, busy, asked, calls, begun,
                   changes, history>>

Return(c, status, row, result) ==
    calls' = (calls \ {c}) \cup
        {[c EXCEPT !.status = status, !.row = row, !.result = result]}

Concerns(c) ==
    {row \in IF c.op = "create" THEN {r \in Rows : kind[r] = c.button.kind} ELSE {c.row} :
        /\ server[row] \in Accepted(c.op, row)
        /\ c.room # None => server[c.room] # "absent"}  \* roomExists

(* Mutant of CarryOut: the answer tells the status before the call. *)
CarryOutAndTellOld(c) ==
    /\ c.status = "sent" /\ role \in MayCall[page]
    /\ \E row \in Concerns(c) :
        /\ server' = [server EXCEPT ![row] = Outcome(c, row)]
        /\ home' = [home EXCEPT ![row] = HomeAfter(c, row)]
        /\ \/ Return(c, "200", row, server[row]) /\ UNCHANGED muddled
           \/ Lossy /\ Return(c, "failed", row, None) /\ muddled' = muddled \cup {row}

CarryOut(c) ==
    /\ c.status = "sent" /\ role \in MayCall[page]
    /\ \E row \in Concerns(c) :
        /\ server' = [server EXCEPT ![row] = Outcome(c, row)]
        /\ home' = [home EXCEPT ![row] = HomeAfter(c, row)]
        /\ \/ Return(c, "200", row, Outcome(c, row)) /\ UNCHANGED muddled
           \/ Lossy /\ Return(c, "failed", row, None) /\ muddled' = muddled \cup {row}

TurnDown(c) ==
    /\ c.status = "sent"
    /\ \/ role = "none" /\ Return(c, "401", c.row, None)
       \/ role \notin MayCall[page] \cup {"none"} /\ Return(c, "403", c.row, None)
       \/ Return(c, "failed", c.row, None)
    /\ UNCHANGED <<stored, muddled>>

ServeCall(c) ==
    /\ CarryOut(c) \/ TurnDown(c)
    /\ UNCHANGED <<context, role, view, shown, busy, loads, asked, begun, changes,
                   crossed, hopped>>

(* Nothing that was created becomes absent again, and the hours stay. *)
ChangeRow(row, status) ==
    /\ changes > 0
    /\ status # "absent" /\ (kind[row] = "hours" => status \in Values)
    /\ changes' = changes - 1
    /\ server' = [server EXCEPT ![row] = status]
    /\ \E room \in IF kind[row] # "table" THEN {home[row]}
                    ELSE {r \in Rows : kind[r] = "room" /\ server[r] # "absent"} :
        home' = [home EXCEPT ![row] = room]
    /\ muddled' = muddled \cup {row}
    /\ UNCHANGED <<context, role, view, shown, busy, loads, asked, calls, begun,
                   crossed, hopped>>

LoseRole(to) ==
    /\ changes > 0
    /\ changes' = changes - 1
    /\ role' = to
    /\ UNCHANGED <<context, stored, view, shown, busy, loads, asked, calls, begun, history>>

-----------------------------------------------------------------------------
(* Answers to questions. *)

Admits(l, allowed) ==
    \/ l.status = "200" /\ l.role \in allowed
    \/ l.status = "404" /\ claims \in allowed

GoOn(l, step, requests) ==
    /\ view' = "loading"
    /\ loads' = (loads \ {l}) \cup
            {[l EXCEPT !.step = step, !.status = "asked", !.todo = requests]}
    /\ UNCHANGED <<rows, demo>>

StopAt(l, where) ==
    /\ view' = where
    /\ loads' = loads \ {l}
    /\ UNCHANGED <<rows, demo>>

(* resolveAccess and, without the session's route, buildDemoDecision. *)
AnswerGate(l) ==
    /\ l.step = "gate"
    /\ \/ Admits(l, Staff) /\ GoOn(l, FirstStep(page), Requests(FirstStep(page)))
       \/ l.status \in {"200", "404"} /\ ~Admits(l, Staff)
            /\ StopAt(l, IF l.status = "404" /\ claims = "none"
                         THEN "unauthorized" ELSE "forbidden")
       \/ l.status = "401" /\ StopAt(l, "unauthorized")
       \/ l.status = "failed" /\ StopAt(l, "gate error")

AnswerSession(l) ==
    /\ l.step = "session"
    /\ \/ Admits(l, Owners) /\ GoOn(l, "list", Requests("list"))
       \/ l.status \in {"200", "404"} /\ ~Admits(l, Owners) /\ StopAt(l, "forbidden")
       \/ l.status = "401" /\ StopAt(l, "unauthorized")
       \/ l.status = "failed" /\ StopAt(l, "error")

ShowRows(l) ==
    /\ l.status = "200" /\ extractData(api.wrapped) \in Unwraps[page]
    /\ view' = "ready"
    /\ rows' = l.rows
    /\ demo' = FALSE
    /\ loads' = loads \ {l}

DEMO_USERS == [r \in Rows |-> "active"]

DEMO_AUDIT_EVENTS == [r \in Rows |-> None]

ShowDemo(l, examples) ==
    /\ l.status = "404"
    /\ view' = "ready"
    /\ rows' = examples
    /\ demo' = TRUE
    /\ loads' = loads \ {l}

(* Mutant of FailList: some failures leave the page as it is. *)
FailListQuietly(l, others, forbidden) ==
    \/ l.status = "401" /\ StopAt(l, "unauthorized")
    \/ l.status = "403" /\ StopAt(l, forbidden)
    \/ l.status \in others /\ StopAt(l, view)

(* others: the statuses that mean an error, forbidden: where a 403 leads.  *)
FailList(l, others, forbidden) ==
    \/ l.status = "401" /\ StopAt(l, "unauthorized")
    \/ l.status = "403" /\ StopAt(l, forbidden)
    \/ l.status \in others /\ StopAt(l, "error")

loadQueue(l) ==
    /\ page = "queue" /\ l.step = "list"
    /\ ShowRows(l) \/ FailList(l, {"404", "failed"}, "forbidden")

loadUsers(l) ==
    /\ page = "users"
    /\ \/ AnswerSession(l)
       \/ /\ l.step = "list"
          /\ ShowRows(l) \/ ShowDemo(l, DEMO_USERS) \/ FailList(l, {"failed"}, "forbidden")

loadEvents(l) ==
    /\ page = "audit"
    /\ \/ AnswerSession(l)
       \/ /\ l.step = "list"
          /\ ShowRows(l) \/ ShowDemo(l, DEMO_AUDIT_EVENTS)
                \/ FailList(l, {"failed"}, "forbidden")

loadDashboard(l) ==
    /\ page = "dashboard" /\ l.step = "list"
    /\ ShowRows(l) \/ FailList(l, {"404", "failed"}, "error")

RoomsFound(l) == {r \in Rows : kind[r] = "room" /\ l.rows[r] # None}

(* Where the answer has not the layers it expects, it fails as well.       *)
loadData(l) ==
    /\ page = "resources"
    /\ \/ AnswerSession(l)
       \/ l.step = "list" /\ RoomsFound(l) = {} /\ ShowRows(l)
       \/ /\ l.step = "list" /\ l.status = "200"
          /\ \/ extractData(api.wrapped) \notin Unwraps[page] /\ StopAt(l, "error")
             \/ /\ extractData(api.wrapped) \in Unwraps[page] /\ RoomsFound(l) # {}
                /\ GoOn(l, "tables", RoomsFound(l))
       \/ l.step = "tables" /\ ShowRows(l)
       \/ l.step \in {"list", "tables"} /\ FailList(l, {"404", "failed"}, "forbidden")

AnswerLoad(l) ==
    /\ l.status # "asked"
    /\ \/ AnswerGate(l)
       \/ loadQueue(l) \/ loadUsers(l) \/ loadEvents(l) \/ loadDashboard(l) \/ loadData(l)
    /\ UNCHANGED <<context, role, stored, filter, busy, asked, calls, begun, changes, history>>

-----------------------------------------------------------------------------
(* Answers to calls: whatever they say, the page is busy no longer. *)

refreshData == Load("session", filter) /\ UNCHANGED rows

ShowResult(c) ==
    /\ c.status = "200"
    /\ \/ page = "resources" /\ refreshData
       \/ /\ page # "resources"
          /\ rows' = IF c.op = "reveal" THEN rows ELSE [rows EXCEPT ![c.row] = c.result]
          /\ UNCHANGED <<view, loads, asked, crossed>>

ShowFailure(c) ==
    /\ c.status # "200"
    /\ view' = CASE c.status = "401" /\ page \in {"queue", "dashboard"} -> "unauthorized"
                 [] c.status = "403" /\ page = "queue" -> "forbidden"
                 [] OTHER -> view
    /\ UNCHANGED <<rows, loads, asked, crossed>>

(* Mutant of AnswerCall: the mark goes only when the call succeeded. *)
AnswerCallStayBusy(c) ==
    /\ c.status # "sent"
    /\ calls' = calls \ {c}
    /\ ShowResult(c) \/ ShowFailure(c)
    /\ busy' = IF c.status = "200" THEN None ELSE busy
    /\ hopped' = (hopped \cup {o.n : o \in calls}) \ {c.n}
    /\ UNCHANGED <<context, role, stored, filter, demo, begun, changes, muddled>>

AnswerCall(c) ==
    /\ c.status # "sent"
    /\ calls' = calls \ {c}
    /\ ShowResult(c) \/ ShowFailure(c)
    /\ busy' = None
    /\ hopped' = (hopped \cup {o.n : o \in calls}) \ {c.n}
    /\ UNCHANGED <<context, role, stored, filter, demo, begun, changes, muddled>>

-----------------------------------------------------------------------------
ClickRow(row) ==
    \/ handleConfirm(row) \/ handleCancel(row) \/ handleEmergencyReveal(row)
    \/ handleBlock(row) \/ handleUnblock(row) \/ handleCancelBooking(row)
    \/ updateRoom(row) \/ deleteRoom(row) \/ updateTable(row) \/ deleteTable(row)
    \/ saveWorkingHours(row) \/ updateException(row) \/ deleteException(row)

ClickCreate(value) == createRoom(value) \/ createTable(value) \/ createException(value)

Visitor ==
    \/ Retry
    \/ \E f \in Filters : SetFilter(f)
    \/ \E row \in Rows :
        \/ ClickRow(row)
        \/ \E op \in {"block", "unblock"} : page = "users" /\ PlayDemo(op, row)
    \/ \E value \in Statuses.resources : ClickCreate(value)

Serve ==
    \/ \E l \in loads : ServeLoad(l)
    \/ \E c \in calls : ServeCall(c)

Arrive ==
    \/ \E l \in loads : AnswerLoad(l)
    \/ \E c \in calls : AnswerCall(c)

Others ==
    \/ \E row \in Rows, status \in Statuses[page] : ChangeRow(row, status)
    \/ \E to \in {"none", "user"} : LoseRole(to)

Next == Visitor \/ Serve \/ Arrive \/ Others

Spec == Init /\ [][Next]_vars

(* A question or a call comes back or is given up in the end: fetch and    *)
(* the API leave none pending for ever.  Nobody has to use the page.       *)
FairSpec == Spec /\ WF_vars(Serve) /\ WF_vars(Arrive)

=============================================================================
