---------------------------- MODULE WebPagesProofs ----------------------------
(***************************************************************************)
(* Proofs about the pages that list and act on rows, for every number of   *)
(* rows, questions, calls and openings.                                    *)
(***************************************************************************)
EXTENDS WebPagesProperties, TLAPS

(* What a page can show of a row: the audit log shows what was filtered.   *)
Showable == {None} \cup (IF page = "audit" THEN Filters ELSE Statuses[page])

Views == {"checking", "gate error", "loading", "ready", "unauthorized", "forbidden", "error"}

Steps == {"gate", "session", "list", "tables"}

Answers == {"200", "401", "403", "404", "failed"}

Roles == Everyone \cup {"none"}

Loads == [n: Nat, step: Steps, filter: Filters, status: Answers \cup {"asked"}, role: Roles,
          todo: SUBSET (Steps \cup Kinds \cup Rows), rows: [Rows -> Showable]]

(* The operations of each page. *)
Ops == [queue |-> {"confirm", "cancel", "reveal"}, users |-> {"block", "unblock"},
        audit |-> {}, dashboard |-> {"withdraw"}, resources |-> {"save", "delete", "create"}]

IsCall(c) ==
    c \in [n: {c.n}, op: {c.op}, row: {c.row}, button: {c.button}, value: {c.value},
           room: {c.room}, status: {c.status}, result: {c.result}]

(* A call is about the row of its button; one that creates learns of its   *)
(* row from the answer.                                                    *)
CallOK(c) ==
    /\ IsCall(c)
    /\ c.n \in 1..begun /\ c.op \in Ops[page] /\ c.button \in Buttons
    /\ c.row \in Rows \/ (c.op = "create" /\ c.status # "200" /\ c.row = None)
    /\ c.op \in {"save", "create"} => c.value \in Statuses.resources
    /\ c.op # "create" => c.button.kind = kind[c.row]
    /\ c.room # None => c.room \in Rows /\ kind[c.room] = "room" /\ c.button.kind = "table"
    /\ c.op = "create" /\ c.button.kind = "table" => c.room # None
    /\ c.status \in Answers \cup {"sent"}
    /\ c.status = "200" => c.result \in Statuses[page]

ContextOK ==
    /\ page \in Pages /\ api \in Deployments
    /\ kind \in [Rows -> Kinds]
    /\ claims \in Roles

(* A table that is there has a room for a home, and nothing else has one.  *)
HomesOK ==
    /\ home \in [Rows -> Rows \cup {None}]
    /\ \A r \in Rows :
        /\ kind[r] \in OwnersKinds <=> page = "resources"
        /\ home[r] = None /\ kind[r] = "table" => server[r] = "absent"
        /\ home[r] # None => kind[r] = "table" /\ home[r] \in Rows /\ kind[home[r]] = "room"

(* What a question still asks for; tables are asked for last. *)
QuestionOK(l) ==
    /\ l.status = "200" => l.todo = {}
    /\ l.step = "list" /\ page = "resources" => l.todo \subseteq {"room", "hours", "exception"}
    /\ l.step = "tables" => page = "resources" /\ l.todo \subseteq Rows
    /\ l.step # "tables" => \A r \in Rows : kind[r] = "table" => l.rows[r] = None

Typed ==
    /\ ContextOK /\ role \in Roles
    /\ server \in [Rows -> Statuses[page]]
    /\ view \in Views
    /\ rows \in [Rows -> Showable]
    /\ filter \in Filters /\ demo \in BOOLEAN
    /\ asked \in Nat /\ begun \in Nat
    /\ loads \subseteq Loads /\ \A l \in loads : l.n \in 1..asked
    /\ \A c \in calls : CallOK(c)
    /\ muddled \subseteq Rows
    /\ HomesOK /\ \A l \in loads : QuestionOK(l)

-----------------------------------------------------------------------------
(* The steps, and what is known of each. *)

LEMMA Fields ==
    /\ Pages = {"queue", "users", "audit", "resources", "dashboard"}
    /\ Lists.queue = {"pending"} /\ Lists.users = {"active", "blocked"}
    /\ Lists.dashboard = {"pending", "confirmed", "cancelled_by_admin", "cancelled_by_user"}
    /\ Lists.resources = Values /\ Lists.audit = {"logged"}
    /\ Statuses.queue = Lists.dashboard /\ Statuses.users = Lists.users
    /\ Statuses.dashboard = Lists.dashboard /\ Statuses.audit = Lists.audit
    /\ Statuses.resources = Values \cup {"off", "absent"}
  BY DEF Pages, AdminPages, Lists, Statuses, Active

(* A click that sends a call. *)
Clicked(b, value, room) ==
    /\ Send(b, value, room)
    /\ view = "ready" /\ page # "audit"
    /\ b \in Buttons /\ b.op \in Ops[page]
    /\ IF b.op = "create" THEN b.row = None ELSE b.row \in Rows
    /\ b.op \in {"save", "create"} => value \in Statuses.resources
    /\ b.op # "create" => b.kind = kind[b.row]
    /\ room # None => room \in Rows /\ kind[room] = "room" /\ b.kind = "table"
    /\ b.op = "create" /\ b.kind = "table" => room # None

LEMMA RowClicks ==
    ASSUME Typed, NEW row \in Rows, ClickRow(row)
    PROVE  \E b, value, room : Clicked(b, value, room)
  <1>1. ASSUME NEW op \in {"confirm", "cancel", "reveal", "block", "unblock", "withdraw",
                           "save", "delete"},
               NEW value, NEW room, Send(Button(op, row), value, room),
               view = "ready", page # "audit", op \in Ops[page],
               op = "save" => value \in Statuses.resources,
               room # None => room \in Rows /\ kind[room] = "room" /\ kind[row] = "table"
        PROVE  \E b, v, to : Clicked(b, v, to)
    <2>1. Button(op, row) \in Buttons /\ Button(op, row).op = op /\ Button(op, row).row = row
          /\ Button(op, row).kind = kind[row]
      BY DEF Button, Buttons, Typed, ContextOK
    <2>2. Clicked(Button(op, row), value, room)
      BY <1>1, <2>1 DEF Clicked
    <2> QED BY <2>2
  <1>2. CASE \/ handleConfirm(row) \/ handleCancel(row) \/ handleEmergencyReveal(row)
    <2>1. page = "queue" /\ view = "ready"
          /\ \E op \in {"confirm", "cancel", "reveal"} : Send(Button(op, row), None, None)
      BY <1>2 DEF handleConfirm, handleCancel, handleEmergencyReveal, Click, ClickWith
    <2> QED BY <1>1, <2>1 DEF Ops
  <1>3. CASE handleBlock(row) \/ handleUnblock(row)
    <2>1. page = "users" /\ view = "ready"
          /\ \E op \in {"block", "unblock"} : Send(Button(op, row), None, None)
      BY <1>3 DEF handleBlock, handleUnblock, Click, ClickWith
    <2> QED BY <1>1, <2>1 DEF Ops
  <1>4. CASE handleCancelBooking(row)
    <2>1. page = "dashboard" /\ view = "ready" /\ Send(Button("withdraw", row), None, None)
      BY <1>4 DEF handleCancelBooking, Click, ClickWith
    <2> QED BY <1>1, <2>1 DEF Ops
  <1>5. CASE \/ updateRoom(row) \/ deleteRoom(row) \/ updateTable(row) \/ deleteTable(row)
             \/ saveWorkingHours(row) \/ updateException(row) \/ deleteException(row)
    <2>1. /\ view = "ready" /\ rows[row] \in Values
          /\ \/ Send(Button("delete", row), None, None)
             \/ \E value \in Forms(kind[row]), room \in RoomsShown \cup {None} :
                    /\ room # None => kind[row] = "table"
                    /\ Send(Button("save", row), value, room)
      BY <1>5 DEF updateRoom, deleteRoom, updateTable, deleteTable, saveWorkingHours,
         updateException, deleteException, RoomButtons, TableButtons, HoursButton,
         ExceptionButtons, Click, Save, ClickWith
    <2>2. page = "resources"
      <3>1. rows[row] \in Showable /\ page \in Pages
        BY DEF Typed, ContextOK
      <3>2. rows[row] # None
        BY <2>1, NoneAssumption
      <3>3. CASE page = "audit"
        BY <2>1, <3>1, <3>2, <3>3 DEF Showable, Values, Filters
      <3>4. CASE page \in {"queue", "users", "dashboard"}
        <4>1. Statuses[page] \subseteq Lists.dashboard \cup Lists.users
          BY <3>4, Fields
        <4>2. rows[row] \in Statuses[page]
          BY <3>1, <3>2, <3>4 DEF Showable
        <4> QED BY <2>1, <4>1, <4>2, Fields DEF Values
      <3> QED BY <3>1, <3>3, <3>4, Fields
    <2>3. CASE Send(Button("delete", row), None, None)
      BY <1>1, <2>1, <2>2, <2>3 DEF Ops
    <2>4. ASSUME NEW value \in Forms(kind[row]), NEW room \in RoomsShown \cup {None},
                 room # None => kind[row] = "table",
                 Send(Button("save", row), value, room)
          PROVE  \E b, v, to : Clicked(b, v, to)
      <3>1. value \in Statuses.resources /\ (room # None => room \in Rows /\ kind[room] = "room")
        BY <2>4, Fields DEF Forms, RoomsShown
      <3> QED BY <1>1, <2>1, <2>2, <2>4, <3>1 DEF Ops
    <2> QED BY <2>1, <2>3, <2>4
  <1> QED BY <1>2, <1>3, <1>4, <1>5 DEF ClickRow

LEMMA CreateClicks ==
    ASSUME Typed, NEW value, ClickCreate(value)
    PROVE  \E b, v, room : Clicked(b, v, room)
  <1>1. PICK of \in Kinds : \E room \in RoomsShown \cup {None} :
            /\ page = "resources" /\ view = "ready" /\ value \in Forms(of)
            /\ room # None <=> of = "table"
            /\ Send(CreateButton(of), value, room)
    BY NoneAssumption DEF RoomsShown, Forms, ClickCreate, createRoom, createTable, createException, Create, Kinds, OwnersKinds
  <1>2. PICK room \in RoomsShown \cup {None} :
            /\ page = "resources" /\ view = "ready" /\ value \in Forms(of)
            /\ room # None <=> of = "table"
            /\ Send(CreateButton(of), value, room)
    BY <1>1
  <1>3. /\ CreateButton(of) \in Buttons
        /\ CreateButton(of).op = "create" /\ CreateButton(of).row = None
        /\ CreateButton(of).kind = of
    BY DEF CreateButton, Buttons
  <1>4. value \in Statuses.resources /\ (room # None => room \in Rows /\ kind[room] = "room")
    BY <1>2, Fields DEF Forms, RoomsShown
  <1>5. Clicked(CreateButton(of), value, room)
    BY <1>2, <1>3, <1>4 DEF Clicked, Ops
  <1> QED BY <1>5

(* A question that is asked. *)
Asks(q) ==
    /\ q \in Loads /\ q.n = asked + 1 /\ q.status = "asked" /\ QuestionOK(q)
    /\ q.step # "tables" /\ q.todo = Requests(q.step)
    /\ asked' = asked + 1 /\ loads' = loads \cup {q}
    /\ crossed' = (crossed \/ loads # {})
    /\ view' \in {"checking", "loading"}

LEMMA LoadAsks ==
    ASSUME Typed, NEW step \in {"gate", "session", "list"}, NEW of \in Filters, Load(step, of)
    PROVE  \E q : Asks(q) /\ q.filter = of
  <1> DEFINE q == [Question(asked + 1, step) EXCEPT !.filter = of]
  <1>1. q = [n |-> asked + 1, step |-> step, filter |-> of, status |-> "asked", role |-> role,
             todo |-> Requests(step), rows |-> [r \in Rows |-> None]]
    BY DEF Question
  <1>0. Requests(step) \in SUBSET (Steps \cup Kinds \cup Rows)
    BY DEF Requests, Kinds, OwnersKinds, Steps
  <1>2. [r \in Rows |-> None] \in [Rows -> Showable]
    BY DEF Showable
  <1>3. q \in Loads
    BY <1>0, <1>1, <1>2 DEF Loads, Typed, Steps
  <1>4. loads' = loads \cup {q} /\ view' \in {"checking", "loading"}
        /\ asked' = asked + 1 /\ crossed' = (crossed \/ loads # {})
    BY DEF Load
  <1>5. q.n = asked + 1 /\ q.status = "asked" /\ q.filter = of
        /\ q.step = step /\ q.todo = Requests(step) /\ \A r \in Rows : q.rows[r] = None
    BY <1>1
  <1>6. QuestionOK(q)
    BY <1>5 DEF QuestionOK, Requests
  <1> HIDE DEF q
  <1> QED BY <1>3, <1>4, <1>5, <1>6 DEF Asks

(* The visitor asks again, or for a part of the log. *)
VisitorAsks(q) ==
    /\ Asks(q) /\ q.filter = filter'
    /\ \/ view \in {"error", "gate error"} /\ filter' = filter
       \/ view = "ready" /\ page = "audit"
    /\ filter' \in Filters
    /\ UNCHANGED <<context, role, stored, rows, demo, busy, calls, begun,
                   muddled, hopped>>

LEMMA AskingAgain ==
    ASSUME Typed, Retry \/ \E f \in Filters : SetFilter(f)
    PROVE  \E q : VisitorAsks(q)
  <1>1. filter \in Filters /\ FirstStep(page) \in {"session", "list"}
    BY DEF Typed, FirstStep
  <1>2. CASE Retry
    <2>1. PICK step \in {"gate", "session", "list"} : /\ view \in {"error", "gate error"} /\ Load(step, filter)
      BY <1>1, <1>2 DEF Retry
    <2>2. PICK q : Asks(q) /\ q.filter = filter
      BY <1>1, <2>1, LoadAsks
    <2> QED BY <1>1, <1>2, <2>1, <2>2 DEF Retry, VisitorAsks, shown
  <1>3. ASSUME NEW f \in Filters, SetFilter(f)
        PROVE  \E q : VisitorAsks(q)
    <2>1. PICK q : Asks(q) /\ q.filter = f
      BY <1>1, <1>3, LoadAsks DEF SetFilter
    <2> QED BY <1>3, <2>1 DEF SetFilter, VisitorAsks
  <1> QED BY <1>2, <1>3

(* What an answer to a question does to the page. *)
LoadGoesOn(l) ==
    \E requests : \E step \in {"session", "list", "tables"} :
        /\ view' = "loading"
        /\ loads' = (loads \ {l}) \cup
                {[l EXCEPT !.step = step, !.status = "asked", !.todo = requests]}
        /\ IF step = "tables"
           THEN /\ page = "resources" /\ l.step = "list" /\ l.status = "200"
                /\ requests = RoomsFound(l)
           ELSE requests = Requests(step) /\ l.step \in {"gate", "session"}
        /\ UNCHANGED <<rows, demo>>

LoadEnds(l) ==
    /\ view' \in {"unauthorized", "forbidden", "error", "gate error"}
    /\ loads' = loads \ {l}
    /\ UNCHANGED <<rows, demo>>

LoadShown(l) ==
    /\ l.status = "200"
    /\ \/ l.step = "list" /\ (page = "resources" => RoomsFound(l) = {})
       \/ l.step = "tables" /\ page = "resources"
    /\ view' = "ready" /\ rows' = l.rows /\ demo' = FALSE
    /\ loads' = loads \ {l}

ExamplesShown(l) ==
    /\ page \in {"users", "audit"}
    /\ view' = "ready" /\ rows' \in [Rows -> Showable] /\ demo' = TRUE
    /\ loads' = loads \ {l}

LEMMA ListAnswers ==
    ASSUME NEW l,
           \/ AnswerGate(l) \/ AnswerSession(l)
           \/ l.step = "list" /\ page # "resources" /\ ShowRows(l)
           \/ \E others : \E where \in {"forbidden", "error"} : FailList(l, others, where)
           \/ StopAt(l, "error")
    PROVE  LoadGoesOn(l) \/ LoadEnds(l) \/ LoadShown(l)
  <1>1. ASSUME NEW where \in {"unauthorized", "forbidden", "error", "gate error"}, StopAt(l, where)
        PROVE  LoadEnds(l)
    BY <1>1 DEF StopAt, LoadEnds
  <1>2. ASSUME NEW step \in {"session", "list"}, GoOn(l, step, Requests(step)),
               l.step \in {"gate", "session"}
        PROVE  LoadGoesOn(l)
    BY <1>2 DEF GoOn, LoadGoesOn
  <1>3. CASE AnswerGate(l)
    <2>1. FirstStep(page) \in {"session", "list"}
      BY DEF FirstStep
    <2> QED BY <1>1, <1>2, <1>3, <2>1 DEF AnswerGate
  <1>4. CASE AnswerSession(l)
    BY <1>1, <1>2, <1>4 DEF AnswerSession
  <1>5. CASE l.step = "list" /\ page # "resources" /\ ShowRows(l)
    BY <1>5 DEF ShowRows, LoadShown
  <1>6. ASSUME NEW others, NEW where \in {"forbidden", "error"}, FailList(l, others, where)
        PROVE  LoadEnds(l)
    BY <1>1, <1>6 DEF FailList
  <1>7. CASE StopAt(l, "error")
    BY <1>1, <1>7
  <1> QED BY <1>3, <1>4, <1>5, <1>6, <1>7

LEMMA LoadAnswered ==
    ASSUME NEW l, AnswerLoad(l)
    PROVE  /\ LoadGoesOn(l) \/ LoadEnds(l) \/ LoadShown(l) \/ ExamplesShown(l)
           /\ l.status # "asked"
           /\ UNCHANGED <<context, role, stored, filter, busy, asked, calls, begun, changes,
                          history>>
  <1> DEFINE goal == LoadGoesOn(l) \/ LoadEnds(l) \/ LoadShown(l) \/ ExamplesShown(l)
             listed == l.step = "list" /\ page # "resources" /\ ShowRows(l)
             data == page = "resources" /\ l.step \in {"list", "tables"} /\ loadData(l)
             refused == FailList(l, {"failed"}, "forbidden")
             missing == FailList(l, {"404", "failed"}, "forbidden")
             gone == FailList(l, {"404", "failed"}, "error")
             users == ShowDemo(l, DEMO_USERS)
             events == ShowDemo(l, DEMO_AUDIT_EVENTS)
             stopped == StopAt(l, "error")
  <1>a. AnswerGate(l) \/ AnswerSession(l) \/ listed \/ stopped => goal
    BY ListAnswers
  <1>c. refused \/ missing \/ gone => goal
    BY ListAnswers
  <1>e. page = "users" /\ users => goal
    <2>1. page = "users" => DEMO_USERS \in [Rows -> Showable]
      BY Fields DEF DEMO_USERS, Showable
    <2> QED BY <2>1 DEF ShowDemo, ExamplesShown
  <1>f. page = "audit" /\ events => goal
    <2>1. DEMO_AUDIT_EVENTS \in [Rows -> Showable]
      BY DEF DEMO_AUDIT_EVENTS, Showable
    <2> QED BY <2>1 DEF ShowDemo, ExamplesShown
  <1>g. data => goal
    <2>1. ASSUME page = "resources", l.step = "list", l.status = "200", RoomsFound(l) # {},
                 GoOn(l, "tables", RoomsFound(l))
          PROVE  LoadGoesOn(l)
      BY <2>1 DEF GoOn, LoadGoesOn
    <2>2. ASSUME page = "resources", ShowRows(l),
                 (l.step = "list" /\ RoomsFound(l) = {}) \/ l.step = "tables"
          PROVE  LoadShown(l)
      BY <2>2 DEF ShowRows, LoadShown
    <2>3. ASSUME l.step \in {"list", "tables"} PROVE ~AnswerSession(l)
      BY <2>3 DEF AnswerSession
    <2> QED BY <1>a, <1>c, <2>1, <2>2, <2>3 DEF loadData
  <1>1. loadQueue(l) => listed \/ missing
    BY DEF loadQueue
  <1>2. loadDashboard(l) => listed \/ gone
    BY DEF loadDashboard
  <1>3. loadData(l) => AnswerSession(l) \/ data
    BY DEF loadData
  <1>4. loadUsers(l) => AnswerSession(l) \/ listed \/ refused \/ (page = "users" /\ users)
    BY DEF loadUsers
  <1>5. loadEvents(l) => AnswerSession(l) \/ listed \/ refused \/ (page = "audit" /\ events)
    BY DEF loadEvents
  <1>6. /\ \/ AnswerGate(l)
           \/ loadQueue(l) \/ loadUsers(l) \/ loadEvents(l) \/ loadDashboard(l) \/ loadData(l)
        /\ l.status # "asked"
        /\ UNCHANGED <<context, role, stored, filter, busy, asked, calls, begun, changes,
                       history>>
    BY DEF AnswerLoad
  <1> HIDE DEF goal, listed, data, refused, missing, gone, users, events, stopped
  <1>7. goal
    BY <1>a, <1>c, <1>e, <1>f, <1>g, <1>1, <1>2, <1>3, <1>4, <1>5, <1>6
  <1> QED BY <1>6, <1>7 DEF goal

(* A question the API answers. *)
LoadServed(l, m) ==
    \E request \in l.todo :
        /\ l \in loads /\ l.status = "asked" /\ loads' = (loads \ {l}) \cup {m}
        /\ m \in Loads /\ m.n = l.n /\ m.step = l.step /\ m.filter = l.filter
        /\ m.todo = l.todo \ {request}
        /\ m.status = "200" => m.todo = {}
        /\ m.rows = IF m.status \in {"asked", "200"} THEN Listed(l, request) ELSE l.rows
        /\ UNCHANGED <<context, role, stored, view, shown, busy, asked, calls, begun,
                       changes, history>>

LEMMA ListedTyped ==
    ASSUME Typed, NEW l \in loads, NEW request
    PROVE  /\ Listed(l, request) \in [Rows -> Showable]
           /\ \A r \in Rows : r \notin AskedFor(l, request) => Listed(l, request)[r] = l.rows[r]
           /\ page # "audit" => \A r \in AskedFor(l, request) :
                   Listed(l, request)[r] = IF IsListed(r) THEN server[r] ELSE None
           /\ page = "audit" => \A r \in AskedFor(l, request) : Listed(l, request)[r] = l.filter
  <1>1. ASSUME NEW r \in Rows, page # "audit"
        PROVE  server[r] \in Showable
    BY <1>1 DEF Typed, Showable
  <1>2. l \in Loads /\ None \in Showable
    BY DEF Typed, Showable
  <1>3. page = "audit" => l.filter \in Showable
    BY <1>2 DEF Loads, Showable
  <1>4. \A r \in Rows : l.rows[r] \in Showable
    BY <1>2 DEF Loads
  <1>5. AskedFor(l, request) \subseteq Rows
    BY DEF AskedFor
  <1> QED BY <1>1, <1>2, <1>3, <1>4, <1>5 DEF Listed

LEMMA LoadIsServed ==
    ASSUME Typed, NEW l \in loads, ServeLoad(l)
    PROVE  \E m : LoadServed(l, m)
  <1>1. AnswerOf(l) \in Answers
    <2>1. \A route, allowed : Verdict(route, allowed) \in Answers
      BY DEF Verdict, Answers
    <2> QED BY <2>1 DEF AnswerOf, Answers
  <1>2. OrFailure(AnswerOf(l)) \subseteq Answers
    BY <1>1 DEF OrFailure, Answers
  <1>3. PICK request \in l.todo, status \in OrFailure(AnswerOf(l)) :
            loads' = (loads \ {l}) \cup
                {[l EXCEPT !.status = IF status = "200" /\ l.todo # {request}
                                      THEN "asked" ELSE status,
                           !.role = role, !.todo = @ \ {request},
                           !.rows = IF status = "200" THEN Listed(l, request) ELSE @]}
    BY DEF ServeLoad
  <1> DEFINE m == [l EXCEPT !.status = IF status = "200" /\ l.todo # {request}
                                       THEN "asked" ELSE status,
                            !.role = role, !.todo = @ \ {request},
                            !.rows = IF status = "200" THEN Listed(l, request) ELSE @]
  <1>4. l \in Loads /\ status \in Answers /\ role \in Roles
    BY <1>2 DEF Typed
  <1>5. Listed(l, request) \in [Rows -> Showable]
    BY ListedTyped
  <1>6. m \in Loads
    BY <1>4, <1>5 DEF Loads
  <1>7. /\ m.n = l.n /\ m.step = l.step /\ m.filter = l.filter
        /\ m.status = IF status = "200" /\ l.todo # {request} THEN "asked" ELSE status
        /\ m.todo = l.todo \ {request}
        /\ m.rows = IF status = "200" THEN Listed(l, request) ELSE l.rows
    BY <1>4 DEF Loads
  <1>8. loads' = (loads \ {l}) \cup {m}
    BY <1>3
  <1>9. l.status = "asked" /\ UNCHANGED <<context, role, stored, view, shown, busy, asked,
                                          calls, begun, changes, history>>
    BY DEF ServeLoad
  <1> HIDE DEF m
  <1>10. /\ m.status = "200" => m.todo = {}
         /\ m.rows = IF m.status \in {"asked", "200"} THEN Listed(l, request) ELSE l.rows
    BY <1>4, <1>7 DEF Answers
  <1>11. LoadServed(l, m)
    BY <1>3, <1>6, <1>7, <1>8, <1>9, <1>10 DEF LoadServed
  <1> QED BY <1>11

(* A call the API carries out or turns down. *)
Done(c, d) ==
    /\ d.row \in Concerns(c)
    /\ server' = [server EXCEPT ![d.row] = Outcome(c, d.row)]
    /\ home' = [home EXCEPT ![d.row] = HomeAfter(c, d.row)]
    /\ \/ d.status = "200" /\ d.result = Outcome(c, d.row) /\ UNCHANGED muddled
       \/ d.status = "failed" /\ muddled' = muddled \cup {d.row}

TurnedDown(c, d) ==
    /\ d.row = c.row /\ d.status \in {"401", "403", "failed"}
    /\ UNCHANGED <<stored, muddled>>

CallServed(c, d) ==
    /\ c \in calls /\ c.status = "sent" /\ calls' = (calls \ {c}) \cup {d}
    /\ IsCall(d) /\ d.n = c.n /\ d.op = c.op /\ d.button = c.button /\ d.value = c.value /\ d.room = c.room
    /\ Done(c, d) \/ TurnedDown(c, d)
    /\ UNCHANGED <<context, role, view, shown, busy, loads, asked, begun, changes,
                   crossed, hopped>>

LEMMA Returned ==
    ASSUME Typed, NEW c \in calls, NEW status, NEW row, NEW result,
           Return(c, status, row, result)
    PROVE  \E d : /\ calls' = (calls \ {c}) \cup {d}
                  /\ IsCall(d) /\ d.n = c.n /\ d.op = c.op /\ d.button = c.button
                  /\ d.value = c.value /\ d.room = c.room
                  /\ d.status = status /\ d.row = row /\ d.result = result
  <1> DEFINE d == [c EXCEPT !.status = status, !.row = row, !.result = result]
  <1>1. IsCall(c)
    BY DEF Typed, CallOK
  <1>2. calls' = (calls \ {c}) \cup {d}
    BY DEF Return
  <1>3. /\ d.n = c.n /\ d.op = c.op /\ d.button = c.button /\ d.value = c.value /\ d.room = c.room
        /\ d.status = status /\ d.row = row /\ d.result = result
    BY <1>1 DEF IsCall
  <1>4. IsCall(d)
    BY <1>1 DEF IsCall
  <1> HIDE DEF d
  <1> QED BY <1>2, <1>3, <1>4

LEMMA CallIsServed ==
    ASSUME Typed, NEW c \in calls, ServeCall(c)
    PROVE  \E d : CallServed(c, d)
  <1>1. /\ c.status = "sent"
        /\ UNCHANGED <<context, role, view, shown, busy, loads, asked, begun, changes,
                       crossed, hopped>>
    BY DEF ServeCall, CarryOut, TurnDown
  <1>2. CASE CarryOut(c)
    <2>1. PICK row \in Concerns(c) :
            /\ server' = [server EXCEPT ![row] = Outcome(c, row)]
            /\ home' = [home EXCEPT ![row] = HomeAfter(c, row)]
            /\ \/ Return(c, "200", row, Outcome(c, row)) /\ UNCHANGED muddled
               \/ Return(c, "failed", row, None) /\ muddled' = muddled \cup {row}
      BY <1>2 DEF CarryOut
    <2>2. CASE Return(c, "200", row, Outcome(c, row)) /\ UNCHANGED muddled
      <3>1. PICK d : /\ calls' = (calls \ {c}) \cup {d}
                     /\ IsCall(d) /\ d.n = c.n /\ d.op = c.op /\ d.button = c.button
                     /\ d.value = c.value /\ d.room = c.room
                     /\ d.status = "200" /\ d.row = row /\ d.result = Outcome(c, row)
        BY <2>2, Returned
      <3>2. Done(c, d)
        BY <2>1, <2>2, <3>1 DEF Done
      <3> QED BY <1>1, <3>1, <3>2 DEF CallServed
    <2>3. CASE Return(c, "failed", row, None) /\ muddled' = muddled \cup {row}
      <3>1. PICK d : /\ calls' = (calls \ {c}) \cup {d}
                     /\ IsCall(d) /\ d.n = c.n /\ d.op = c.op /\ d.button = c.button
                     /\ d.value = c.value /\ d.room = c.room
                     /\ d.status = "failed" /\ d.row = row
        BY <2>3, Returned
      <3>2. Done(c, d)
        BY <2>1, <2>3, <3>1 DEF Done
      <3> QED BY <1>1, <3>1, <3>2 DEF CallServed
    <2> QED BY <2>1, <2>2, <2>3
  <1>3. CASE TurnDown(c)
    <2>1. PICK status \in {"401", "403", "failed"} : Return(c, status, c.row, None)
      BY <1>3 DEF TurnDown
    <2>2. PICK d : /\ calls' = (calls \ {c}) \cup {d}
                   /\ IsCall(d) /\ d.n = c.n /\ d.op = c.op /\ d.button = c.button
                   /\ d.value = c.value /\ d.room = c.room
                   /\ d.status = status /\ d.row = c.row
      BY <2>1, Returned
    <2>3. TurnedDown(c, d)
      BY <1>3, <2>2 DEF TurnDown, TurnedDown
    <2> QED BY <1>1, <2>2, <2>3 DEF CallServed
  <1> QED BY <1>2, <1>3 DEF ServeCall

(* The answer to a call reaches the page. *)
Reloaded(c) ==
    /\ page = "resources" /\ c.status = "200" /\ UNCHANGED rows
    /\ \E q : Asks(q) /\ q.filter = filter

ResultShown(c) ==
    /\ page # "resources" /\ c.status = "200"
    /\ rows' = IF c.op = "reveal" THEN rows ELSE [rows EXCEPT ![c.row] = c.result]
    /\ UNCHANGED <<view, loads, asked, crossed>>

FailureShown(c) ==
    /\ c.status # "200"
    /\ \/ view' = view
       \/ page \in {"queue", "dashboard"} /\ view' \in {"unauthorized", "forbidden"}
    /\ UNCHANGED <<rows, loads, asked, crossed>>

CallAnswered(c) ==
    /\ c \in calls /\ c.status # "sent" /\ calls' = calls \ {c}
    /\ Reloaded(c) \/ ResultShown(c) \/ FailureShown(c)
    /\ busy' = None
    /\ hopped' = (hopped \cup {o.n : o \in calls}) \ {c.n}
    /\ UNCHANGED <<context, role, stored, filter, demo, begun, changes, muddled>>

LEMMA CallIsAnswered ==
    ASSUME Typed, NEW c \in calls, AnswerCall(c)
    PROVE  CallAnswered(c)
  <1>1. ASSUME ShowResult(c), page = "resources" PROVE Reloaded(c)
    <2>1. filter \in Filters
      BY DEF Typed
    <2>2. Load("session", filter) /\ UNCHANGED rows /\ c.status = "200"
      BY <1>1 DEF ShowResult, refreshData
    <2> QED BY <1>1, <2>1, <2>2, LoadAsks DEF Reloaded
  <1>2. ASSUME ShowResult(c), page # "resources" PROVE ResultShown(c)
    BY <1>2 DEF ShowResult, ResultShown
  <1>3. ASSUME ShowFailure(c) PROVE FailureShown(c)
    BY <1>3 DEF ShowFailure, FailureShown
  <1> QED BY <1>1, <1>2, <1>3 DEF AnswerCall, CallAnswered

LoadArrives(l) ==
    /\ l \in loads /\ l.status # "asked"
    /\ LoadGoesOn(l) \/ LoadEnds(l) \/ LoadShown(l) \/ ExamplesShown(l)
    /\ UNCHANGED <<context, role, stored, filter, busy, asked, calls, begun, changes, history>>

(* What the visitor does besides, and everybody else. *)
Played ==
    /\ page = "users" /\ view = "ready" /\ demo
    /\ rows' \in [Rows -> Showable]
    /\ UNCHANGED <<context, role, stored, view, filter, demo, busy, loads, asked,
                   calls, begun, changes, history>>

Changed(r) ==
    /\ r \in Rows
    /\ \E status \in Statuses[page] :
        /\ status # "absent"
        /\ server' = [server EXCEPT ![r] = status]
    /\ \E room : /\ home' = [home EXCEPT ![r] = room]
                 /\ IF kind[r] # "table" THEN room = home[r]
                    ELSE room \in Rows /\ kind[room] = "room"
    /\ muddled' = muddled \cup {r}
    /\ UNCHANGED <<context, role, view, shown, busy, loads, asked, calls, begun,
                   crossed, hopped>>

RoleLost ==
    /\ role' \in Roles
    /\ UNCHANGED <<context, stored, view, shown, busy, loads, asked, calls, begun, history>>

LEMMA NextSplits ==
    ASSUME Typed, Next
    PROVE  \/ \E q : VisitorAsks(q)
           \/ \E b, value, room : Clicked(b, value, room)
           \/ Played \/ RoleLost
           \/ \E l, m : LoadServed(l, m)
           \/ \E l : LoadArrives(l)
           \/ \E c, d : CallServed(c, d)
           \/ \E c : CallAnswered(c)
           \/ \E r : Changed(r)
  <1>1. CASE Visitor
    <2>1. CASE Retry \/ \E f \in Filters : SetFilter(f)
      BY <2>1, AskingAgain
    <2>2. ASSUME NEW row \in Rows, ClickRow(row)
          PROVE  \E b, value, room : Clicked(b, value, room)
      BY <2>2, RowClicks
    <2>3. ASSUME NEW value \in Statuses.resources, ClickCreate(value)
          PROVE  \E b, v, room : Clicked(b, v, room)
      BY <2>3, CreateClicks
    <2>4. ASSUME NEW row \in Rows, NEW op \in {"block", "unblock"},
                 page = "users", PlayDemo(op, row)
          PROVE  Played
      <3>1. \E to \in {"blocked", "active"} : rows' = [rows EXCEPT ![row] = to]
        BY <2>4 DEF PlayDemo
      <3>2. {"blocked", "active"} \subseteq Showable
        BY <2>4, Fields DEF Showable
      <3>3. rows' \in [Rows -> Showable]
        BY <3>1, <3>2 DEF Typed
      <3> QED BY <2>4, <3>3 DEF PlayDemo, Played
    <2> HIDE DEF Played
    <2> QED BY <1>1, <2>1, <2>2, <2>3, <2>4 DEF Visitor
  <1>2. CASE Serve
    BY <1>2, LoadIsServed, CallIsServed DEF Serve
  <1>3. ASSUME NEW l \in loads, AnswerLoad(l)
        PROVE  LoadArrives(l)
    BY <1>3, LoadAnswered DEF LoadArrives
  <1>4. CASE Arrive
    BY <1>3, <1>4, CallIsAnswered DEF Arrive
  <1>5. ASSUME NEW row \in Rows, NEW status \in Statuses[page], ChangeRow(row, status)
        PROVE  Changed(row)
    BY <1>5 DEF ChangeRow, Changed
  <1>6. ASSUME NEW to \in {"none", "user"}, LoseRole(to)
        PROVE  RoleLost
    BY <1>6 DEF LoseRole, RoleLost, Roles, Everyone
  <1>7. CASE Others
    BY <1>5, <1>6, <1>7 DEF Others
  <1> QED BY <1>1, <1>2, <1>4, <1>7 DEF Next

-----------------------------------------------------------------------------
(* Types. *)

LEMMA OutcomeTyped ==
    ASSUME Typed, NEW c \in calls, NEW row \in Concerns(c)
    PROVE  row \in Rows /\ Outcome(c, row) \in Statuses[page]
  <1>1. CallOK(c) /\ page \in Pages /\ server \in [Rows -> Statuses[page]]
    BY DEF Typed, ContextOK
  <1>2. row \in Rows
    BY <1>1 DEF CallOK, Concerns
  <1>3. server[row] \in Statuses[page]
    BY <1>1, <1>2
  <1>4. CASE page = "queue"
    <2>1. c.op \in {"confirm", "cancel", "reveal"}
      BY <1>1, <1>4 DEF CallOK, Ops
    <2> QED BY <1>2, <1>3, <1>4, <2>1, Fields DEF Outcome
  <1>5. CASE page = "users"
    <2>1. c.op \in {"block", "unblock"}
      BY <1>1, <1>5 DEF CallOK, Ops
    <2> QED BY <1>2, <1>3, <1>5, <2>1, Fields DEF Outcome
  <1>6. CASE page = "audit"
    <2>1. c.op \in {}
      BY <1>1, <1>6 DEF CallOK, Ops
    <2> QED BY <2>1
  <1>7. CASE page = "dashboard"
    <2>1. c.op \in {"withdraw"}
      BY <1>1, <1>7 DEF CallOK, Ops
    <2> QED BY <1>2, <1>3, <1>7, <2>1, Fields DEF Outcome
  <1>8. CASE page = "resources"
    <2>1. c.op \in {"save", "delete", "create"}
      BY <1>1, <1>8 DEF CallOK, Ops
    <2>2. c.op \in {"save", "create"} => c.value \in Statuses.resources
      BY <1>1 DEF CallOK
    <2> QED BY <1>2, <1>3, <1>8, <2>1, <2>2, Fields DEF Outcome
  <1> QED BY <1>1, <1>4, <1>5, <1>6, <1>7, <1>8, Fields

LEMMA CallsStay ==
    ASSUME Typed, UNCHANGED <<page, kind>>, begun' \in Nat, begun' >= begun, NEW c, CallOK(c)
    PROVE  CallOK(c)'
  <1>1. 1..begun \subseteq 1..begun'
    BY DEF Typed
  <1>2. IsCall(c)'
    BY DEF IsCall, CallOK
  <1> QED BY <1>1, <1>2 DEF CallOK

(* Kinds and pages stay, so a question is as good afterwards; where no row *)
(* and no home changes, the homes are.                                     *)
LEMMA StaysOK ==
    ASSUME UNCHANGED <<page, kind>>
    PROVE  /\ \A l : QuestionOK(l)' <=> QuestionOK(l)
           /\ HomesOK /\ UNCHANGED stored => HomesOK'
  <1>1. ASSUME NEW l PROVE QuestionOK(l)' <=> QuestionOK(l)
    BY DEF QuestionOK
  <1>2. HomesOK /\ UNCHANGED stored => HomesOK'
    BY DEF HomesOK, stored
  <1> QED BY <1>1, <1>2

LEMMA TypedStarts ==
    ASSUME Init PROVE Typed
  <1>1. PICK o \in Openings :
        /\ page = o.page /\ api = o.api /\ kind = o.kind /\ home = o.home
        /\ claims = o.claims /\ role = o.role /\ server = o.server
    BY DEF Init
  <1>2. o \in Opening
    BY <1>1, PagesAssumption
  <1>3. ContextOK /\ role \in Roles /\ server \in [Rows -> Statuses[page]]
    BY <1>1, <1>2 DEF Opening, ContextOK, Roles
  <1>4. rows \in [Rows -> Showable]
    BY DEF Init, Showable
  <1>5. "all" \in Filters /\ filter = "all"
    BY DEF Init, Filters
  <1>6. PICK step \in {"gate", "list"} : loads = {Question(1, step)}
    BY DEF Init
  <1>7. Question(1, step) \in Loads /\ Question(1, step).n = 1
        /\ QuestionOK(Question(1, step))
    <2>1. [r \in Rows |-> None] \in [Rows -> Showable]
      BY DEF Showable
    <2>2. Requests(step) \in SUBSET (Steps \cup Kinds \cup Rows)
      BY <1>6 DEF Requests, Kinds, OwnersKinds, Steps
    <2>3. QuestionOK(Question(1, step))
      BY <1>6 DEF Question, QuestionOK, Requests
    <2> QED BY <1>3, <1>5, <1>6, <2>1, <2>2, <2>3 DEF Question, Loads, Steps
  <1>8. HomesOK
    BY <1>1, <1>2 DEF Opening, HomesOK
  <1>9. view \in Views /\ demo \in BOOLEAN /\ asked = 1 /\ begun = 0 /\ calls = {} /\ muddled = {}
    BY DEF Init, Views
  <1>10. loads \subseteq Loads /\ \A l \in loads : l.n = 1 /\ QuestionOK(l)
    BY <1>6, <1>7
  <1> QED BY <1>3, <1>4, <1>5, <1>8, <1>9, <1>10 DEF Typed

LEMMA TypedOfAsking ==
    ASSUME Typed, NEW q, VisitorAsks(q)
    PROVE  Typed'
  <1>1. Asks(q) /\ UNCHANGED <<page, api, kind, claims, role, server, home, rows, demo,
                               calls, begun, muddled>>
    BY DEF VisitorAsks, context, stored
  <1>2. Showable' = Showable /\ Loads' = Loads /\ ContextOK'
    BY <1>1 DEF Showable, Loads, ContextOK, Typed
  <1>3. asked' = asked + 1 /\ loads' = loads \cup {q} /\ q \in Loads /\ q.n = asked + 1
        /\ QuestionOK(q)
    BY <1>1 DEF Asks
  <1>4. asked' \in Nat /\ \A l \in loads' : l.n \in 1..asked'
    BY <1>3 DEF Typed
  <1>5. HomesOK' /\ \A l \in loads' : QuestionOK(l)'
    BY <1>1, <1>3, StaysOK DEF Typed, stored
  <1>6. \A c \in calls' : CallOK(c)'
    BY <1>1, CallsStay DEF Typed
  <1>7. filter' \in Filters /\ view' \in Views
    BY <1>1 DEF VisitorAsks, Asks, Views
  <1> QED BY <1>1, <1>2, <1>3, <1>4, <1>5, <1>6, <1>7 DEF Typed

LEMMA Sending ==
    ASSUME NEW b, NEW value, NEW room, Clicked(b, value, room)
    PROVE  \E c : /\ calls' = calls \cup {c} /\ IsCall(c) /\ c.n = begun + 1
                  /\ c.op = b.op /\ c.row = b.row /\ c.button = b
                  /\ c.value = value /\ c.room = room /\ c.status = "sent"
  <1> DEFINE c == [n |-> begun + 1, op |-> b.op, row |-> b.row, button |-> b,
                   value |-> value, room |-> room, status |-> "sent", result |-> None]
  <1>1. calls' = calls \cup {c}
    BY DEF Clicked, Send
  <1>2. IsCall(c) /\ c.n = begun + 1 /\ c.op = b.op /\ c.row = b.row /\ c.button = b
        /\ c.value = value /\ c.room = room /\ c.status = "sent"
    BY DEF IsCall
  <1> HIDE DEF c
  <1> QED BY <1>1, <1>2

LEMMA TypedOfClick ==
    ASSUME Typed, NEW b, NEW value, NEW room, Clicked(b, value, room)
    PROVE  Typed'
  <1>1. Send(b, value, room)
    BY DEF Clicked
  <1>2. UNCHANGED <<page, api, kind, claims, role, server, home, view, rows, filter,
                    demo, loads, asked>>
    BY <1>1 DEF Send, context, stored, shown
  <1>3. begun' = begun + 1 /\ begun \in Nat
    BY <1>1 DEF Send, Typed
  <1>4. PICK c : /\ calls' = calls \cup {c} /\ IsCall(c) /\ c.n = begun + 1
                 /\ c.op = b.op /\ c.row = b.row /\ c.button = b
                 /\ c.value = value /\ c.room = room /\ c.status = "sent"
    BY Sending
  <1>6. CallOK(c)'
    <2>1. IsCall(c)' /\ c.n \in 1..begun' /\ c.op \in Ops[page'] /\ c.button \in Buttons
      BY <1>2, <1>3, <1>4 DEF Clicked, IsCall
    <2>2. c.row \in Rows \/ (c.op = "create" /\ c.status # "200" /\ c.row = None)
      BY <1>4 DEF Clicked
    <2>3. /\ c.op \in {"save", "create"} => c.value \in Statuses.resources
          /\ c.op # "create" => c.button.kind = kind[c.row]
          /\ c.room # None => c.room \in Rows /\ kind[c.room] = "room" /\ c.button.kind = "table"
          /\ c.op = "create" /\ c.button.kind = "table" => c.room # None
      BY <1>4 DEF Clicked
    <2> QED BY <1>2, <1>4, <2>1, <2>2, <2>3 DEF CallOK
  <1>7. \A d \in calls' : CallOK(d)'
    BY <1>2, <1>3, <1>4, <1>6, CallsStay DEF Typed
  <1>8. muddled' \subseteq Rows
    BY <1>1 DEF Send, Typed
  <1>9. Showable' = Showable /\ Loads' = Loads /\ ContextOK'
    BY <1>2 DEF Showable, Loads, ContextOK, Typed
  <1>10. HomesOK' /\ \A l \in loads' : QuestionOK(l)'
    BY <1>2, StaysOK DEF Typed, stored
  <1> QED BY <1>2, <1>3, <1>7, <1>8, <1>9, <1>10 DEF Typed

LEMMA TypedOfLoads ==
    ASSUME Typed,
           UNCHANGED <<page, api, kind, claims, role, server, home, filter, asked, calls,
                       begun, muddled>>,
           view' \in Views, rows' \in [Rows -> Showable], demo' \in BOOLEAN,
           loads' \subseteq Loads, \A l \in loads' : l.n \in 1..asked,
           \A l \in loads' : QuestionOK(l)
    PROVE  Typed'
  <1>1. Showable' = Showable /\ Loads' = Loads /\ ContextOK'
    BY DEF Showable, Loads, ContextOK, Typed
  <1>2. \A c \in calls' : CallOK(c)'
    BY CallsStay DEF Typed
  <1>3. HomesOK' /\ \A l \in loads' : QuestionOK(l)'
    BY StaysOK DEF Typed, stored
  <1> QED BY <1>1, <1>2, <1>3 DEF Typed

LEMMA TypedOfServing ==
    ASSUME Typed, NEW l, NEW m, LoadServed(l, m)
    PROVE  Typed'
  <1>1. UNCHANGED <<page, api, kind, claims, role, server, home, view, rows, filter,
                    demo, asked, calls, begun, muddled>>
    BY DEF LoadServed, context, stored, shown, history
  <1>2. PICK request \in l.todo :
            /\ loads' = (loads \ {l}) \cup {m} /\ l \in loads /\ m \in Loads /\ m.n = l.n
            /\ m.step = l.step /\ m.todo = l.todo \ {request}
            /\ m.status = "200" => m.todo = {}
            /\ m.rows = IF m.status \in {"asked", "200"} THEN Listed(l, request) ELSE l.rows
    BY DEF LoadServed
  <1>3. loads' \subseteq Loads /\ \A k \in loads' : k.n \in 1..asked
    BY <1>2 DEF Typed
  <1>4. ASSUME m.step # "tables", NEW r \in Rows, kind[r] = "table"
        PROVE  m.rows[r] = None
    <2>1. QuestionOK(l) /\ l.rows[r] = None
      BY <1>2, <1>4 DEF Typed, QuestionOK
    <2>2. page = "resources"
      BY <1>4 DEF Typed, HomesOK, OwnersKinds
    <2>3. r \notin AskedFor(l, request)
      <3>1. l.step = "list" => request \in {"room", "hours", "exception"}
        BY <1>2, <2>1, <2>2 DEF QuestionOK
      <3> QED BY <1>2, <1>4, <2>2, <3>1 DEF AskedFor
    <2> QED BY <1>2, <2>1, <2>3, ListedTyped
  <1>5. QuestionOK(m)
    BY <1>2, <1>4 DEF Typed, QuestionOK
  <1> QED BY <1>1, <1>2, <1>3, <1>5, TypedOfLoads DEF Typed

(* A question that goes on asks for the next, and keeps what it has.       *)
LEMMA WentOn ==
    ASSUME Typed, NEW l \in loads, LoadGoesOn(l)
    PROVE  \E m : /\ view' = "loading" /\ loads' = (loads \ {l}) \cup {m}
                  /\ m \in Loads /\ m.n = l.n /\ QuestionOK(m) /\ UNCHANGED <<rows, demo>>
                  /\ m.filter = l.filter /\ m.rows = l.rows /\ m.status = "asked"
                  /\ \/ m.step # "tables" /\ m.todo = Requests(m.step)
                        /\ l.step \in {"gate", "session"}
                     \/ /\ m.step = "tables" /\ page = "resources"
                        /\ l.step = "list" /\ l.status = "200" /\ m.todo = RoomsFound(l)
  <1>0. PICK requests : \E step \in {"session", "list", "tables"} :
            /\ view' = "loading"
            /\ loads' = (loads \ {l}) \cup
                    {[l EXCEPT !.step = step, !.status = "asked", !.todo = requests]}
            /\ IF step = "tables"
               THEN /\ page = "resources" /\ l.step = "list" /\ l.status = "200"
                    /\ requests = RoomsFound(l)
               ELSE requests = Requests(step) /\ l.step \in {"gate", "session"}
            /\ UNCHANGED <<rows, demo>>
    BY DEF LoadGoesOn
  <1>1. PICK step \in {"session", "list", "tables"} :
            /\ view' = "loading"
            /\ loads' = (loads \ {l}) \cup
                    {[l EXCEPT !.step = step, !.status = "asked", !.todo = requests]}
            /\ IF step = "tables"
               THEN /\ page = "resources" /\ l.step = "list" /\ l.status = "200"
                    /\ requests = RoomsFound(l)
               ELSE requests = Requests(step) /\ l.step \in {"gate", "session"}
            /\ UNCHANGED <<rows, demo>>
    BY <1>0
  <1> DEFINE m == [l EXCEPT !.step = step, !.status = "asked", !.todo = requests]
  <1>2. l \in Loads /\ QuestionOK(l)
    BY DEF Typed
  <1>3. requests \in SUBSET (Steps \cup Kinds \cup Rows)
    BY <1>1 DEF Requests, RoomsFound, Steps, Kinds, OwnersKinds
  <1>4. m \in Loads
    BY <1>2, <1>3 DEF Loads, Steps
  <1>5. /\ m.n = l.n /\ m.step = step /\ m.status = "asked" /\ m.todo = requests
        /\ m.filter = l.filter /\ m.rows = l.rows
    BY <1>2 DEF Loads
  <1>6. loads' = (loads \ {l}) \cup {m}
    BY <1>1
  <1> HIDE DEF m
  <1>7. QuestionOK(m)
    <2>1. \A r \in Rows : step # "tables" /\ kind[r] = "table" => l.rows[r] = None
      BY <1>1, <1>2 DEF QuestionOK
    <2>2. step = "tables" => page = "resources" /\ requests \subseteq Rows
      BY <1>1 DEF RoomsFound
    <2>3. step = "list" /\ page = "resources" => requests = {"room", "hours", "exception"}
      BY <1>1 DEF Requests
    <2> QED BY <1>5, <2>1, <2>2, <2>3 DEF QuestionOK
  <1> QED BY <1>1, <1>4, <1>5, <1>6, <1>7

LEMMA TypedOfArrival ==
    ASSUME Typed, NEW l, LoadArrives(l)
    PROVE  Typed'
  <1>1. UNCHANGED <<page, api, kind, claims, role, server, home, filter, asked, calls,
                    begun, muddled>>
    BY DEF LoadArrives, context, stored, history
  <1>2. l \in loads /\ l \in Loads /\ l.n \in 1..asked /\ QuestionOK(l)
    BY DEF LoadArrives, Typed
  <1>3. rows \in [Rows -> Showable] /\ demo \in BOOLEAN /\ l.rows \in [Rows -> Showable]
    BY <1>2 DEF Typed, Loads
  <1>5. \A k \in loads : k \in Loads /\ k.n \in 1..asked /\ QuestionOK(k)
    BY DEF Typed
  <1>6. CASE LoadGoesOn(l)
    <2>1. PICK m : /\ view' = "loading" /\ loads' = (loads \ {l}) \cup {m}
                   /\ m \in Loads /\ m.n = l.n /\ QuestionOK(m) /\ UNCHANGED <<rows, demo>>
      BY <1>2, <1>6, WentOn
    <2>5. loads' \subseteq Loads /\ \A k \in loads' : k.n \in 1..asked /\ QuestionOK(k)
      BY <1>2, <1>5, <2>1
    <2>6. view' \in Views /\ UNCHANGED <<rows, demo>>
      BY <2>1 DEF Views
    <2> QED BY <1>1, <1>3, <2>5, <2>6, TypedOfLoads
  <1>7. CASE LoadEnds(l) \/ LoadShown(l) \/ ExamplesShown(l)
    <2>1. loads' = loads \ {l} /\ view' \in Views
      BY <1>7 DEF LoadEnds, LoadShown, ExamplesShown, Views
    <2>2. rows' \in [Rows -> Showable] /\ demo' \in BOOLEAN
      BY <1>3, <1>7 DEF LoadEnds, LoadShown, ExamplesShown
    <2>4. loads' \subseteq Loads /\ \A k \in loads' : k.n \in 1..asked /\ QuestionOK(k)
      BY <1>5, <2>1
    <2> QED BY <1>1, <2>1, <2>2, <2>4, TypedOfLoads
  <1> QED BY <1>6, <1>7 DEF LoadArrives

(* A call that is carried out gives a table a room that exists.            *)
LEMMA HomesOfCall ==
    ASSUME Typed, NEW c \in calls, NEW d, d.row \in Rows, Done(c, d), UNCHANGED <<page, kind>>
    PROVE  HomesOK'
  <1>1. CallOK(c) /\ HomesOK /\ server \in [Rows -> Statuses[page]] /\ d.row \in Concerns(c)
    BY DEF Typed, Done
  <1>2. /\ server' = [server EXCEPT ![d.row] = Outcome(c, d.row)]
        /\ home' = [home EXCEPT ![d.row] = IF c.room = None THEN home[d.row] ELSE c.room]
    BY DEF Done, HomeAfter
  <1>3. home' \in [Rows -> Rows \cup {None}]
    BY <1>1, <1>2 DEF HomesOK, CallOK
  <1>4. c.button.kind = kind[d.row] /\ server[d.row] \in Accepted(c.op, d.row)
    BY <1>1 DEF CallOK, Concerns
  <1>5. ASSUME kind[d.row] = "table", c.room = None PROVE home[d.row] # None
    <2>1. page = "resources"
      BY <1>1, <1>5 DEF HomesOK, OwnersKinds
    <2>2. c.op \in {"save", "delete"}
      BY <1>1, <1>4, <1>5, <2>1 DEF CallOK, Ops
    <2>3. server[d.row] \in Values \cup {"off"}
      BY <1>4, <1>5, <2>2 DEF Accepted
    <2>4. server[d.row] # "absent"
      BY <2>3 DEF Values
    <2> QED BY <1>1, <1>5, <2>4 DEF HomesOK
  <1>6. ASSUME NEW r \in Rows
        PROVE  /\ home'[r] = None /\ kind[r] = "table" => server'[r] = "absent"
               /\ home'[r] # None => kind[r] = "table" /\ home'[r] \in Rows /\ kind[home'[r]] = "room"
    <2>1. CASE r # d.row
      <3>1. home'[r] = home[r] /\ server'[r] = server[r]
        BY <1>1, <1>2, <2>1 DEF HomesOK
      <3> QED BY <1>1, <3>1 DEF HomesOK
    <2>2. CASE r = d.row
      <3>1. home'[r] = IF c.room = None THEN home[r] ELSE c.room
        BY <1>1, <1>2, <2>2 DEF HomesOK
      <3> QED BY <1>1, <1>4, <1>5, <2>2, <3>1 DEF HomesOK, CallOK
    <2> QED BY <2>1, <2>2
  <1> QED BY <1>1, <1>3, <1>6 DEF HomesOK

LEMMA TypedOfCall ==
    ASSUME Typed, NEW c, NEW d, CallServed(c, d)
    PROVE  Typed'
  <1>1. UNCHANGED <<page, api, kind, claims, role, view, rows, filter, demo,
                    loads, asked, begun>>
    BY DEF CallServed, context, stored, shown
  <1>2. c \in calls /\ CallOK(c) /\ calls' = (calls \ {c}) \cup {d} /\ c.status = "sent"
        /\ IsCall(d) /\ d.n = c.n /\ d.op = c.op /\ d.button = c.button /\ d.value = c.value /\ d.room = c.room
    BY DEF CallServed, Typed
  <1>3. server' \in [Rows -> Statuses[page]] /\ muddled' \subseteq Rows /\ CallOK(d) /\ HomesOK'
    <2>1. CASE Done(c, d)
      <3>1. d.row \in Rows /\ Outcome(c, d.row) \in Statuses[page]
        BY <1>2, <2>1, OutcomeTyped DEF Done
      <3>2. server' \in [Rows -> Statuses[page]] /\ muddled' \subseteq Rows
        BY <2>1, <3>1 DEF Done, Typed
      <3>3. d.status \in Answers /\ (d.status = "200" => d.result \in Statuses[page])
        BY <2>1, <3>1 DEF Done, Answers
      <3>4. HomesOK'
        BY <1>1, <1>2, <2>1, <3>1, HomesOfCall
      <3>5. c.op # "create" => d.row = c.row
        BY <2>1 DEF Done, Concerns
      <3> QED BY <1>2, <3>1, <3>2, <3>3, <3>4, <3>5 DEF CallOK
    <2>2. CASE TurnedDown(c, d)
      <3>1. d.row = c.row /\ d.status \in Answers /\ d.status # "200"
        BY <2>2 DEF TurnedDown, Answers
      <3>2. server' \in [Rows -> Statuses[page]] /\ muddled' \subseteq Rows
        BY <2>2 DEF TurnedDown, Typed, stored
      <3>3. HomesOK'
        BY <1>1, <2>2, StaysOK DEF TurnedDown, Typed
      <3> QED BY <1>2, <3>1, <3>2, <3>3 DEF CallOK
    <2> QED BY <2>1, <2>2 DEF CallServed
  <1>4. \A e \in calls' : CallOK(e)'
    <2>1. begun' = begun /\ begun \in Nat /\ UNCHANGED <<page, kind>>
      BY <1>1 DEF Typed
    <2> QED BY <1>2, <1>3, <2>1, CallsStay DEF Typed
  <1>5. Showable' = Showable /\ Loads' = Loads /\ ContextOK' /\ \A l \in loads' : QuestionOK(l)'
    BY <1>1, StaysOK DEF Showable, Loads, ContextOK, Typed
  <1> QED BY <1>1, <1>3, <1>4, <1>5 DEF Typed

LEMMA TypedOfAnswer ==
    ASSUME Typed, NEW c, CallAnswered(c)
    PROVE  Typed'
  <1>1. UNCHANGED <<page, api, kind, claims, role, server, home, filter, demo,
                    begun, muddled>>
    BY DEF CallAnswered, context, stored
  <1>2. c \in calls /\ CallOK(c) /\ calls' \subseteq calls
    BY DEF CallAnswered, Typed
  <1>3. \A e \in calls' : CallOK(e)'
    <2>1. begun' = begun /\ begun \in Nat /\ UNCHANGED <<page, kind>>
      BY <1>1 DEF Typed
    <2> QED BY <1>2, <2>1, CallsStay DEF Typed
  <1>4. Showable' = Showable /\ Loads' = Loads /\ ContextOK' /\ HomesOK'
        /\ \A l : QuestionOK(l) => QuestionOK(l)'
    BY <1>1, StaysOK DEF Showable, Loads, ContextOK, Typed, stored
  <1>5. CASE Reloaded(c)
    <2>1. PICK q : Asks(q) /\ rows' = rows
      BY <1>5 DEF Reloaded
    <2>2. asked' = asked + 1 /\ loads' = loads \cup {q} /\ q \in Loads /\ q.n = asked + 1
          /\ QuestionOK(q)
      BY <2>1 DEF Asks
    <2>3. asked' \in Nat /\ loads' \subseteq Loads /\ \A l \in loads' : l.n \in 1..asked'
      BY <2>2 DEF Typed
    <2>4. \A l \in loads' : QuestionOK(l)'
      BY <1>4, <2>2 DEF Typed
    <2>5. view' \in Views
      BY <2>1 DEF Asks, Views
    <2> QED BY <1>1, <1>3, <1>4, <2>1, <2>3, <2>4, <2>5 DEF Typed
  <1>6. CASE ResultShown(c)
    <2>1. UNCHANGED <<view, loads, asked>> /\ page # "resources" /\ page \in Pages
      BY <1>6 DEF ResultShown, Typed, ContextOK
    <2>2. rows' \in [Rows -> Showable]
      <3>1. CASE c.op = "reveal"
        BY <1>6, <3>1 DEF ResultShown, Typed
      <3>2. CASE c.op # "reveal"
        <4>1. c.result \in Statuses[page] /\ page # "audit"
          BY <1>2, <1>6 DEF ResultShown, CallOK, Ops
        <4>2. c.result \in Showable /\ rows' = [rows EXCEPT ![c.row] = c.result]
          BY <1>6, <3>2, <4>1 DEF ResultShown, Showable
        <4> QED BY <4>2 DEF Typed
      <3> QED BY <3>1, <3>2
    <2>3. \A l \in loads' : QuestionOK(l)'
      BY <1>4, <2>1 DEF Typed
    <2> QED BY <1>1, <1>3, <1>4, <2>1, <2>2, <2>3 DEF Typed
  <1>7. CASE FailureShown(c)
    <2>1. UNCHANGED <<rows, loads, asked>> /\ view' \in Views
      BY <1>7 DEF FailureShown, Typed, Views
    <2>2. \A l \in loads' : QuestionOK(l)'
      BY <1>4, <2>1 DEF Typed
    <2> QED BY <1>1, <1>3, <1>4, <2>1, <2>2 DEF Typed
  <1> QED BY <1>5, <1>6, <1>7 DEF CallAnswered

LEMMA HomesOfChange ==
    ASSUME Typed, NEW s, Changed(s)
    PROVE  HomesOK'
  <1>1. PICK room : \E status \in Statuses[page] :
            /\ status # "absent"
            /\ server' = [server EXCEPT ![s] = status]
            /\ home' = [home EXCEPT ![s] = room]
            /\ IF kind[s] # "table" THEN room = home[s]
               ELSE room \in Rows /\ kind[room] = "room"
            /\ s \in Rows /\ UNCHANGED <<page, kind>>
    BY DEF Changed, context
  <1>2. PICK status \in Statuses[page] :
            /\ status # "absent"
            /\ server' = [server EXCEPT ![s] = status]
            /\ home' = [home EXCEPT ![s] = room]
            /\ IF kind[s] # "table" THEN room = home[s]
               ELSE room \in Rows /\ kind[room] = "room"
            /\ s \in Rows /\ UNCHANGED <<page, kind>>
    BY <1>1
  <1>3. HomesOK /\ server \in [Rows -> Statuses[page]]
    BY DEF Typed
  <1>4. home' \in [Rows -> Rows \cup {None}]
    BY <1>2, <1>3 DEF HomesOK
  <1>5. ASSUME NEW r \in Rows
        PROVE  /\ home'[r] = None /\ kind[r] = "table" => server'[r] = "absent"
               /\ home'[r] # None => kind[r] = "table" /\ home'[r] \in Rows /\ kind[home'[r]] = "room"
    <2>1. CASE r # s
      <3>1. home'[r] = home[r] /\ server'[r] = server[r]
        BY <1>2, <1>3, <2>1 DEF HomesOK
      <3> QED BY <1>3, <3>1 DEF HomesOK
    <2>2. CASE r = s
      <3>1. home'[r] = room
        BY <1>2, <1>3, <2>2 DEF HomesOK
      <3> QED BY <1>2, <1>3, <2>2, <3>1, NoneAssumption DEF HomesOK
    <2> QED BY <2>1, <2>2
  <1> QED BY <1>2, <1>3, <1>4, <1>5 DEF HomesOK

LEMMA TypedOfRest ==
    ASSUME Typed, Played \/ RoleLost \/ (\E r : Changed(r)) \/ UNCHANGED vars
    PROVE  Typed'
  <1>1. UNCHANGED <<page, api, kind, claims, view, filter, demo, loads, asked, calls, begun>>
    BY DEF Played, RoleLost, Changed, vars, context, stored, shown, history
  <1>2. Showable' = Showable /\ Loads' = Loads /\ ContextOK'
    BY <1>1 DEF Showable, Loads, ContextOK, Typed
  <1>3. \A e \in calls' : CallOK(e)'
    <2>1. begun' = begun /\ begun \in Nat /\ UNCHANGED <<page, kind>>
      BY <1>1 DEF Typed
    <2> QED BY <1>1, <2>1, CallsStay DEF Typed
  <1>4. role' \in Roles
    BY DEF Played, RoleLost, Changed, vars, Typed
  <1>5. server' \in [Rows -> Statuses[page]] /\ muddled' \subseteq Rows
    BY DEF Played, RoleLost, Changed, vars, history, stored, Typed
  <1>6. rows' \in [Rows -> Showable]
    BY DEF Played, RoleLost, Changed, vars, shown, Typed
  <1>7. HomesOK'
    <2>1. CASE Played \/ RoleLost \/ UNCHANGED vars
      <3>1. UNCHANGED stored
        BY <2>1 DEF Played, RoleLost, vars, stored
      <3> QED BY <1>1, <3>1, StaysOK DEF Typed
    <2> QED BY <2>1, HomesOfChange
  <1>8. \A l \in loads' : QuestionOK(l)'
    BY <1>1, StaysOK DEF Typed
  <1> QED BY <1>1, <1>2, <1>3, <1>4, <1>5, <1>6, <1>7, <1>8 DEF Typed

LEMMA TypedStays ==
    ASSUME Typed, [Next]_vars
    PROVE  Typed'
  BY NextSplits, TypedOfAsking, TypedOfClick, TypedOfServing, TypedOfArrival, TypedOfCall,
     TypedOfAnswer, TypedOfRest

-----------------------------------------------------------------------------
(* Marks: a call under way holds the page's busy mark, or another click or *)
(* answer took it.                                                         *)

Marks ==
    /\ \A c, d \in calls : c.n = d.n => c = d
    /\ busy # None => \E c \in calls : c.button = busy
    /\ hopped \subseteq {c.n : c \in calls}
    /\ \A c \in calls : c.n \notin hopped => busy # None /\ SameMark(busy, c.button)
    /\ OneCallPerButton

LEMMA SameMarks ==
    /\ \A a : SameMark(a, a)
    /\ \A a, b : SameMark(a, b) => SameMark(b, a)
    /\ \A a, b, c : SameMark(a, b) /\ SameMark(b, c) => SameMark(a, c)
  BY DEF SameMark

LEMMA MarksKept ==
    ASSUME Marks, UNCHANGED <<page, calls, busy, hopped>>
    PROVE  Marks'
  BY DEF Marks, OneCallPerButton, SameMark

LEMMA MarksOfClick ==
    ASSUME Typed, Marks, NEW b, NEW value, NEW room, Clicked(b, value, room)
    PROVE  Marks'
  <1>1. PICK c : calls' = calls \cup {c} /\ c.n = begun + 1 /\ c.button = b
    BY Sending
  <1>2. /\ busy' = b /\ b # None /\ page' = page
        /\ busy # None => ~SameMark(busy, b)
        /\ hopped' = hopped \cup {d.n : d \in {e \in calls : ~SameMark(e.button, b)}}
    BY NoneAssumption DEF Clicked, Send, Disabled, context, stored
  <1>3. c.n \in Nat /\ \A d \in calls : d.n \in Nat /\ d.n < c.n
    <2>1. begun \in Nat /\ \A d \in calls : d.n \in 1..begun
      BY DEF Typed, CallOK
    <2> QED BY <1>1, <2>1
  <1>4. /\ \A x, y : SameMark(x, y)' <=> SameMark(x, y)
        /\ \A x : SameMark(busy, x)' <=> SameMark(busy', x)
    BY <1>2 DEF SameMark
  <1>5. \A d, e \in calls' : d.n = e.n => d = e
    BY <1>1, <1>3 DEF Marks
  <1>6. \E d \in calls' : d.button = busy'
    BY <1>1, <1>2
  <1>7. hopped' \subseteq {d.n : d \in calls'}
    BY <1>1, <1>2 DEF Marks
  <1>8. ASSUME NEW d \in calls', d.n \notin hopped'
        PROVE  busy' # None /\ SameMark(busy', d.button)
    <2>1. CASE d = c
      BY <1>1, <1>2, <2>1, SameMarks
    <2>2. CASE d \in calls
      <3>1. SameMark(d.button, b)
        BY <1>2, <1>8, <2>2
      <3> QED BY <1>2, <3>1, SameMarks
    <2> QED BY <1>1, <2>1, <2>2
  <1>9. ASSUME NEW d \in calls', NEW e \in calls', d.n < e.n, SameMark(d.button, e.button)
        PROVE  d.n \in hopped'
    <2>1. SameMark(d.button, e.button)
      BY <1>9
    <2>2. d \in calls
      <3>1. e.n <= c.n
        BY <1>1, <1>3
      <3>2. d.n \in Nat /\ e.n \in Nat /\ c.n \in Nat
        BY <1>1, <1>3 DEF Typed
      <3> QED BY <1>1, <1>9, <3>1, <3>2
    <2>3. d.n \in hopped
      <3>1. CASE e \in calls
        BY <1>9, <2>1, <2>2, <3>1 DEF Marks, OneCallPerButton
      <3>2. CASE e = c
        <4>1. SUFFICES ASSUME d.n \notin hopped PROVE FALSE
          OBVIOUS
        <4>2. busy # None /\ SameMark(busy, d.button)
          BY <2>2, <4>1 DEF Marks
        <4>3. SameMark(d.button, b)
          BY <1>1, <2>1, <3>2
        <4>4. SameMark(busy, b)
          BY <4>2, <4>3, SameMarks
        <4> QED BY <1>2, <4>2, <4>4
      <3> QED BY <1>1, <3>1, <3>2
    <2> QED BY <1>2, <2>3
  <1>10. OneCallPerButton'
    BY <1>2, <1>9 DEF OneCallPerButton, SameMark
  <1>11. \A d \in calls' : d.n \notin hopped' => busy' # None /\ SameMark(busy, d.button)'
    BY <1>4, <1>8
  <1> QED BY <1>5, <1>6, <1>7, <1>10, <1>11 DEF Marks

LEMMA MarksOfCall ==
    ASSUME Marks, NEW c, NEW d, CallServed(c, d)
    PROVE  Marks'
  <1>1. /\ c \in calls /\ calls' = (calls \ {c}) \cup {d} /\ d.n = c.n /\ d.button = c.button
        /\ page' = page /\ busy' = busy /\ hopped' = hopped
    BY DEF CallServed, context, stored
  <1>2. /\ \A x, y : SameMark(x, y)' <=> SameMark(x, y)
        /\ \A x : SameMark(busy, x)' <=> SameMark(busy', x)
    BY <1>1 DEF SameMark
  <1>3. \A e \in calls' : \E f \in calls : f.n = e.n /\ f.button = e.button
    BY <1>1
  <1>4. \A f \in calls : \E e \in calls' : f.n = e.n /\ f.button = e.button
    BY <1>1
  <1>5. \A e, f \in calls' : e.n = f.n => e = f
    BY <1>1 DEF Marks
  <1>6. busy' # None => \E e \in calls' : e.button = busy'
    BY <1>1, <1>4 DEF Marks
  <1>7. hopped' \subseteq {e.n : e \in calls'}
    BY <1>1, <1>4 DEF Marks
  <1>8. \A e \in calls' : e.n \notin hopped' => busy' # None /\ SameMark(busy, e.button)'
    <2>1. \A e \in calls' : e.n \notin hopped => busy # None /\ SameMark(busy, e.button)
      BY <1>3 DEF Marks
    <2>2. \A x : SameMark(busy, x)' <=> SameMark(busy, x)
      BY <1>1 DEF SameMark
    <2> QED BY <1>1, <2>1, <2>2
  <1>9. OneCallPerButton'
    BY <1>1, <1>2, <1>3 DEF Marks, OneCallPerButton
  <1> QED BY <1>5, <1>6, <1>7, <1>8, <1>9 DEF Marks

LEMMA MarksOfAnswer ==
    ASSUME Marks, NEW c, CallAnswered(c)
    PROVE  Marks'
  <1>1. /\ c \in calls /\ calls' = calls \ {c} /\ busy' = None /\ page' = page
        /\ hopped' = (hopped \cup {o.n : o \in calls}) \ {c.n}
    BY DEF CallAnswered, context, stored
  <1>2. \A e \in calls' : e \in calls /\ e.n # c.n
    BY <1>1 DEF Marks
  <1>3. \A e \in calls' : e.n \in hopped'
    BY <1>1, <1>2
  <1>4. hopped' \subseteq {e.n : e \in calls'}
    <2>1. \A n \in hopped' : n # c.n /\ \E e \in calls : e.n = n
      BY <1>1 DEF Marks
    <2> QED BY <1>1, <2>1
  <1>5. \A e, f \in calls' : e.n = f.n => e = f
    BY <1>2 DEF Marks
  <1> QED BY <1>1, <1>3, <1>4, <1>5 DEF Marks, OneCallPerButton

LEMMA MarksStay ==
    ASSUME Typed, Marks, [Next]_vars
    PROVE  Marks'
  <1>1. ASSUME NEW q, VisitorAsks(q) PROVE Marks'
    BY <1>1, MarksKept DEF VisitorAsks, context, stored
  <1>2. ASSUME NEW l, NEW m, LoadServed(l, m) PROVE Marks'
    BY <1>2, MarksKept DEF LoadServed, context, stored, history
  <1>3. ASSUME NEW l, LoadArrives(l) PROVE Marks'
    BY <1>3, MarksKept DEF LoadArrives, context, stored, history
  <1>4. ASSUME NEW r, Changed(r) PROVE Marks'
    BY <1>4, MarksKept DEF Changed, context, stored
  <1>5. CASE Played \/ RoleLost \/ UNCHANGED vars
    BY <1>5, MarksKept DEF Played, RoleLost, vars, context, stored, history
  <1> QED BY <1>1, <1>2, <1>3, <1>4, <1>5, NextSplits, MarksOfClick, MarksOfCall, MarksOfAnswer

-----------------------------------------------------------------------------
(* The order of questions and calls: a page that reloads after no call asks *)
(* one question at a time, and makes its calls when it has the answer.     *)

Order ==
    /\ page # "resources" => ~crossed
    /\ ~crossed /\ loads # {} =>
            view \in {"checking", "loading"} /\ \A l, m \in loads : l = m
    /\ page # "resources" /\ begun > 0 =>
            loads = {} /\ page # "audit" /\ view \in {"ready", "unauthorized", "forbidden"}
    /\ \A l \in loads : l.filter = filter

LEMMA OrderKept ==
    ASSUME Order, UNCHANGED <<page, view, filter, loads, begun, crossed>>
    PROVE  Order'
  BY DEF Order

LEMMA OrderOfAsking ==
    ASSUME Order, NEW q, VisitorAsks(q)
    PROVE  Order'
  <1>1. /\ page' = page /\ begun' = begun /\ q.filter = filter'
        /\ loads' = loads \cup {q} /\ crossed' = (crossed \/ loads # {})
        /\ view' \in {"checking", "loading"}
    BY DEF VisitorAsks, Asks, context, stored
  <1>2. \/ view \in {"error", "gate error"} /\ filter' = filter
        \/ view = "ready" /\ page = "audit"
    BY DEF VisitorAsks
  <1>3. ~crossed => loads = {}
    BY <1>2 DEF Order
  <1>4. page # "resources" => ~crossed'
    BY <1>1, <1>3 DEF Order
  <1>5. ~crossed' => loads' = {q}
    BY <1>1
  <1>6. ~(page # "resources" /\ begun > 0)
    BY <1>2 DEF Order
  <1>7. \A l \in loads' : l.filter = filter'
    BY <1>1, <1>2, <1>3 DEF Order
  <1> QED BY <1>1, <1>4, <1>5, <1>6, <1>7 DEF Order

LEMMA OrderOfClick ==
    ASSUME Typed, Order, NEW b, NEW value, NEW room, Clicked(b, value, room)
    PROVE  Order'
  <1>1. view = "ready" /\ page # "audit" /\ UNCHANGED <<page, view, filter, loads, crossed>>
    BY DEF Clicked, Send, context, stored, shown
  <1>2. page # "resources" => loads = {}
    BY <1>1 DEF Order
  <1> QED BY <1>1, <1>2 DEF Order

LEMMA OrderOfServing ==
    ASSUME Order, NEW l, NEW m, LoadServed(l, m)
    PROVE  Order'
  <1>1. /\ l \in loads /\ loads' = (loads \ {l}) \cup {m} /\ m.filter = l.filter
        /\ UNCHANGED <<page, view, filter, begun, crossed>>
    BY DEF LoadServed, context, stored, shown, history
  <1>2. ~crossed => loads' = {m} /\ view \in {"checking", "loading"}
    BY <1>1 DEF Order
  <1> QED BY <1>1, <1>2 DEF Order

LEMMA OrderOfArrival ==
    ASSUME Typed, Order, NEW l, LoadArrives(l)
    PROVE  Order'
  <1>1. l \in loads /\ UNCHANGED <<page, filter, begun, crossed>>
    BY DEF LoadArrives, context, stored, history
  <1>2. \E m : /\ m.filter = l.filter
               /\ \/ loads' = (loads \ {l}) \cup {m} /\ view' = "loading"
                  \/ loads' = loads \ {l}
    <2>1. CASE LoadGoesOn(l)
      BY <1>1, <2>1, WentOn
    <2>2. CASE LoadEnds(l) \/ LoadShown(l) \/ ExamplesShown(l)
      BY <2>2 DEF LoadEnds, LoadShown, ExamplesShown
    <2> QED BY <2>1, <2>2 DEF LoadArrives
  <1>3. PICK m : /\ m.filter = l.filter
                 /\ \/ loads' = (loads \ {l}) \cup {m} /\ view' = "loading"
                    \/ loads' = loads \ {l}
    BY <1>2
  <1>4. ~crossed => loads = {l}
    BY <1>1 DEF Order
  <1>5. ~crossed /\ loads' # {} => view' \in {"checking", "loading"} /\ loads' = {m}
    BY <1>3, <1>4
  <1>6. ~(page # "resources" /\ begun > 0)
    BY <1>1 DEF Order
  <1>7. \A k \in loads' : k.filter = filter
    BY <1>1, <1>3 DEF Order
  <1> QED BY <1>1, <1>5, <1>6, <1>7 DEF Order

LEMMA OrderOfAnswer ==
    ASSUME Typed, Order, NEW c, CallAnswered(c)
    PROVE  Order'
  <1>1. UNCHANGED <<page, filter, begun>> /\ c \in calls
    BY DEF CallAnswered, context, stored
  <1>2. begun > 0
    BY <1>1 DEF Typed, CallOK
  <1>3. CASE Reloaded(c)
    <2>1. PICK q : /\ page = "resources" /\ q.filter = filter /\ loads' = loads \cup {q}
                   /\ crossed' = (crossed \/ loads # {}) /\ view' \in {"checking", "loading"}
      BY <1>3 DEF Reloaded, Asks
    <2> QED BY <1>1, <2>1 DEF Order
  <1>4. CASE ResultShown(c)
    BY <1>1, <1>4, OrderKept DEF ResultShown
  <1>5. CASE FailureShown(c)
    <2>1. CASE view' = view
      BY <1>1, <1>5, <2>1, OrderKept DEF FailureShown
    <2>2. CASE page \in {"queue", "dashboard"} /\ view' \in {"unauthorized", "forbidden"}
      <3>1. UNCHANGED <<loads, crossed>> /\ loads = {} /\ page # "resources"
        BY <1>2, <1>5, <2>2 DEF FailureShown, Order
      <3> QED BY <1>1, <2>2, <3>1 DEF Order
    <2> QED BY <1>5, <2>1, <2>2 DEF FailureShown
  <1> QED BY <1>3, <1>4, <1>5 DEF CallAnswered

LEMMA OrderStays ==
    ASSUME Typed, Order, [Next]_vars
    PROVE  Order'
  <1>1. ASSUME NEW c, NEW d, CallServed(c, d) PROVE Order'
    BY <1>1, OrderKept DEF CallServed, context, stored, shown
  <1>2. ASSUME NEW r, Changed(r) PROVE Order'
    BY <1>2, OrderKept DEF Changed, context, stored, shown
  <1>3. CASE Played \/ RoleLost \/ UNCHANGED vars
    BY <1>3, OrderKept DEF Played, RoleLost, vars, context, stored, shown, history
  <1> QED BY <1>1, <1>2, <1>3, NextSplits, OrderOfAsking, OrderOfClick, OrderOfServing,
             OrderOfArrival, OrderOfAnswer

-----------------------------------------------------------------------------
(* Freshness.  The log shows what was filtered. *)

LogFresh ==
    page = "audit" =>
        /\ view = "ready" /\ ~demo => \A r \in Rows : rows[r] = filter
        /\ \A l \in loads : l.step = "list" /\ l.status = "200" =>
                \A r \in Rows : l.rows[r] = l.filter

LEMMA NoCallsOnTheLog ==
    ASSUME Typed, NEW c \in calls PROVE page # "audit"
  BY DEF Typed, CallOK, Ops

LEMMA LogKept ==
    ASSUME LogFresh, UNCHANGED <<page, view, demo, rows, filter, loads>>
    PROVE  LogFresh'
  BY DEF LogFresh

LEMMA LogStays ==
    ASSUME Typed, Order, LogFresh, [Next]_vars
    PROVE  LogFresh'
  <1>1. ASSUME NEW q, VisitorAsks(q) PROVE LogFresh'
    <2>1. page' = page /\ loads' = loads \cup {q} /\ q.status = "asked" /\ view' # "ready"
      BY <1>1 DEF VisitorAsks, Asks, context, stored
    <2> QED BY <2>1 DEF LogFresh
  <1>2. ASSUME NEW b, NEW value, NEW room, Clicked(b, value, room) PROVE LogFresh'
    BY <1>2, LogKept DEF Clicked, Send, context, stored, shown
  <1>3. ASSUME NEW l, NEW m, LoadServed(l, m) PROVE LogFresh'
    <2>1. PICK request \in l.todo :
          /\ UNCHANGED <<page, view, demo, rows, filter>> /\ l \in loads
          /\ loads' = (loads \ {l}) \cup {m} /\ m.step = l.step /\ m.filter = l.filter
          /\ m.status = "200" => m.rows = Listed(l, request)
      BY <1>3 DEF LoadServed, context, stored, shown
    <2>2. page = "audit" /\ l.step = "list" => \A r \in Rows : Listed(l, request)[r] = l.filter
      BY DEF Listed, AskedFor
    <2> QED BY <2>1, <2>2 DEF LogFresh
  <1>4. ASSUME NEW l, LoadArrives(l) PROVE LogFresh'
    <2>1. l \in loads /\ UNCHANGED <<page, filter>>
      BY <1>4 DEF LoadArrives, context, stored
    <2>2. CASE LoadGoesOn(l)
      <3>1. PICK m : view' = "loading" /\ loads' = (loads \ {l}) \cup {m} /\ m.status = "asked"
        BY <2>1, <2>2, WentOn
      <3> QED BY <2>1, <3>1 DEF LogFresh
    <2>3. CASE LoadEnds(l)
      BY <2>1, <2>3 DEF LoadEnds, LogFresh
    <2>4. CASE LoadShown(l)
      <3>1. page = "audit" => \A r \in Rows : l.rows[r] = filter
        BY <2>1, <2>4 DEF LoadShown, LogFresh, Order
      <3> QED BY <2>1, <2>4, <3>1 DEF LoadShown, LogFresh
    <2>5. CASE ExamplesShown(l)
      BY <2>1, <2>5 DEF ExamplesShown, LogFresh
    <2> QED BY <1>4, <2>2, <2>3, <2>4, <2>5 DEF LoadArrives
  <1>5. ASSUME NEW c, NEW d, CallServed(c, d) PROVE LogFresh'
    BY <1>5, LogKept DEF CallServed, context, stored, shown
  <1>6. ASSUME NEW c, CallAnswered(c) PROVE LogFresh'
    BY <1>6, NoCallsOnTheLog DEF CallAnswered, context, stored, LogFresh
  <1>7. ASSUME NEW r, Changed(r) PROVE LogFresh'
    BY <1>7, LogKept DEF Changed, context, stored, shown
  <1>8. CASE Played
    BY <1>8 DEF Played, context, stored, LogFresh
  <1>9. CASE RoleLost \/ UNCHANGED vars
    BY <1>9, LogKept DEF RoleLost, vars, context, stored, shown
  <1> QED BY <1>1, <1>2, <1>3, <1>4, <1>5, <1>6, <1>7, <1>8, <1>9, NextSplits

(* Calls, except on the resources page: the one call about a row nobody    *)
(* else changed, and what it says of that row.                             *)

CallsFresh ==
    page # "resources" =>
        /\ \A c, d \in calls : c.row = d.row /\ c.row \notin muddled => c = d
        /\ \A c \in calls : c.status = "200" /\ c.row \notin muddled =>
                c.result = server[c.row]

LEMMA CallsKept ==
    ASSUME CallsFresh, page' = page, server' = server, muddled' = muddled, calls' \subseteq calls
    PROVE  CallsFresh'
  BY DEF CallsFresh

LEMMA CallsOfClick ==
    ASSUME Typed, CallsFresh, NEW b, NEW value, NEW room, Clicked(b, value, room)
    PROVE  CallsFresh'
  <1>1. PICK c : calls' = calls \cup {c} /\ c.row = b.row /\ c.op = b.op /\ c.status = "sent"
    BY Sending
  <1>2. /\ page' = page /\ server' = server
        /\ muddled' = muddled \cup {r \in Rows : r = b.row /\ \E d \in calls : d.row = r}
    BY DEF Clicked, Send, context, stored
  <1>3. page # "resources" => b.row \in Rows
    <2>1. page # "resources" => b.op # "create"
      BY DEF Clicked, Ops, Typed, ContextOK, Pages, AdminPages
    <2> QED BY <2>1 DEF Clicked
  <1>4. page # "resources" => \A d \in calls : d.row = c.row => d.row \in muddled'
    BY <1>1, <1>2, <1>3
  <1>5. muddled \subseteq muddled'
    BY <1>2
  <1> QED BY <1>1, <1>2, <1>4, <1>5 DEF CallsFresh

(* On the other pages a call is carried out on its own row. *)
LEMMA ServedRow ==
    ASSUME Typed, page # "resources", NEW c, NEW d, CallServed(c, d)
    PROVE  c \in calls /\ c.row \in Rows /\ d.row = c.row
  <1>1. c \in calls /\ CallOK(c)
    BY DEF CallServed, Typed
  <1>2. c.op # "create"
    BY <1>1 DEF CallOK, Ops, Typed, ContextOK, Pages, AdminPages
  <1>3. c.row \in Rows
    BY <1>1, <1>2 DEF CallOK
  <1>4. d.row = c.row
    BY <1>2 DEF CallServed, Done, TurnedDown, Concerns
  <1> QED BY <1>1, <1>3, <1>4

LEMMA CallsOfServing ==
    ASSUME Typed, CallsFresh, NEW c, NEW d, CallServed(c, d)
    PROVE  CallsFresh'
  <1>1. page' = page /\ calls' = (calls \ {c}) \cup {d}
    BY DEF CallServed, context, stored
  <1>2. muddled \subseteq muddled'
    BY DEF CallServed, Done, TurnedDown
  <1>3. SUFFICES ASSUME page # "resources" PROVE CallsFresh'
    BY <1>1 DEF CallsFresh
  <1>4. c \in calls /\ c.row \in Rows /\ d.row = c.row
    BY <1>3, ServedRow
  <1>5. \A e \in calls \ {c} : e.row = d.row => e.row \in muddled
    BY <1>3, <1>4 DEF CallsFresh
  <1>6. \A e, f \in calls' : e.row = f.row /\ e.row \notin muddled' => e = f
    BY <1>1, <1>2, <1>3, <1>4, <1>5 DEF CallsFresh
  <1>7. ASSUME NEW e \in calls', e.status = "200", e.row \notin muddled'
        PROVE  e.result = server'[e.row]
    <2>1. CASE e = d
      <3>1. Done(c, d) /\ d.status = "200"
        <4>1. ~TurnedDown(c, d)
          BY <1>7, <2>1 DEF TurnedDown
        <4> QED BY <1>7, <2>1, <4>1 DEF CallServed
      <3> QED BY <1>4, <2>1, <3>1 DEF Done, Typed
    <2>2. CASE e \in calls \ {c}
      <3>1. e.row # d.row /\ e.result = server[e.row] /\ e.row \in Rows
        <4>1. CallOK(e)
          BY <2>2 DEF Typed
        <4> QED BY <1>2, <1>3, <1>5, <1>7, <2>2, <4>1 DEF CallsFresh, CallOK
      <3>2. server'[e.row] = server[e.row]
        BY <3>1 DEF CallServed, Done, TurnedDown, Typed, stored
      <3> QED BY <3>1, <3>2
    <2> QED BY <1>1, <1>7, <2>1, <2>2
  <1> QED BY <1>6, <1>7 DEF CallsFresh

LEMMA CallsStayFresh ==
    ASSUME Typed, CallsFresh, [Next]_vars
    PROVE  CallsFresh'
  <1>1. ASSUME NEW q, VisitorAsks(q) PROVE CallsFresh'
    BY <1>1, CallsKept DEF VisitorAsks, context, stored
  <1>2. ASSUME NEW l, NEW m, LoadServed(l, m) PROVE CallsFresh'
    BY <1>2, CallsKept DEF LoadServed, context, stored, history
  <1>3. ASSUME NEW l, LoadArrives(l) PROVE CallsFresh'
    BY <1>3, CallsKept DEF LoadArrives, context, stored, history
  <1>4. ASSUME NEW c, CallAnswered(c) PROVE CallsFresh'
    BY <1>4, CallsKept DEF CallAnswered, context, stored
  <1>5. ASSUME NEW r, Changed(r) PROVE CallsFresh'
    <2>1. /\ page' = page /\ calls' = calls /\ muddled' = muddled \cup {r}
          /\ \E status : server' = [server EXCEPT ![r] = status]
      BY <1>5 DEF Changed, context, stored
    <2>2. \A c \in calls : c.row \in Rows /\ c.row \notin muddled' => server'[c.row] = server[c.row]
      BY <2>1 DEF Typed
    <2>3. \A c \in calls : c.status = "200" => c.row \in Rows
      BY DEF Typed, CallOK
    <2> QED BY <2>1, <2>2, <2>3 DEF CallsFresh
  <1>6. CASE Played \/ RoleLost \/ UNCHANGED vars
    BY <1>6, CallsKept DEF Played, RoleLost, vars, context, stored, history
  <1> QED BY <1>1, <1>2, <1>3, <1>4, <1>5, <1>6, NextSplits, CallsOfClick, CallsOfServing

(* Lists: what was listed of a row, or a call's answer is still to tell.   *)

Clean(r) == {r, home[r]} \cap muddled = {}

Match(x, r) == x = server[r] \/ (x = None /\ ~IsListed(r))

Tells(c, r) ==
    /\ c.status = "200"
    /\ IF page = "resources" THEN c.row \in {r, home[r]} ELSE c.row = r /\ c.op # "reveal"

Told(r) == \E c \in calls : Tells(c, r)

(* What a row matches, it matches as long as row and room stay as they are *)
(* and the call that tells of them is under way.                           *)
Holds(x, r) == Clean(r) => Match(x, r) \/ Told(r)

(* The requests served so far have told what there is to know of a row.    *)
Served(l, r) ==
    IF page = "resources"
    THEN /\ l.status \in {"asked", "200"}
         /\ \/ l.step = "list" /\ kind[r] \in {"room", "hours", "exception"} \ l.todo
            \/ l.step = "tables" /\ (kind[r] = "table" => home[r] \notin l.todo)
    ELSE l.step = "list" /\ l.status = "200"

ServedFresh ==
    page # "audit" /\ ~crossed =>
        \A l \in loads, r \in Rows : Served(l, r) => Holds(l.rows[r], r)

ShownFresh ==
    page # "audit" /\ ~crossed /\ view = "ready" /\ ~demo =>
        \A r \in Rows : Holds(rows[r], r)

ListsFresh == ServedFresh /\ ShownFresh

LEMMA HoldsStill ==
    ASSUME UNCHANGED <<page, api, kind, home, server>>, muddled \subseteq muddled',
           \A c \in calls : c.status = "200" => c \in calls',
           NEW x, NEW r \in Rows, Holds(x, r)
    PROVE  Holds(x, r)'
  <1>1. IsListed(r)' <=> IsListed(r)
    BY DEF IsListed
  <1>2. Told(r) => Told(r)'
    BY DEF Told, Tells
  <1>3. Clean(r)' => Clean(r)
    BY DEF Clean
  <1> QED BY <1>1, <1>2, <1>3 DEF Holds, Match

(* What is shown stays true, if what holds of each row goes on to hold.    *)
LEMMA ShownStill ==
    ASSUME ListsFresh, UNCHANGED <<page, view, rows, demo, crossed>>,
           \A x : \A r \in Rows : Holds(x, r) => Holds(x, r)'
    PROVE  ShownFresh'
  <1>1. ASSUME NEW r \in Rows, page # "audit", ~crossed, view = "ready", ~demo
        PROVE  Holds(rows[r], r)'
    <2>1. PICK y : y = rows[r]
      OBVIOUS
    <2>2. Holds(y, r)
      BY <1>1, <2>1 DEF ListsFresh, ShownFresh
    <2>3. Holds(y, r)'
      BY <2>2
    <2>4. y = rows'[r]
      BY <2>1
    <2> QED BY <2>3, <2>4 DEF Holds, Match
  <1> QED BY <1>1 DEF ShownFresh

LEMMA HoldsKept ==
    ASSUME ListsFresh, UNCHANGED <<page, api, kind, home, server>>, muddled \subseteq muddled',
           \A c \in calls : c.status = "200" => c \in calls',
           UNCHANGED <<view, rows, demo, crossed>>, loads' \subseteq loads
    PROVE  ListsFresh'
  <1>1. ASSUME NEW x, NEW r \in Rows, Holds(x, r) PROVE Holds(x, r)'
    BY <1>1, HoldsStill
  <1>2. ASSUME NEW l \in loads', NEW r \in Rows, Served(l, r)', page # "audit", ~crossed
        PROVE  Holds(l.rows[r], r)'
    <2>1. l \in loads /\ Served(l, r)
      BY <1>2 DEF Served
    <2>2. Holds(l.rows[r], r)
      BY <1>2, <2>1 DEF ListsFresh, ServedFresh
    <2> QED BY <1>1, <2>2
  <1>3. ShownFresh'
    BY <1>1, ShownStill
  <1> QED BY <1>2, <1>3 DEF ListsFresh, ServedFresh

LEMMA ListsOfAsking ==
    ASSUME NEW q, VisitorAsks(q)
    PROVE  ListsFresh'
  <1>1. /\ page' = page /\ kind' = kind /\ home' = home /\ view' # "ready"
        /\ loads' = loads \cup {q} /\ crossed' = (crossed \/ loads # {})
        /\ q.status = "asked" /\ q.step # "tables" /\ q.todo = Requests(q.step)
    BY DEF VisitorAsks, Asks, context, stored
  <1>2. ~crossed' => loads' = {q}
    BY <1>1
  <1>3. \A r \in Rows : ~Served(q, r)'
    BY <1>1 DEF Served, Requests
  <1> QED BY <1>1, <1>2, <1>3 DEF ListsFresh, ServedFresh, ShownFresh

LEMMA ListsOfClick ==
    ASSUME ListsFresh, NEW b, NEW value, NEW room, Clicked(b, value, room)
    PROVE  ListsFresh'
  <1>1. PICK c : calls' = calls \cup {c}
    BY Sending
  <1>2. /\ UNCHANGED <<page, api, kind, home, server, view, rows, demo, loads, crossed>>
        /\ muddled \subseteq muddled'
    BY DEF Clicked, Send, context, stored, shown
  <1> QED BY <1>1, <1>2, HoldsKept

LEMMA ListsOfServing ==
    ASSUME Typed, ListsFresh, NEW l, NEW m, LoadServed(l, m)
    PROVE  ListsFresh'
  <1>1. PICK request \in l.todo :
        /\ UNCHANGED <<page, api, kind, home, server, view, rows, demo, calls, crossed, muddled>>
        /\ l \in loads /\ l.status = "asked"
        /\ loads' = (loads \ {l}) \cup {m} /\ m.step = l.step
        /\ m.todo = l.todo \ {request}
        /\ m.rows = IF m.status \in {"asked", "200"} THEN Listed(l, request) ELSE l.rows
    BY DEF LoadServed, context, stored, shown, history
  <1>2. ASSUME NEW x, NEW r \in Rows, Holds(x, r) PROVE Holds(x, r)'
    BY <1>1, <1>2, HoldsStill
  <1>3. ASSUME NEW k \in loads', NEW r \in Rows, Served(k, r)', page # "audit", ~crossed
        PROVE  Holds(k.rows[r], r)
    <2>0. Served(k, r)
      BY <1>1, <1>3 DEF Served
    <2>1. CASE k \in loads
      BY <1>3, <2>0, <2>1 DEF ListsFresh, ServedFresh
    <2>2. CASE k = m
      <3>1. k.rows = Listed(l, request)
        BY <1>1, <2>0, <2>2 DEF Served
      <3>2. CASE r \in AskedFor(l, request)
        <4>1. k.rows[r] = IF IsListed(r) THEN server[r] ELSE None
          BY <1>1, <1>3, <3>1, <3>2, ListedTyped
        <4> QED BY <4>1 DEF Holds, Match
      <3>3. CASE r \notin AskedFor(l, request)
        <4>1. k.rows[r] = l.rows[r]
          BY <1>1, <3>1, <3>3, ListedTyped
        <4>2. Served(l, r)
          BY <1>1, <2>0, <2>2, <3>3 DEF Served, AskedFor
        <4> QED BY <1>1, <1>3, <4>1, <4>2 DEF ListsFresh, ServedFresh
      <3> QED BY <3>2, <3>3
    <2> QED BY <1>1, <2>1, <2>2
  <1>4. ShownFresh'
    BY <1>1, <1>2, ShownStill
  <1> QED BY <1>1, <1>2, <1>3, <1>4 DEF ListsFresh, ServedFresh

(* When the lists are there, no table is in a room they do not hold.       *)
LEMMA TablesOfNoRoom ==
    ASSUME Typed, ServedFresh, ~crossed, NEW l \in loads, page = "resources",
           l.step = "list", l.status = "200", NEW r \in Rows,
           kind[r] = "table" => home[r] \notin RoomsFound(l)
    PROVE  Holds(l.rows[r], r)
  <1>1. HomesOK /\ QuestionOK(l) /\ l.todo = {}
    BY DEF Typed, QuestionOK
  <1>2. ASSUME NEW s \in Rows, kind[s] # "table" PROVE Holds(l.rows[s], s)
    <2>1. kind[s] \in {"room", "hours", "exception"}
      BY <1>1, <1>2 DEF HomesOK, OwnersKinds
    <2>2. Served(l, s)
      BY <1>1, <2>1 DEF Served
    <2> QED BY <2>2 DEF ServedFresh
  <1>3. CASE kind[r] # "table"
    BY <1>2, <1>3
  <1>4. CASE kind[r] = "table"
    <2>1. l.rows[r] = None /\ r # None
      BY <1>1, <1>4, NoneAssumption DEF QuestionOK
    <2>2. CASE home[r] = None
      <3>1. server[r] = "absent"
        BY <1>1, <1>4, <2>2 DEF HomesOK
      <3>2. ~IsListed(r)
        BY <2>1, <3>1, Fields DEF IsListed, Values
      <3> QED BY <2>1, <3>2 DEF Holds, Match
    <2>3. CASE home[r] # None
      <3>1. PICK s \in Rows : s = home[r] /\ kind[s] = "room"
        BY <1>1, <2>3 DEF HomesOK
      <3>2. l.rows[s] = None
        BY <1>4, <3>1 DEF RoomsFound
      <3>3. Holds(None, s)
        BY <1>2, <3>1, <3>2
      <3>4. SUFFICES ASSUME Clean(r), ~Told(r) PROVE ~IsListed(r)
        BY <2>1 DEF Holds, Match
      <3>5. home[s] = None /\ None \notin muddled
        BY <1>1, <3>1, NoneAssumption DEF HomesOK, Typed
      <3>6. Clean(s)
        BY <3>1, <3>4, <3>5 DEF Clean
      <3>7. ASSUME Told(s) PROVE FALSE
        <4>1. PICK c \in calls : Tells(c, s)
          BY <3>7 DEF Told
        <4>2. c.status = "200" /\ c.row \in {s, None}
          BY <3>5, <4>1 DEF Tells
        <4>3. c.row \in Rows
          BY <4>2 DEF Typed, CallOK
        <4>4. c.row = home[r]
          BY <3>1, <4>2, <4>3, NoneAssumption
        <4>5. Tells(c, r)
          BY <4>2, <4>4 DEF Tells
        <4> QED BY <3>4, <4>5 DEF Told
      <3>8. Match(None, s)
        BY <3>3, <3>6, <3>7 DEF Holds
      <3>9. server[s] \notin Values
        BY <3>1, <3>5, <3>8, NoneAssumption, Fields DEF Match, IsListed
      <3> QED BY <2>3, <3>1, <3>9, Fields DEF IsListed
    <2> QED BY <2>2, <2>3
  <1> QED BY <1>3, <1>4

LEMMA ListsOfArrival ==
    ASSUME Typed, ListsFresh, NEW l, LoadArrives(l)
    PROVE  ListsFresh'
  <1>1. UNCHANGED <<page, api, kind, home, server, calls, crossed, muddled>> /\ l \in loads
    BY DEF LoadArrives, context, stored, history
  <1>2. ASSUME NEW x, NEW r \in Rows, Holds(x, r) PROVE Holds(x, r)'
    BY <1>1, <1>2, HoldsStill
  <1>3. ASSUME NEW k \in loads, NEW r \in Rows, Served(k, r), page # "audit", ~crossed
        PROVE  Holds(k.rows[r], r)'
    BY <1>2, <1>3 DEF ListsFresh, ServedFresh
  <1>4. \A k : \A r \in Rows : Served(k, r)' <=> Served(k, r)
    BY <1>1 DEF Served
  <1>5. CASE LoadGoesOn(l)
    <2>1. PICK m : /\ view' = "loading" /\ loads' = (loads \ {l}) \cup {m}
                   /\ m.rows = l.rows /\ m.status = "asked"
                   /\ \/ m.step # "tables" /\ m.todo = Requests(m.step)
                      \/ /\ m.step = "tables" /\ page = "resources"
                         /\ l.step = "list" /\ l.status = "200" /\ m.todo = RoomsFound(l)
      BY <1>1, <1>5, WentOn
    <2>2. ASSUME NEW r \in Rows, Served(m, r), page # "audit", ~crossed
          PROVE  Holds(m.rows[r], r)'
      <3>1. CASE m.step # "tables"
        BY <2>1, <2>2, <3>1 DEF Served, Requests
      <3>2. CASE m.step = "tables"
        <4>1. kind[r] = "table" => home[r] \notin RoomsFound(l)
          BY <2>1, <2>2, <3>2 DEF Served
        <4>2. Holds(l.rows[r], r)
          BY <1>1, <2>1, <2>2, <3>2, <4>1, TablesOfNoRoom DEF ListsFresh
        <4> QED BY <1>2, <2>1, <4>2
      <3> QED BY <3>1, <3>2
    <2> QED BY <1>1, <1>3, <1>4, <2>1, <2>2 DEF ListsFresh, ServedFresh, ShownFresh
  <1>6. CASE LoadEnds(l) \/ LoadShown(l) \/ ExamplesShown(l)
    <2>1. loads' = loads \ {l}
      BY <1>6 DEF LoadEnds, LoadShown, ExamplesShown
    <2>2. ServedFresh'
      BY <1>1, <1>3, <1>4, <2>1 DEF ServedFresh
    <2>3. CASE LoadEnds(l) \/ ExamplesShown(l)
      BY <2>2, <2>3 DEF LoadEnds, ExamplesShown, ListsFresh, ShownFresh
    <2>4. CASE LoadShown(l)
      <3>1. /\ l.status = "200" /\ rows' = l.rows /\ QuestionOK(l)
            /\ \/ l.step = "list" /\ (page = "resources" => RoomsFound(l) = {})
               \/ l.step = "tables" /\ page = "resources"
        BY <1>1, <2>4 DEF LoadShown, Typed
      <3>2. ASSUME NEW r \in Rows, page # "audit", ~crossed
            PROVE  Holds(l.rows[r], r)
        <4>1. CASE page = "resources" /\ l.step = "list"
          BY <1>1, <3>1, <3>2, <4>1, TablesOfNoRoom DEF ListsFresh
        <4>2. CASE page # "resources" \/ l.step = "tables"
          <5>1. Served(l, r)
            BY <3>1, <4>2 DEF Served, QuestionOK
          <5> QED BY <1>1, <3>2, <5>1 DEF ListsFresh, ServedFresh
        <4> QED BY <3>1, <4>1, <4>2
      <3>3. ASSUME NEW r \in Rows, page # "audit", ~crossed
            PROVE  Holds(rows[r], r)'
        <4>1. PICK y : y = l.rows[r]
          OBVIOUS
        <4>2. Holds(y, r)'
          BY <1>2, <3>2, <3>3, <4>1
        <4>3. y = rows'[r]
          BY <3>1, <4>1
        <4> QED BY <4>2, <4>3 DEF Holds, Match
      <3> QED BY <1>1, <2>2, <3>3 DEF ListsFresh, ShownFresh
    <2> QED BY <1>6, <2>3, <2>4
  <1> QED BY <1>5, <1>6 DEF LoadArrives

(* Only the resources page has rows with rooms. *)
LEMMA NoHomes ==
    ASSUME Typed, page # "resources"
    PROVE  /\ \A r \in Rows : home[r] = None
           /\ \A c \in calls : c.room = None
  <1>1. HomesOK /\ \A r \in Rows : kind[r] \notin OwnersKinds
    BY DEF Typed, HomesOK
  <1>2. \A r \in Rows : kind[r] \notin {"room", "table"}
    BY <1>1 DEF OwnersKinds
  <1> QED BY <1>1, <1>2 DEF HomesOK, Typed, CallOK

LEMMA HoldsOfCall ==
    ASSUME Typed, NEW c, NEW d, CallServed(c, d), NEW x, NEW r \in Rows, Holds(x, r)
    PROVE  Holds(x, r)'
  <1>1. /\ UNCHANGED <<page, api, kind>> /\ calls' = (calls \ {c}) \cup {d}
        /\ c \in calls /\ c.status = "sent" /\ d.op = c.op
    BY DEF CallServed, context
  <1>2. \A e \in calls : e.status = "200" => e \in calls'
    BY <1>1
  <1>3. CASE TurnedDown(c, d)
    <2>1. UNCHANGED <<home, server>> /\ muddled \subseteq muddled'
      BY <1>3 DEF TurnedDown, stored
    <2> QED BY <1>1, <1>2, <2>1, HoldsStill
  <1>4. CASE Done(c, d)
    <2>1. /\ d.row \in Concerns(c) /\ server' = [server EXCEPT ![d.row] = Outcome(c, d.row)]
          /\ home' = [home EXCEPT ![d.row] = HomeAfter(c, d.row)]
          /\ muddled \subseteq muddled'
          /\ d.status = "200" \/ d.row \in muddled'
      BY <1>4 DEF Done
    <2>2. d.row \in Rows /\ server \in [Rows -> Statuses[page]]
          /\ home \in [Rows -> Rows \cup {None}]
      BY <1>1, <2>1, OutcomeTyped DEF Typed, HomesOK
    <2>3. SUFFICES ASSUME Clean(r)', ~Told(r)' PROVE Match(x, r)'
      BY DEF Holds
    <2>4. CASE page = "resources"
      <3>1. d.row \notin {r, home'[r]}
        <4>1. SUFFICES ASSUME d.row \in {r, home'[r]} PROVE FALSE
          OBVIOUS
        <4>2. d.status = "200"
          BY <2>1, <2>3, <4>1 DEF Clean
        <4>3. Tells(d, r)'
          BY <1>1, <2>4, <4>1, <4>2 DEF Tells
        <4> QED BY <1>1, <2>3, <4>3 DEF Told
      <3>2. /\ home'[r] = home[r] /\ server'[r] = server[r]
            /\ home[r] # None => server'[home[r]] = server[home[r]]
        BY <2>1, <2>2, <3>1
      <3>3. Clean(r) /\ ~Told(r)
        BY <1>1, <1>2, <2>1, <2>3, <3>2 DEF Clean, Told, Tells
      <3>4. Match(x, r)
        BY <3>3 DEF Holds
      <3>5. IsListed(r)' <=> IsListed(r)
        BY <1>1, <3>2 DEF IsListed
      <3> QED BY <3>2, <3>4, <3>5 DEF Match
    <2>5. CASE page # "resources"
      <3>1. home[r] = None /\ home'[r] = None
        BY <1>1, <2>1, <2>2, <2>5, NoHomes DEF HomeAfter
      <3>2. server'[r] = server[r]
        <4>1. CASE d.row # r
          BY <2>1, <2>2, <4>1
        <4>2. CASE d.row = r
          <5>1. d.status = "200"
            BY <2>1, <2>3, <4>2 DEF Clean
          <5>2. c.op = "reveal"
            BY <1>1, <2>3, <2>5, <4>2, <5>1 DEF Told, Tells
          <5> QED BY <2>1, <2>2, <5>2 DEF Outcome
        <4> QED BY <4>1, <4>2
      <3>3. Clean(r) /\ ~Told(r)
        BY <1>1, <1>2, <2>1, <2>3, <3>1 DEF Clean, Told, Tells
      <3>4. Match(x, r)
        BY <3>3 DEF Holds
      <3>5. IsListed(r)' <=> IsListed(r)
        BY <1>1, <3>1, <3>2, NoneAssumption DEF IsListed
      <3> QED BY <3>2, <3>4, <3>5 DEF Match
    <2> QED BY <2>4, <2>5
  <1> QED BY <1>3, <1>4 DEF CallServed

LEMMA HoldsOfChange ==
    ASSUME Typed, NEW s, Changed(s), NEW x, NEW r \in Rows, Holds(x, r)
    PROVE  Holds(x, r)'
  <1>1. /\ UNCHANGED <<page, api, kind>> /\ calls' = calls
        /\ \E status : server' = [server EXCEPT ![s] = status]
        /\ \E room : home' = [home EXCEPT ![s] = room]
        /\ muddled' = muddled \cup {s}
    BY DEF Changed, context
  <1>2. server \in [Rows -> Statuses[page]] /\ home \in [Rows -> Rows \cup {None}]
    BY DEF Typed, HomesOK
  <1>3. SUFFICES ASSUME Clean(r)' PROVE Match(x, r)' \/ Told(r)'
    BY DEF Holds
  <1>4. s \notin {r, home'[r]}
    BY <1>1, <1>3 DEF Clean
  <1>5. /\ home'[r] = home[r] /\ server'[r] = server[r]
        /\ home[r] # None => server'[home[r]] = server[home[r]]
    BY <1>1, <1>2, <1>4
  <1>6. Clean(r) /\ (Told(r)' <=> Told(r))
    BY <1>1, <1>3, <1>5 DEF Clean, Told, Tells
  <1>7. IsListed(r)' <=> IsListed(r)
    BY <1>1, <1>5 DEF IsListed
  <1> QED BY <1>5, <1>6, <1>7 DEF Holds, Match

(* A row whose room changes has been told of, or is not answered for.      *)
LEMMA HomeTold ==
    ASSUME Typed, NEW r \in Rows, home'[r] # home[r],
           (\E c, d : CallServed(c, d)) \/ (\E s : Changed(s)),
           NEW x
    PROVE  Holds(x, r)'
  <1>1. ASSUME NEW c, NEW d, CallServed(c, d) PROVE Holds(x, r)'
    <2>1. Done(c, d) /\ c \in calls /\ page' = page /\ d \in calls'
      BY <1>1 DEF CallServed, TurnedDown, stored, context
    <2>2. home \in [Rows -> Rows \cup {None}] /\ d.row = r
      BY <2>1 DEF Done, Typed, HomesOK
    <2>3. page = "resources"
      BY <2>1, <2>2, NoHomes DEF Done, HomeAfter
    <2>4. d.status = "200" => Told(r)'
      BY <2>1, <2>2, <2>3 DEF Told, Tells
    <2>5. d.status # "200" => ~Clean(r)'
      BY <2>1, <2>2 DEF Done, Clean
    <2> QED BY <2>4, <2>5 DEF Holds
  <1>2. ASSUME NEW s, Changed(s) PROVE Holds(x, r)'
    <2>1. s = r /\ r \in muddled'
      BY <1>2 DEF Changed, Typed, HomesOK
    <2> QED BY <2>1 DEF Holds, Clean
  <1> QED BY <1>1, <1>2

LEMMA ListsOfChange ==
    ASSUME Typed, ListsFresh,
           (\E c, d : CallServed(c, d)) \/ (\E s : Changed(s))
    PROVE  ListsFresh'
  <1>1. UNCHANGED <<page, kind, view, rows, demo, loads, crossed>>
    BY DEF CallServed, Changed, context, shown
  <1>2. ASSUME NEW x, NEW r \in Rows, Holds(x, r) PROVE Holds(x, r)'
    BY <1>2, HoldsOfCall, HoldsOfChange
  <1>3. ASSUME NEW l \in loads, NEW r \in Rows, Served(l, r)', page # "audit", ~crossed
        PROVE  Holds(l.rows[r], r)'
    <2>1. CASE home'[r] # home[r]
      BY <2>1, HomeTold
    <2>2. CASE home'[r] = home[r]
      <3>1. Served(l, r)
        BY <1>1, <1>3, <2>2 DEF Served
      <3>2. Holds(l.rows[r], r)
        BY <1>3, <3>1 DEF ListsFresh, ServedFresh
      <3> QED BY <1>2, <3>2
    <2> QED BY <2>1, <2>2
  <1>4. ShownFresh'
    BY <1>1, <1>2, ShownStill
  <1> QED BY <1>1, <1>3, <1>4 DEF ListsFresh, ServedFresh

(* The answer to a call takes the call away and tells what it told. *)
LEMMA HoldsOfAnswer ==
    ASSUME NEW c, CallAnswered(c), NEW x, NEW r \in Rows, Holds(x, r), ~Tells(c, r)
    PROVE  Holds(x, r)'
  <1>1. UNCHANGED <<page, api, kind, home, server, muddled>> /\ calls' = calls \ {c}
    BY DEF CallAnswered, context, stored
  <1>2. IsListed(r)' <=> IsListed(r)
    BY <1>1 DEF IsListed
  <1>3. Told(r) => Told(r)'
    BY <1>1 DEF Told, Tells
  <1> QED BY <1>1, <1>2, <1>3 DEF Holds, Match, Clean

LEMMA ListsOfAnswer ==
    ASSUME Typed, Order, CallsFresh, ListsFresh, NEW c, CallAnswered(c)
    PROVE  ListsFresh'
  <1>1. /\ UNCHANGED <<page, api, kind, home, server, muddled, demo>> /\ calls' = calls \ {c}
        /\ c \in calls /\ CallOK(c)
    BY DEF CallAnswered, context, stored, Typed
  <1>2. page # "resources" => loads = {}
    <2>1. begun > 0
      BY <1>1 DEF Typed, CallOK
    <2> QED BY <2>1 DEF Order
  <1>3. CASE Reloaded(c)
    <2>1. PICK q : /\ q.status = "asked" /\ loads' = loads \cup {q}
                   /\ q.step # "tables" /\ q.todo = Requests(q.step)
                   /\ crossed' = (crossed \/ loads # {}) /\ view' # "ready"
      BY <1>3 DEF Reloaded, Asks
    <2>2. ~crossed' => loads' = {q}
      BY <2>1
    <2>3. \A r \in Rows : ~Served(q, r)'
      BY <1>1, <2>1 DEF Served, Requests
    <2> QED BY <2>1, <2>2, <2>3 DEF ListsFresh, ServedFresh, ShownFresh
  <1>4. CASE ResultShown(c)
    <2>1. /\ page # "resources" /\ c.status = "200" /\ UNCHANGED <<view, loads, crossed>>
          /\ rows' = IF c.op = "reveal" THEN rows ELSE [rows EXCEPT ![c.row] = c.result]
      BY <1>4 DEF ResultShown
    <2>2. ServedFresh'
      BY <1>2, <2>1 DEF ServedFresh
    <2>3. ASSUME NEW r \in Rows, page # "audit", ~crossed, view = "ready", ~demo
          PROVE  Holds(rows[r], r)'
      <3>1. PICK y : y = rows[r]
        OBVIOUS
      <3>2. Holds(y, r)
        BY <2>3, <3>1 DEF ListsFresh, ShownFresh
      <3>3. CASE c.op = "reveal" \/ c.row # r
        <4>1. ~Tells(c, r)
          BY <2>1, <3>3 DEF Tells
        <4>2. Holds(y, r)'
          BY <3>2, <4>1, HoldsOfAnswer
        <4>3. rows'[r] = y
          BY <2>1, <3>1, <3>3 DEF Typed
        <4> QED BY <4>2, <4>3 DEF Holds, Match
      <3>4. CASE c.op # "reveal" /\ c.row = r
        <4>1. SUFFICES ASSUME Clean(r)' PROVE Match(rows[r], r)'
          BY DEF Holds
        <4>2. c.result = server[r]
          BY <1>1, <2>1, <3>4, <4>1 DEF CallsFresh, Clean
        <4>3. rows'[r] = server'[r]
          BY <1>1, <2>1, <3>4, <4>2 DEF Typed
        <4> QED BY <4>3 DEF Match
      <3> QED BY <3>3, <3>4
    <2> QED BY <1>1, <2>1, <2>2, <2>3 DEF ListsFresh, ShownFresh
  <1>5. CASE FailureShown(c)
    <2>1. /\ c.status # "200" /\ UNCHANGED <<rows, loads, crossed>>
          /\ view' = view \/ view' # "ready"
      BY <1>5 DEF FailureShown
    <2>2. ASSUME NEW x, NEW r \in Rows, Holds(x, r) PROVE Holds(x, r)'
      <3>1. ~Tells(c, r)
        BY <2>1 DEF Tells
      <3> QED BY <2>2, <3>1, HoldsOfAnswer
    <2>3. ServedFresh'
      BY <1>1, <2>1, <2>2 DEF ListsFresh, ServedFresh, Served
    <2>4. ShownFresh'
      <3>1. CASE view' = view
        BY <1>1, <2>1, <2>2, <3>1, ShownStill
      <3>2. CASE view' # "ready"
        BY <3>2 DEF ShownFresh
      <3> QED BY <2>1, <3>1, <3>2
    <2> QED BY <2>3, <2>4 DEF ListsFresh
  <1> QED BY <1>3, <1>4, <1>5 DEF CallAnswered

LEMMA ListsStayFresh ==
    ASSUME Typed, Order, CallsFresh, ListsFresh, [Next]_vars
    PROVE  ListsFresh'
  <1>1. CASE Played
    <2>1. /\ UNCHANGED <<page, api, kind, home, server, muddled, calls, crossed, loads>>
          /\ demo' = TRUE
      BY <1>1 DEF Played, context, stored, history, Typed
    <2>2. ASSUME NEW x, NEW r \in Rows, Holds(x, r) PROVE Holds(x, r)'
      BY <2>1, <2>2, HoldsStill
    <2> QED BY <2>1, <2>2 DEF ListsFresh, ServedFresh, ShownFresh, Served
  <1>2. CASE RoleLost \/ UNCHANGED vars
    <2>1. UNCHANGED <<page, api, kind, home, server, muddled, calls, crossed, loads, view, rows, demo>>
      BY <1>2 DEF RoleLost, vars, context, stored, history, shown
    <2> QED BY <2>1, HoldsKept
  <1> QED BY <1>1, <1>2, NextSplits, ListsOfAsking, ListsOfClick, ListsOfServing,
             ListsOfArrival, ListsOfChange, ListsOfAnswer

-----------------------------------------------------------------------------
(* What the pages promise. *)

PagesInv == Typed /\ Marks /\ Order /\ LogFresh /\ CallsFresh /\ ListsFresh

LEMMA PagesStart ==
    ASSUME Init PROVE PagesInv
  <1>1. /\ calls = {} /\ hopped = {} /\ busy = None /\ crossed = FALSE /\ begun = 0
        /\ view \in {"checking", "loading"}
    BY DEF Init
  <1>2. PICK step \in {"gate", "list"} : loads = {Question(1, step)}
    BY DEF Init
  <1>3. /\ Question(1, step).status = "asked" /\ Question(1, step).filter = filter
        /\ \A r \in Rows : ~Served(Question(1, step), r)
    BY <1>2 DEF Question, Served, Requests
  <1>4. Marks
    BY <1>1 DEF Marks, OneCallPerButton
  <1>5. Order
    BY <1>1, <1>2, <1>3 DEF Order
  <1>6. LogFresh /\ ListsFresh
    BY <1>1, <1>2, <1>3 DEF LogFresh, ListsFresh, ServedFresh, ShownFresh
  <1>7. CallsFresh
    BY <1>1 DEF CallsFresh
  <1> QED BY <1>4, <1>5, <1>6, <1>7, TypedStarts DEF PagesInv

LEMMA PagesStay ==
    ASSUME PagesInv, [Next]_vars PROVE PagesInv'
  BY TypedStays, MarksStay, OrderStays, LogStays, CallsStayFresh, ListsStayFresh DEF PagesInv

LEMMA PagesHold == Spec => []PagesInv
  <1>1. Init => PagesInv
    BY PagesStart
  <1>2. PagesInv /\ [Next]_vars => PagesInv'
    BY PagesStay
  <1> QED BY <1>1, <1>2, PTL DEF Spec

(* The page, the messages and the rows at the API are typed, and a busy    *)
(* mark always stands for a call under way.                                *)
THEOREM PagesAreTyped == Spec => []PagesTypeOK
  <1>1. ASSUME PagesInv PROVE PagesTypeOK
    <2>1. Showable \subseteq Statuses[page] \cup Filters \cup {None}
      BY DEF Showable
    <2>2. {claims, role} \subseteq Everyone \cup {"none"}
      BY <1>1 DEF PagesInv, Typed, ContextOK, Roles
    <2>3. /\ rows \in [Rows -> Statuses[page] \cup Filters \cup {None}]
          /\ home \in [Rows -> Rows \cup {None}]
      BY <1>1, <2>1 DEF PagesInv, Typed, HomesOK
    <2>4. (busy # None => \E c \in calls : c.button = busy) /\ hopped \subseteq {c.n : c \in calls}
      BY <1>1 DEF PagesInv, Marks
    <2>5. \A c \in calls : c.n \in 1..begun
      BY <1>1 DEF PagesInv, Typed, CallOK
    <2>6. /\ page \in Pages /\ api \in Deployments /\ server \in [Rows -> Statuses[page]]
          /\ view \in {"checking", "gate error", "loading", "ready", "unauthorized",
                       "forbidden", "error"}
          /\ filter \in Filters /\ demo \in BOOLEAN
          /\ \A l \in loads : l.n \in 1..asked
          /\ muddled \subseteq Rows
      BY <1>1 DEF PagesInv, Typed, ContextOK, Views
    <2> QED BY <2>2, <2>3, <2>4, <2>5, <2>6 DEF PagesTypeOK
  <1> QED BY <1>1, PagesHold, PTL

(* What a settled page shows of a row is what the API has, for every       *)
(* number of rows, whatever calls and reloads there were: but for rows     *)
(* others changed, rows whose answer was lost, rows with two calls under   *)
(* way, and the resources page after two reloads that crossed.             *)
THEOREM WhatIsShownIsTrue == Spec => []ShownIsTrue
  <1>1. ASSUME PagesInv PROVE ShownIsTrue
    <2>1. SUFFICES ASSUME view = "ready", ~demo, page = "resources" => ~crossed,
                          NEW r \in Rows,
                          {r, home[r]} \cap (muddled \cup {c.row : c \in calls}) = {}
                   PROVE  \/ page = "audit" /\ rows[r] = filter
                          \/ rows[r] = server[r]
                          \/ rows[r] = None /\ ~IsListed(r)
      BY DEF ShownIsTrue
    <2>2. CASE page = "audit"
      BY <1>1, <2>1, <2>2 DEF PagesInv, LogFresh
    <2>3. CASE page # "audit"
      <3>1. ~crossed
        BY <1>1, <2>1 DEF PagesInv, Order
      <3>2. Clean(r)
        BY <2>1 DEF Clean
      <3>3. ~Told(r)
        <4>1. \A c \in calls : c.row \notin {r, home[r]}
          BY <2>1
        <4> QED BY <4>1 DEF Told, Tells
      <3>4. Match(rows[r], r)
        BY <1>1, <2>1, <2>3, <3>1, <3>2, <3>3 DEF PagesInv, ListsFresh, ShownFresh, Holds
      <3> QED BY <3>4 DEF Match
    <2> QED BY <2>2, <2>3
  <1> QED BY <1>1, PagesHold, PTL

(* One button never has two calls under way, unless another call took the  *)
(* page's only busy mark in between.                                       *)
THEOREM ButtonsCallOnce == Spec => []OneCallPerButton
  <1>1. PagesInv => OneCallPerButton
    BY DEF PagesInv, Marks
  <1> QED BY <1>1, PagesHold, PTL

===============================================================================
