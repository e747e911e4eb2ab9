---------------------------- MODULE BookingProofs ----------------------------
(***************************************************************************)
(* Proofs about the bookings component, for every value of its constants.  *)
(***************************************************************************)
EXTENDS BookingProperties, TLAPS

Transitions == {"confirm", "adminCancel", "userCancel"}

(***************************************************************************)
(* What a call knows at each of its steps.  A call that names a booking    *)
(* names a row that exists, and it reaches the compare-and-set only with a *)
(* status from which its transition is allowed.                            *)
(***************************************************************************)
StepOfOp(r) ==
    /\ pc[r] = "idle" => loc[r] = NoCall
    /\ pc[r] # "idle" => loc[r].op # None
    /\ pc[r] = "user" => loc[r].op = "create"
    /\ pc[r] \in {"table", "schedule", "queries", "txOverlap", "txWrite"} =>
         loc[r].op \in {"create", "move"}
    /\ pc[r] = "txStatus" => loc[r].op = "move"
    /\ pc[r] = "conflict" => loc[r].op = "confirm"
    /\ pc[r] = "rule" => loc[r].op = "userCancel"
    /\ pc[r] \in {"status", "cas"} => loc[r].op \in Transitions
    /\ pc[r] = "signal" => loc[r].op \in {"confirm", "adminCancel", "move"}

Known(r) ==
    /\ loc[r].op \in {"create", "move"} => loc[r].table \in Tables /\ loc[r].iv \in Intervals
    /\ loc[r].op = "create" =>
         loc[r].booking = None /\ loc[r].user \in Users /\ loc[r].rule \in Rules
    /\ loc[r].op = "userCancel" => loc[r].iv \in Intervals
    /\ loc[r].op = "move" => loc[r].from \in ActiveBookingStatuses
    /\ loc[r].op \in Transitions \cup {"move"} =>
         loc[r].booking \in BookingIds /\ bookings[loc[r].booking] # None
    /\ pc[r] = "cas" => isTransitionAllowed(loc[r].from, Target(loc[r].op))

CallsOK == \A r \in Requests : StepOfOp(r) /\ Known(r)

(* The step of one call leaves the others where they are. *)
Alone(r) == \A q \in Requests \ {r} : pc'[q] = pc[q] /\ loc'[q] = loc[q]

(* Rows are never deleted. *)
RowsStay == \A b \in BookingIds : bookings[b] # None => bookings'[b] # None

Inv == TypeOK /\ CallsOK

LEMMA InitInv == Init => Inv
  BY ConstantsAssumption, NoneAssumption
  DEF Init, Inv, TypeOK, CallsOK, StepOfOp, Known, NoCall, Call, Club, Steps, Signals, Closure,
      BookingRow, HistoryRow, Transitions, Ops

(* A call on its way: a step of r that writes no booking. *)
LEMMA QuietStep ==
    ASSUME Inv, NEW r \in Requests, UNCHANGED <<bookings, history, outbox, club, edits, now>>,
           NEW step \in Steps, NEW c \in Call,
           Enter(r, step, c), StepOfOp(r)', Known(r)'
    PROVE  Inv'
  <1>1. TypeOK'
    BY DEF Inv, TypeOK, Enter, Goto
  <1>2. CallsOK'
    BY DEF Inv, TypeOK, CallsOK, StepOfOp, Known, Enter, Goto
  <1> QED BY <1>1, <1>2 DEF Inv

LEMMA ReplyInv ==
    ASSUME Inv, NEW r \in Requests, UNCHANGED <<bookings, history, outbox, club, edits, now>>,
           Reply(r)
    PROVE  Inv'
  <1>1. NoCall \in Call /\ "idle" \in Steps
    BY DEF NoCall, Call, Steps
  <1>2. pc'[r] = "idle" /\ loc'[r] = NoCall
    BY DEF Inv, TypeOK, Reply, Enter, Goto
  <1>3. StepOfOp(r)' /\ Known(r)'
    BY <1>2, NoneAssumption DEF StepOfOp, Known, NoCall, Ops, Transitions
  <1> QED BY <1>1, <1>3, QuietStep DEF Reply

(* A step that moves the program counter of r only. *)
LEMMA GotoInv ==
    ASSUME Inv, NEW r \in Requests, UNCHANGED <<bookings, history, outbox, club, edits, now, loc>>,
           NEW step \in Steps, Goto(r, step), StepOfOp(r)', Known(r)'
    PROVE  Inv'
  <1>1. Enter(r, step, loc[r])
    BY DEF Enter, Inv, TypeOK
  <1>2. loc[r] \in Call
    BY DEF Inv, TypeOK
  <1> QED BY <1>1, <1>2, QuietStep

LEMMA ArriveInv ==
    ASSUME Inv, NEW r \in Requests, Arrive(r)
    PROVE  Inv'
  <1> USE DEF db, env
  <1>1. ASSUME NEW u \in Users, NEW t \in Tables, NEW iv \in Intervals,
               createBookingRequest(r, u, t, iv)
        PROVE  Inv'
    <2> DEFINE c == [NoCall EXCEPT !.op = "create", !.user = u, !.table = t, !.iv = iv,
                            !.rule = club.rule, !.seen = club.closures, !.asOf = edits]
    <2>1. c \in Call /\ "user" \in Steps
      BY DEF Inv, TypeOK, NoCall, Call, Steps, Ops, Club
    <2>2. Enter(r, "user", c) /\ UNCHANGED <<bookings, history, outbox, club, edits, now>>
      BY <1>1 DEF createBookingRequest
    <2>3. pc'[r] = "user" /\ loc'[r] = c
      BY <2>2 DEF Inv, TypeOK, Enter, Goto
    <2>4. StepOfOp(r)' /\ Known(r)'
      BY <2>3, NoneAssumption DEF StepOfOp, Known, NoCall, Ops, Transitions, Inv, TypeOK, Club
    <2> HIDE DEF c
    <2> QED BY <2>1, <2>2, <2>4, QuietStep
  <1>2. ASSUME NEW b \in BookingIds, NEW t \in Tables, NEW iv \in Intervals,
               adminMoveBooking(r, b, t, iv)
        PROVE  Inv'
    <2> DEFINE c == [NoCall EXCEPT !.op = "move", !.booking = b, !.table = t, !.iv = iv,
                            !.from = bookings[b].status,
                            !.seen = club.closures, !.asOf = edits]
    <2>1. bookings[b] \in BookingRow /\ bookings[b].status \in ActiveBookingStatuses
      BY <1>2 DEF adminMoveBooking, isAdminMovableStatus, ActiveBookingStatuses, Inv, TypeOK
    <2>2. c \in Call /\ "table" \in Steps
      BY <2>1 DEF Inv, TypeOK, NoCall, Call, Steps, Ops, Club, Status
    <2>3. Enter(r, "table", c) /\ UNCHANGED <<bookings, history, outbox, club, edits, now>>
      BY <1>2 DEF adminMoveBooking
    <2>4. pc'[r] = "table" /\ loc'[r] = c
      BY <2>3 DEF Inv, TypeOK, Enter, Goto
    <2>5. StepOfOp(r)' /\ Known(r)'
      BY <1>2, <2>1, <2>3, <2>4, NoneAssumption
      DEF adminMoveBooking, StepOfOp, Known, NoCall, Ops, Transitions
    <2> HIDE DEF c
    <2> QED BY <2>2, <2>3, <2>5, QuietStep
  <1>3. ASSUME NEW b \in BookingIds, adminConfirmBooking(r, b)
        PROVE  Inv'
    <2> DEFINE c == [NoCall EXCEPT !.op = "confirm", !.booking = b,
                            !.table = bookings[b].table, !.iv = bookings[b].iv]
    <2>1. c \in Call /\ "conflict" \in Steps
      BY <1>3 DEF adminConfirmBooking, Inv, TypeOK, NoCall, Call, Steps, Ops, BookingRow
    <2>2. Enter(r, "conflict", c) /\ UNCHANGED <<bookings, history, outbox, club, edits, now>>
      BY <1>3 DEF adminConfirmBooking
    <2>3. pc'[r] = "conflict" /\ loc'[r] = c
      BY <2>2 DEF Inv, TypeOK, Enter, Goto
    <2>4. StepOfOp(r)' /\ Known(r)'
      BY <1>3, <2>2, <2>3, NoneAssumption
      DEF adminConfirmBooking, StepOfOp, Known, NoCall, Ops, Transitions
    <2> HIDE DEF c
    <2> QED BY <2>1, <2>2, <2>4, QuietStep
  <1>4. ASSUME NEW b \in BookingIds, adminCancelBooking(r, b)
        PROVE  Inv'
    <2> DEFINE c == [NoCall EXCEPT !.op = "adminCancel", !.booking = b]
    <2>1. c \in Call /\ "status" \in Steps
      BY DEF NoCall, Call, Steps, Ops
    <2>2. Enter(r, "status", c) /\ UNCHANGED <<bookings, history, outbox, club, edits, now>>
      BY <1>4 DEF adminCancelBooking
    <2>3. pc'[r] = "status" /\ loc'[r] = c
      BY <2>2 DEF Inv, TypeOK, Enter, Goto
    <2>4. StepOfOp(r)' /\ Known(r)'
      BY <1>4, <2>2, <2>3, NoneAssumption
      DEF adminCancelBooking, StepOfOp, Known, NoCall, Ops, Transitions
    <2> HIDE DEF c
    <2> QED BY <2>1, <2>2, <2>4, QuietStep
  <1>5. ASSUME NEW b \in BookingIds, NEW u \in Users, cancelOwnBooking(r, u, b)
        PROVE  Inv'
    <2> DEFINE c == [NoCall EXCEPT !.op = "userCancel", !.user = u, !.booking = b,
                            !.iv = bookings[b].iv]
    <2>1. c \in Call /\ "rule" \in Steps
      BY <1>5 DEF cancelOwnBooking, Inv, TypeOK, NoCall, Call, Steps, Ops, BookingRow
    <2>2. Enter(r, "rule", c) /\ UNCHANGED <<bookings, history, outbox, club, edits, now>>
      BY <1>5 DEF cancelOwnBooking
    <2>3. pc'[r] = "rule" /\ loc'[r] = c
      BY <2>2 DEF Inv, TypeOK, Enter, Goto
    <2>4. StepOfOp(r)' /\ Known(r)'
      BY <1>5, <2>2, <2>3, NoneAssumption
      DEF cancelOwnBooking, StepOfOp, Known, NoCall, Ops, Transitions, Inv, TypeOK, BookingRow
    <2> HIDE DEF c
    <2> QED BY <2>1, <2>2, <2>4, QuietStep
  <1> QED BY <1>1, <1>2, <1>3, <1>4, <1>5 DEF Arrive

(* The steps that only read. *)
LEMMA ReadInv ==
    ASSUME Inv, NEW r \in Requests,
           \/ CheckUser(r) \/ CheckTable(r) \/ resolveScheduleForDate(r)
           \/ \E q \in Queries : AnswerQuery(r, q)
           \/ TxStatus(r) \/ TxOverlap(r)
           \/ ConfirmConflict(r) \/ CancelNotice(r) \/ ReadStatus(r)
    PROVE  Inv'
  <1> USE DEF db, env
  <1>r. ASSUME Reply(r), UNCHANGED <<db, env>> PROVE Inv'
    BY <1>r, ReplyInv
  <1>k. StepOfOp(r) /\ Known(r) /\ loc[r] \in Call /\ loc[r].op \in Ops \cup {None}
    BY DEF Inv, CallsOK, TypeOK, Call
  <1>g. ASSUME NEW step \in {"table", "txOverlap", "txWrite", "status"},
               Goto(r, step), UNCHANGED <<db, env, loc>>,
               pc[r] \in {"user", "txStatus", "txOverlap", "conflict"},
               step = "table" => pc[r] = "user",
               step = "status" => pc[r] = "conflict",
               step = "txOverlap" => pc[r] = "txStatus",
               step = "txWrite" => pc[r] = "txOverlap"
        PROVE  Inv'
    <2>1. pc'[r] = step /\ loc'[r] = loc[r] /\ step \in Steps
      BY <1>g DEF Inv, TypeOK, Goto, Steps
    <2>2. StepOfOp(r)' /\ Known(r)'
      BY <1>g, <1>k, <2>1 DEF StepOfOp, Known, Transitions
    <2> QED BY <1>g, <2>1, <2>2, GotoInv
  <1>1. CASE CheckUser(r)
    BY <1>1, <1>r, <1>g DEF CheckUser
  <1>2. CASE CheckTable(r)
    <2> DEFINE c == [loc[r] EXCEPT !.room = club.room[loc[r].table]]
    <2>1. CASE Reply(r)
      BY <1>2, <2>1, <1>r DEF CheckTable
    <2>2. CASE Enter(r, "schedule", c)
      <3>1. pc[r] = "table" /\ UNCHANGED <<db, env>>
        BY <1>2 DEF CheckTable
      <3>2. loc[r].table \in Tables
        BY <1>k, <3>1 DEF StepOfOp, Known
      <3>3. c \in Call /\ "schedule" \in Steps
        BY <1>k, <3>2 DEF Call, Steps, Inv, TypeOK, Club
      <3>4. pc'[r] = "schedule" /\ loc'[r] = c
        BY <2>2 DEF Inv, TypeOK, Enter, Goto
      <3>5. StepOfOp(r)' /\ Known(r)'
        BY <1>k, <3>1, <3>4 DEF StepOfOp, Known, Call, Transitions
      <3> HIDE DEF c
      <3> QED BY <2>2, <3>1, <3>3, <3>5, QuietStep
    <2> QED BY <1>2, <2>1, <2>2 DEF CheckTable
  <1>3. CASE resolveScheduleForDate(r)
    <2> DEFINE c == [loc[r] EXCEPT !.todo = IF loc[r].op = "create"
                                             THEN Queries ELSE Queries \ {"count"}]
    <2>1. CASE Reply(r)
      BY <1>3, <2>1, <1>r DEF resolveScheduleForDate
    <2>2. CASE Enter(r, "queries", c)
      <3>1. c \in Call /\ "queries" \in Steps
        BY <1>k DEF Call, Steps
      <3>2. pc'[r] = "queries" /\ loc'[r] = c
        BY <2>2 DEF Inv, TypeOK, Enter, Goto
      <3>3. pc[r] = "schedule" /\ UNCHANGED <<db, env>>
        BY <1>3 DEF resolveScheduleForDate
      <3>4. StepOfOp(r)' /\ Known(r)'
        BY <1>k, <3>2, <3>3 DEF StepOfOp, Known, Call
      <3> HIDE DEF c
      <3> QED BY <2>2, <3>1, <3>3, <3>4, QuietStep
    <2> QED BY <1>3, <2>1, <2>2 DEF resolveScheduleForDate
  <1>4. ASSUME NEW q \in Queries, AnswerQuery(r, q) PROVE Inv'
    <2> DEFINE c == [loc[r] EXCEPT !.todo = @ \ {q}]
               step == IF loc[r].todo # {q} THEN "queries"
                       ELSE IF loc[r].op = "create" THEN "txOverlap" ELSE "txStatus"
    <2>1. CASE Reply(r)
      BY <1>4, <2>1, <1>r DEF AnswerQuery
    <2>2. CASE Enter(r, step, c)
      <3>1. c \in Call /\ step \in Steps
        BY <1>k DEF Call, Steps
      <3>2. pc'[r] = step /\ loc'[r] = c
        BY <2>2 DEF Inv, TypeOK, Enter, Goto
      <3>3. pc[r] = "queries" /\ UNCHANGED <<db, env>>
        BY <1>4 DEF AnswerQuery
      <3>4. StepOfOp(r)' /\ Known(r)'
        BY <1>k, <3>2, <3>3 DEF StepOfOp, Known, Call
      <3> HIDE DEF c, step
      <3> QED BY <2>2, <3>1, <3>3, <3>4, QuietStep
    <2> QED BY <1>4, <2>1, <2>2 DEF AnswerQuery, Enter
  <1>5. CASE TxStatus(r)
    BY <1>5, <1>r, <1>g DEF TxStatus
  <1>6. CASE TxOverlap(r)
    BY <1>6, <1>r, <1>g DEF TxOverlap
  <1>7. CASE ConfirmConflict(r)
    BY <1>7, <1>r, <1>g DEF ConfirmConflict
  <1>8. CASE CancelNotice(r)
    <2> DEFINE c == [loc[r] EXCEPT !.rule = club.rule]
    <2>1. CASE Reply(r)
      BY <1>8, <2>1, <1>r DEF CancelNotice
    <2>2. CASE Enter(r, "status", c)
      <3>1. c \in Call /\ "status" \in Steps
        BY <1>k DEF Call, Steps, Inv, TypeOK, Club
      <3>2. pc'[r] = "status" /\ loc'[r] = c
        BY <2>2 DEF Inv, TypeOK, Enter, Goto
      <3>3. pc[r] = "rule" /\ UNCHANGED <<db, env>>
        BY <1>8 DEF CancelNotice
      <3>4. StepOfOp(r)' /\ Known(r)'
        BY <1>k, <3>2, <3>3 DEF StepOfOp, Known, Call, Transitions
      <3> HIDE DEF c
      <3> QED BY <2>2, <3>1, <3>3, <3>4, QuietStep
    <2> QED BY <1>8, <2>1, <2>2 DEF CancelNotice
  <1>9. CASE ReadStatus(r)
    <2> DEFINE status == bookings[loc[r].booking].status
               c == [loc[r] EXCEPT !.from = status]
    <2>1. CASE Reply(r)
      BY <1>9, <2>1, <1>r DEF ReadStatus
    <2>2. CASE Enter(r, "cas", c) /\ isTransitionAllowed(status, Target(loc[r].op))
      <3>1. pc[r] = "status" /\ UNCHANGED <<db, env>>
        BY <1>9 DEF ReadStatus
      <3>2. c \in Call /\ "cas" \in Steps
        BY <1>k, <3>1 DEF StepOfOp, Known, Call, Steps, Inv, TypeOK, BookingRow
      <3>3. pc'[r] = "cas" /\ loc'[r] = c
        BY <2>2 DEF Inv, TypeOK, Enter, Goto
      <3>4. StepOfOp(r)' /\ Known(r)'
        BY <1>k, <2>2, <3>1, <3>3 DEF StepOfOp, Known, Call, Transitions
      <3> HIDE DEF c
      <3> QED BY <2>2, <3>1, <3>2, <3>4, QuietStep
    <2> QED BY <1>9, <2>1, <2>2 DEF ReadStatus
  <1> QED BY <1>1, <1>2, <1>3, <1>4, <1>5, <1>6, <1>7, <1>8, <1>9

(* Rows are never deleted, and each call but r stays where it is. *)
LEMMA WriteStep ==
    ASSUME Inv, NEW r \in Requests, TypeOK', StepOfOp(r)', Known(r)',
           \A q \in Requests \ {r} : pc'[q] = pc[q] /\ loc'[q] = loc[q],
           \A b \in BookingIds : bookings[b] # None => bookings'[b] # None
    PROVE  Inv'
  BY DEF Inv, CallsOK, StepOfOp, Known

LEMMA PlaceInv ==
    ASSUME Inv, NEW r \in Requests, NEW b \in BookingIds, createPendingBooking(r, b)
    PROVE  Inv'
  <1> DEFINE row == [user |-> loc[r].user, table |-> loc[r].table,
                     iv |-> loc[r].iv, status |-> "pending"]
             h == [from |-> None, to |-> "pending"]
  <1>1. row \in BookingRow /\ h \in HistoryRow
    BY DEF createPendingBooking, Inv, CallsOK, Known, BookingRow, HistoryRow, Status,
           ActiveBookingStatuses
  <1>2. pc'[r] = "idle" /\ loc'[r] = NoCall
        /\ \A q \in Requests \ {r} : pc'[q] = pc[q] /\ loc'[q] = loc[q]
    BY DEF createPendingBooking, Reply, Enter, Goto, Inv, TypeOK
  <1>3. bookings' = [bookings EXCEPT ![b] = row]
        /\ history' = [history EXCEPT ![b] = Append(@, h)]
    BY DEF createPendingBooking, NewRow
  <1>4. StepOfOp(r)' /\ Known(r)'
    BY <1>2, NoneAssumption DEF StepOfOp, Known, NoCall, Ops, Transitions
  <1>5. NoCall \in Call /\ "idle" \in Steps
    BY DEF NoCall, Call, Steps
  <1> HIDE DEF row, h
  <1>6. bookings' \in [BookingIds -> BookingRow \cup {None}]
        /\ history' \in [BookingIds -> Seq(HistoryRow)]
    BY <1>1, <1>3 DEF Inv, TypeOK
  <1>7. TypeOK'
    BY <1>5, <1>6 DEF createPendingBooking, Inv, TypeOK, Reply, Enter, Goto, env
  <1>8. \A x \in BookingIds : bookings[x] # None => bookings'[x] # None
    BY <1>1, <1>3, NoneAssumption DEF Inv, TypeOK
  <1> QED BY <1>2, <1>4, <1>7, <1>8, WriteStep

(* The booking of a move or a status change is a row. *)
LEMMA BookingOfCall ==
    ASSUME Inv, NEW r \in Requests, loc[r].op \in Transitions \cup {"move"}
    PROVE  /\ loc[r].booking \in BookingIds
           /\ bookings[loc[r].booking] \in BookingRow
  BY DEF Inv, CallsOK, Known, TypeOK

LEMMA MoveInv ==
    ASSUME Inv, NEW r \in Requests, moveBookingForAdmin(r)
    PROVE  Inv'
  <1> DEFINE b == loc[r].booking
             row == [bookings[b] EXCEPT !.table = loc[r].table, !.iv = loc[r].iv]
             h == [from |-> loc[r].from, to |-> loc[r].from]
  <1>1. pc[r] = "txWrite" /\ loc[r].op = "move" /\ Known(r)
    BY DEF moveBookingForAdmin, Inv, CallsOK
  <1>2. b \in BookingIds /\ bookings[b] \in BookingRow
    BY <1>1, BookingOfCall
  <1>3. row \in BookingRow /\ h \in HistoryRow
    BY <1>1, <1>2 DEF Known, BookingRow, HistoryRow, Status, ActiveBookingStatuses
  <1>4. pc' = [pc EXCEPT ![r] = "signal"] /\ loc' = loc
    BY DEF moveBookingForAdmin, Goto
  <1>5. bookings' = [bookings EXCEPT ![b] = row]
        /\ history' = [history EXCEPT ![b] = Append(@, h)]
    BY <1>2 DEF moveBookingForAdmin, MoveRow, Inv, TypeOK
  <1> HIDE DEF row, h
  <1>6. bookings' \in [BookingIds -> BookingRow \cup {None}]
        /\ history' \in [BookingIds -> Seq(HistoryRow)]
    BY <1>2, <1>3, <1>5 DEF Inv, TypeOK
  <1>7. TypeOK'
    BY <1>4, <1>6 DEF moveBookingForAdmin, Inv, TypeOK, env, Steps
  <1>8. \A x \in BookingIds : bookings[x] # None => bookings'[x] # None
    BY <1>2, <1>3, <1>5, NoneAssumption DEF Inv, TypeOK
  <1>9. StepOfOp(r)' /\ Known(r)'
    BY <1>1, <1>2, <1>4, <1>8, NoneAssumption
    DEF StepOfOp, Known, Inv, TypeOK, Ops, Transitions
  <1>10. \A q \in Requests \ {r} : pc'[q] = pc[q] /\ loc'[q] = loc[q]
    BY <1>4 DEF Inv, TypeOK
  <1> QED BY <1>7, <1>8, <1>9, <1>10, WriteStep

LEMMA TransitionInv ==
    ASSUME Inv, NEW r \in Requests, transitionBookingStatus(r)
    PROVE  Inv'
  <1> DEFINE b == loc[r].booking
             to == Target(loc[r].op)
             row == [bookings[b] EXCEPT !.status = to]
             h == [from |-> loc[r].from, to |-> to]
  <1>1. pc[r] = "cas" /\ loc[r].op \in Transitions /\ Known(r) /\ loc[r] \in Call
    BY DEF transitionBookingStatus, Inv, CallsOK, StepOfOp, TypeOK
  <1>2. b \in BookingIds /\ bookings[b] \in BookingRow
    BY <1>1, BookingOfCall
  <1>3. CASE Reply(r) /\ UNCHANGED <<bookings, history, outbox, env>>
    BY <1>3, ReplyInv DEF env
  <1>4. CASE /\ bookings' = [bookings EXCEPT ![b].status = to]
             /\ history' = [history EXCEPT ![b] = Append(@, h)]
             /\ UNCHANGED <<outbox, env>>
             /\ Reply(r) \/ (Goto(r, "signal") /\ UNCHANGED loc /\ loc[r].op # "userCancel")
    <2>1. row \in BookingRow /\ h \in HistoryRow
      BY <1>1, <1>2
      DEF Known, BookingRow, HistoryRow, Status, ActiveBookingStatuses, Target, Transitions,
          isTransitionAllowed
    <2>2. bookings' = [bookings EXCEPT ![b] = row]
          /\ history' = [history EXCEPT ![b] = Append(@, h)]
      BY <1>2, <1>4 DEF Inv, TypeOK
    <2> HIDE DEF row, h
    <2>3. bookings' \in [BookingIds -> BookingRow \cup {None}]
          /\ history' \in [BookingIds -> Seq(HistoryRow)]
      BY <1>2, <2>1, <2>2 DEF Inv, TypeOK
    <2>4. /\ TypeOK'
          /\ \A q \in Requests \ {r} : pc'[q] = pc[q] /\ loc'[q] = loc[q]
      <3>1. NoCall \in Call /\ "idle" \in Steps /\ "signal" \in Steps
        BY DEF NoCall, Call, Steps
      <3> QED BY <1>4, <2>3, <3>1 DEF Inv, TypeOK, env, Reply, Enter, Goto
    <2>5. \A x \in BookingIds : bookings[x] # None => bookings'[x] # None
      BY <1>2, <2>1, <2>2, NoneAssumption DEF Inv, TypeOK
    <2>6. StepOfOp(r)' /\ Known(r)'
      <3>1. CASE Reply(r)
        <4>1. pc'[r] = "idle" /\ loc'[r] = NoCall
          BY <3>1 DEF Reply, Enter, Goto, Inv, TypeOK
        <4> QED BY <4>1, NoneAssumption DEF StepOfOp, Known, NoCall, Ops, Transitions
      <3>2. CASE Goto(r, "signal") /\ UNCHANGED loc /\ loc[r].op # "userCancel"
        <4>1. pc'[r] = "signal" /\ loc'[r] = loc[r]
          BY <3>2 DEF Goto, Inv, TypeOK
        <4> QED BY <1>1, <1>2, <2>5, <3>2, <4>1, NoneAssumption
            DEF StepOfOp, Known, Ops, Transitions, Inv, TypeOK
      <3> QED BY <1>4, <3>1, <3>2
    <2> QED BY <2>4, <2>5, <2>6, WriteStep
  <1> QED BY <1>3, <1>4 DEF transitionBookingStatus, FollowUpStep, env

LEMMA SignalInv ==
    ASSUME Inv, NEW r \in Requests, tryCreateNotificationSignal(r)
    PROVE  Inv'
  <1> DEFINE b == loc[r].booking
             s == Signal(loc[r].op)
  <1>1. loc[r].op \in {"confirm", "adminCancel", "move"}
    BY DEF tryCreateNotificationSignal, Inv, CallsOK, StepOfOp
  <1>2. b \in BookingIds /\ s \in Signals
    BY <1>1, BookingOfCall DEF Transitions, Signal, Signals
  <1> HIDE DEF b, s
  <1>3. outbox[b] \in [Signals -> Nat] /\ outbox[b][s] + 1 \in Nat
    BY <1>2 DEF Inv, TypeOK
  <1>4. outbox' = [outbox EXCEPT ![b] = [outbox[b] EXCEPT ![s] = outbox[b][s] + 1]]
    BY <1>2 DEF tryCreateNotificationSignal, b, s, Inv, TypeOK
  <1>5. outbox' \in [BookingIds -> [Signals -> Nat]]
    BY <1>2, <1>3, <1>4 DEF Inv, TypeOK
  <1>6. pc'[r] = "idle" /\ loc'[r] = NoCall
        /\ \A q \in Requests \ {r} : pc'[q] = pc[q] /\ loc'[q] = loc[q]
    BY DEF tryCreateNotificationSignal, Reply, Enter, Goto, Inv, TypeOK
  <1>7. StepOfOp(r)' /\ Known(r)'
    BY <1>6, NoneAssumption DEF StepOfOp, Known, NoCall, Ops, Transitions
  <1>8. NoCall \in Call /\ "idle" \in Steps
    BY DEF NoCall, Call, Steps
  <1>9. TypeOK'
    BY <1>5, <1>8 DEF tryCreateNotificationSignal, Inv, TypeOK, Reply, Enter, Goto, env
  <1> QED BY <1>6, <1>7, <1>9, WriteStep DEF tryCreateNotificationSignal

LEMMA OwnerInv ==
    ASSUME Inv, OwnerEdit \/ Tick
    PROVE  Inv'
  <1>1. CASE Tick
    BY <1>1, ConstantsAssumption DEF Tick, Inv, TypeOK, CallsOK, StepOfOp, Known, db
  <1>2. CASE OwnerEdit
    <2>1. PICK new \in Club : Edit(new)
      BY <1>2 DEF OwnerEdit, SetBlocked, SetInactive, MoveTable, AddClosure, SetSchedule, updateBookingRules,
                  Inv, TypeOK, Club
    <2> QED BY <2>1 DEF Edit, Inv, TypeOK, CallsOK, StepOfOp, Known, db
  <1> QED BY <1>1, <1>2

LEMMA NextInv == Inv /\ [Next]_vars => Inv'
  <1> SUFFICES ASSUME Inv, [Next]_vars PROVE Inv'
    OBVIOUS
  <1>1. CASE UNCHANGED vars
    BY <1>1 DEF vars, Inv, TypeOK, CallsOK, StepOfOp, Known
  <1>2. ASSUME NEW r \in Requests, Arrive(r) PROVE Inv'
    BY <1>2, ArriveInv
  <1>3. ASSUME NEW r \in Requests, Continue(r) PROVE Inv'
    BY <1>3, ReadInv, PlaceInv, MoveInv, TransitionInv, SignalInv DEF Continue
  <1>4. ASSUME NEW r \in Requests, Abandon(r) PROVE Inv'
    BY <1>4, ReplyInv DEF Abandon, db, env
  <1>5. CASE OwnerEdit \/ Tick
    BY <1>5, OwnerInv
  <1> QED BY <1>1, <1>2, <1>3, <1>4, <1>5 DEF Next

(***************************************************************************)
(* The variables keep their types, and a call that has got somewhere knows *)
(* what its next statement needs: no step of a handler reads a column of a *)
(* booking that is not there.                                              *)
(***************************************************************************)
THEOREM TypeCorrect == Spec => []TypeOK
  <1>1. Spec => []Inv
    BY InitInv, NextInv, PTL DEF Spec
  <1>2. Inv => TypeOK
    BY DEF Inv
  <1> QED BY <1>1, <1>2, PTL

-----------------------------------------------------------------------------
(* What a step does to the two tables. *)

LEMMA ReadsKeepRows ==
    ASSUME NEW r \in Requests,
           \/ Arrive(r) \/ Abandon(r) \/ OwnerEdit \/ Tick \/ tryCreateNotificationSignal(r)
           \/ CheckUser(r) \/ CheckTable(r) \/ resolveScheduleForDate(r)
           \/ \E q \in Queries : AnswerQuery(r, q)
           \/ TxStatus(r) \/ TxOverlap(r)
           \/ ConfirmConflict(r) \/ CancelNotice(r) \/ ReadStatus(r)
    PROVE  UNCHANGED <<bookings, history>>
  <1> USE DEF db, env
  <1>1. CASE Arrive(r)
    BY <1>1 DEF Arrive, createBookingRequest, adminMoveBooking, adminConfirmBooking,
                adminCancelBooking, cancelOwnBooking
  <1>2. CASE OwnerEdit \/ Tick
    BY <1>2 DEF OwnerEdit, SetBlocked, SetInactive, MoveTable, AddClosure, SetSchedule,
                updateBookingRules, Edit, Tick
  <1>3. CASE Abandon(r) \/ tryCreateNotificationSignal(r)
    BY <1>3 DEF Abandon, tryCreateNotificationSignal
  <1>4. CASE CheckUser(r) \/ CheckTable(r) \/ resolveScheduleForDate(r)
    BY <1>4 DEF CheckUser, CheckTable, resolveScheduleForDate
  <1>5. CASE (\E q \in Queries : AnswerQuery(r, q)) \/ TxStatus(r) \/ TxOverlap(r)
    BY <1>5 DEF AnswerQuery, TxStatus, TxOverlap
  <1>6. CASE ConfirmConflict(r) \/ CancelNotice(r) \/ ReadStatus(r)
    BY <1>6 DEF ConfirmConflict, CancelNotice, ReadStatus
  <1> QED BY <1>1, <1>2, <1>3, <1>4, <1>5, <1>6

(* The compare-and-set found its row. *)
Changed(r) ==
    /\ transitionBookingStatus(r)
    /\ StatusMatches(loc[r].booking, loc[r].from)

LEMMA RowsEffect ==
    ASSUME [Next]_vars
    PROVE  \/ UNCHANGED <<bookings, history>>
           \/ \E r \in Requests, b \in BookingIds : createPendingBooking(r, b)
           \/ \E r \in Requests : moveBookingForAdmin(r)
           \/ \E r \in Requests : Changed(r)
  <1>1. CASE UNCHANGED vars
    BY <1>1 DEF vars
  <1>2. ASSUME NEW r \in Requests, Continue(r),
               ~ UNCHANGED <<bookings, history>>,
               ~ \E b \in BookingIds : createPendingBooking(r, b),
               ~ moveBookingForAdmin(r)
        PROVE  Changed(r)
    <2>1. transitionBookingStatus(r)
      BY <1>2, ReadsKeepRows DEF Continue
    <2> QED BY <1>2, <2>1 DEF Changed, transitionBookingStatus
  <1>3. ASSUME NEW r \in Requests, Arrive(r) \/ Abandon(r) PROVE UNCHANGED <<bookings, history>>
    BY <1>3, ReadsKeepRows
  <1>4. CASE OwnerEdit \/ Tick
    BY <1>4 DEF OwnerEdit, SetBlocked, SetInactive, MoveTable, AddClosure, SetSchedule,
                updateBookingRules, Edit, Tick, db
  <1> QED BY <1>1, <1>2, <1>3, <1>4 DEF Next

(* The rows before and after each of the three writes. *)
LEMMA ChangedRow ==
    ASSUME Inv, NEW r \in Requests, Changed(r)
    PROVE  LET b == loc[r].booking
               to == Target(loc[r].op)
           IN  /\ b \in BookingIds
               /\ bookings[b] \in BookingRow
               /\ bookings[b].status = loc[r].from
               /\ isTransitionAllowed(loc[r].from, to)
               /\ bookings' = [bookings EXCEPT ![b] = [bookings[b] EXCEPT !.status = to]]
               /\ history' = [history EXCEPT ![b] = Append(@, [from |-> loc[r].from, to |-> to])]
  <1>1. pc[r] = "cas" /\ loc[r].op \in Transitions /\ Known(r)
    BY DEF Changed, transitionBookingStatus, Inv, CallsOK, StepOfOp
  <1>2. loc[r].booking \in BookingIds /\ bookings[loc[r].booking] \in BookingRow
    BY <1>1, BookingOfCall
  <1> QED BY <1>1, <1>2 DEF Changed, transitionBookingStatus, StatusMatches, Known, Inv, TypeOK

LEMMA MovedRow ==
    ASSUME Inv, NEW r \in Requests, moveBookingForAdmin(r)
    PROVE  LET b == loc[r].booking
           IN  /\ b \in BookingIds
               /\ bookings[b] \in BookingRow
               /\ loc[r].table \in Tables /\ loc[r].iv \in Intervals
               /\ bookings' = [bookings EXCEPT ![b] = [bookings[b] EXCEPT !.table = loc[r].table,
                                                                         !.iv = loc[r].iv]]
               /\ history' = [history EXCEPT ![b] = Append(@, [from |-> loc[r].from,
                                                               to |-> loc[r].from])]
  <1>1. loc[r].op = "move" /\ Known(r)
    BY DEF moveBookingForAdmin, Inv, CallsOK
  <1>2. loc[r].booking \in BookingIds /\ bookings[loc[r].booking] \in BookingRow
    BY <1>1, BookingOfCall
  <1> QED BY <1>1, <1>2 DEF moveBookingForAdmin, MoveRow, Known, Inv, TypeOK

LEMMA PlacedRow ==
    ASSUME Inv, NEW r \in Requests, NEW b \in BookingIds, createPendingBooking(r, b)
    PROVE  LET row == [user |-> loc[r].user, table |-> loc[r].table,
                       iv |-> loc[r].iv, status |-> "pending"]
           IN  /\ row \in BookingRow
               /\ bookings[b] = None
               /\ bookings' = [bookings EXCEPT ![b] = row]
               /\ history' = [history EXCEPT ![b] = Append(@, [from |-> None,
                                                               to |-> "pending"])]
  BY DEF createPendingBooking, NewRow, Inv, CallsOK, Known, BookingRow, Status,
         ActiveBookingStatuses

-----------------------------------------------------------------------------
(* In this step the status of b moves as isTransitionAllowed has it.       *)
Follows(b) ==
    bookings'[b] # bookings[b] =>
       IF bookings[b] = None
       THEN bookings'[b].status = "pending"
       ELSE /\ bookings'[b] # None
            /\ bookings'[b].user = bookings[b].user
            /\ \/ bookings'[b].status = bookings[b].status
               \/ isTransitionAllowed(bookings[b].status, bookings'[b].status)

LEMMA StatusStep ==
    ASSUME Inv, [Next]_vars, NEW b \in BookingIds
    PROVE  Follows(b)
  <1> USE DEF Follows
  <1>0. bookings \in [BookingIds -> BookingRow \cup {None}]
    BY DEF Inv, TypeOK
  <1>1. ASSUME NEW r \in Requests, NEW x \in BookingIds, createPendingBooking(r, x) PROVE Follows(b)
    <2> DEFINE row == [user |-> loc[r].user, table |-> loc[r].table,
                       iv |-> loc[r].iv, status |-> "pending"]
    <2>1. bookings' = [bookings EXCEPT ![x] = row] /\ bookings[x] = None
      BY <1>1, PlacedRow
    <2>2. CASE b = x
      <3>1. bookings'[b] = row
        BY <1>0, <2>1, <2>2
      <3> QED BY <2>1, <2>2, <3>1
    <2>3. CASE b # x
      BY <1>0, <2>1, <2>3
    <2> QED BY <2>2, <2>3
  <1>2. ASSUME NEW r \in Requests, moveBookingForAdmin(r) PROVE Follows(b)
    <2> DEFINE x == loc[r].booking
               row == [bookings[x] EXCEPT !.table = loc[r].table, !.iv = loc[r].iv]
    <2>1. bookings' = [bookings EXCEPT ![x] = row] /\ bookings[x] \in BookingRow
          /\ loc[r].table \in Tables /\ loc[r].iv \in Intervals
      BY <1>2, MovedRow
    <2>2. row \in BookingRow /\ row.user = bookings[x].user /\ row.status = bookings[x].status
      BY <2>1 DEF BookingRow
    <2> HIDE DEF row, x
    <2>3. CASE b = x
      BY <1>0, <2>1, <2>2, <2>3, NoneAssumption
    <2>4. CASE b # x
      BY <1>0, <2>1, <2>4
    <2> QED BY <2>3, <2>4
  <1>3. ASSUME NEW r \in Requests, Changed(r) PROVE Follows(b)
    <2> DEFINE x == loc[r].booking
               to == Target(loc[r].op)
               row == [bookings[x] EXCEPT !.status = to]
    <2>1. bookings' = [bookings EXCEPT ![x] = row] /\ bookings[x] \in BookingRow
          /\ isTransitionAllowed(bookings[x].status, to)
      BY <1>3, ChangedRow
    <2>2. row \in BookingRow /\ row.user = bookings[x].user /\ row.status = to
      BY <2>1 DEF BookingRow, isTransitionAllowed, Status, ActiveBookingStatuses
    <2> HIDE DEF row, x, to
    <2>3. CASE b = x
      BY <1>0, <2>1, <2>2, <2>3, NoneAssumption
    <2>4. CASE b # x
      BY <1>0, <2>1, <2>4
    <2> QED BY <2>3, <2>4
  <1> QED BY <1>1, <1>2, <1>3, RowsEffect

(***************************************************************************)
(* The status of a booking only moves along isTransitionAllowed, judged    *)
(* against its status at the commit, whatever else is in flight: the       *)
(* compare-and-set of transitionBookingStatus makes the status that was    *)
(* checked the status that is overwritten.                                 *)
(***************************************************************************)
THEOREM LifecycleKept == Spec => StatusFollowsLifecycle
  <1>1. Spec => []Inv
    BY InitInv, NextInv, PTL DEF Spec
  <1>2. Inv /\ [Next]_vars => [\A b \in BookingIds : Follows(b)]_vars
    BY StatusStep
  <1> QED BY <1>1, <1>2, PTL DEF Spec, StatusFollowsLifecycle, Follows

-----------------------------------------------------------------------------
(***************************************************************************)
(* The status history.  Only createPendingBooking, moveBookingForAdmin and *)
(* the compare-and-set write it, each one row in the transaction that      *)
(* writes the booking.                                                     *)
(***************************************************************************)
LEMMA AppendChanges ==
    ASSUME NEW rows \in Seq(HistoryRow), NEW h \in HistoryRow
    PROVE  LET n == Len(rows) IN
           /\ n \in Nat
           /\ Changes(rows) \subseteq 1 .. n
           /\ Len(Append(rows, h)) = n + 1
           /\ Append(rows, h) # <<>>
           /\ Append(rows, h)[n + 1] = h
           /\ \A i \in 1 .. n : Append(rows, h)[i] = rows[i]
           /\ Changes(Append(rows, h)) =
                IF h.from # h.to THEN Changes(rows) \cup {n + 1} ELSE Changes(rows)
  BY DEF Changes

(* The first row of a request. *)
LEMMA ExplainsFirst ==
    Explains(Append(<<>>, [from |-> None, to |-> "pending"]), "pending")
  <1> DEFINE h == [from |-> None, to |-> "pending"]
  <1>1. h \in HistoryRow /\ h.from # h.to /\ h.to = "pending"
    BY NoneAssumption DEF HistoryRow, Status, ActiveBookingStatuses
  <1>2. /\ Len(Append(<<>>, h)) = 1 /\ Append(<<>>, h) # <<>> /\ Append(<<>>, h)[1] = h
        /\ Changes(Append(<<>>, h)) = {1}
    BY <1>1 DEF Changes
  <1> HIDE DEF h
  <1>3. LastChangeBefore(Append(<<>>, h), 1, 2)
    BY <1>2 DEF LastChangeBefore
  <1>4. h = [from |-> None, to |-> "pending"]
    BY DEF h
  <1>5. Explains(Append(<<>>, h), "pending")
    BY <1>1, <1>2, <1>3, <1>4 DEF Explains
  <1> QED BY <1>4, <1>5

(* A row that records no change leaves the chain as it is. *)
LEMMA ExplainsMove ==
    ASSUME NEW rows \in Seq(HistoryRow), NEW h \in HistoryRow, h.from = h.to,
           NEW status, Explains(rows, status)
    PROVE  Explains(Append(rows, h), status)
  <1> DEFINE n == Len(rows)
             new == Append(rows, h)
  <1>1. /\ n \in Nat /\ Changes(rows) \subseteq 1 .. n /\ Len(new) = n + 1 /\ new # <<>>
        /\ \A i \in 1 .. n : new[i] = rows[i]
        /\ Changes(new) = Changes(rows)
    BY AppendChanges
  <1>2. 1 \in 1 .. n
    BY <1>1 DEF Explains
  <1> HIDE DEF new, n
  <1>3. ASSUME NEW i \in Changes(rows), NEW j \in Nat, LastChangeBefore(rows, i, j)
        PROVE  LastChangeBefore(new, i, j)
    BY <1>1, <1>3 DEF LastChangeBefore
  <1>4. \E i \in Changes(new) : LastChangeBefore(new, i, Len(new) + 1) /\ new[i].to = status
    <2>1. PICK i \in Changes(rows) : LastChangeBefore(rows, i, n + 1) /\ rows[i].to = status
      BY DEF Explains, n
    <2>2. LastChangeBefore(new, i, n + 2)
      BY <1>1, <2>1 DEF LastChangeBefore
    <2> QED BY <1>1, <2>1, <2>2
  <1>5. ASSUME NEW j \in Changes(new) \ {1}
        PROVE  /\ isTransitionAllowed(new[j].from, new[j].to)
               /\ \E i \in Changes(new) : LastChangeBefore(new, i, j) /\ new[i].to = new[j].from
    BY <1>1, <1>3 DEF Explains
  <1>6. new[1] = [from |-> None, to |-> "pending"]
    BY <1>1, <1>2 DEF Explains
  <1> QED BY <1>1, <1>4, <1>5, <1>6 DEF Explains, new

(* An allowed change extends the chain. *)
LEMMA ExplainsChange ==
    ASSUME NEW rows \in Seq(HistoryRow), NEW h \in HistoryRow,
           isTransitionAllowed(h.from, h.to), Explains(rows, h.from)
    PROVE  Explains(Append(rows, h), h.to)
  <1> DEFINE n == Len(rows)
             new == Append(rows, h)
  <1>0. h.from # h.to
    BY DEF isTransitionAllowed
  <1>1. /\ n \in Nat /\ Changes(rows) \subseteq 1 .. n /\ Len(new) = n + 1 /\ new # <<>>
        /\ new[n + 1] = h
        /\ \A i \in 1 .. n : new[i] = rows[i]
        /\ Changes(new) = Changes(rows) \cup {n + 1}
    BY <1>0, AppendChanges
  <1>2. 1 \in 1 .. n
    BY <1>1 DEF Explains
  <1> HIDE DEF new, n
  <1>3. \E i \in Changes(new) : LastChangeBefore(new, i, Len(new) + 1) /\ new[i].to = h.to
    <2>1. LastChangeBefore(new, n + 1, n + 2)
      BY <1>1 DEF LastChangeBefore
    <2> QED BY <1>1, <2>1
  <1>4. ASSUME NEW j \in Changes(new) \ {1}
        PROVE  /\ isTransitionAllowed(new[j].from, new[j].to)
               /\ \E i \in Changes(new) : LastChangeBefore(new, i, j) /\ new[i].to = new[j].from
    <2>1. CASE j = n + 1
      <3>1. PICK i \in Changes(rows) : LastChangeBefore(rows, i, n + 1) /\ rows[i].to = h.from
        BY DEF Explains, n
      <3>2. LastChangeBefore(new, i, j)
        BY <1>1, <2>1, <3>1 DEF LastChangeBefore
      <3> QED BY <1>1, <2>1, <3>1, <3>2
    <2>2. CASE j # n + 1
      <3>1. j \in Changes(rows) \ {1} /\ j \in 1 .. n
        BY <1>1, <2>2
      <3>2. PICK i \in Changes(rows) : LastChangeBefore(rows, i, j) /\ rows[i].to = rows[j].from
        BY <3>1 DEF Explains
      <3>3. LastChangeBefore(new, i, j)
        BY <1>1, <3>1, <3>2 DEF LastChangeBefore
      <3>4. isTransitionAllowed(rows[j].from, rows[j].to)
        BY <3>1 DEF Explains
      <3> QED BY <1>1, <3>1, <3>2, <3>3, <3>4
    <2> QED BY <2>1, <2>2
  <1>5. new[1] = [from |-> None, to |-> "pending"]
    BY <1>1, <1>2 DEF Explains
  <1> QED BY <1>1, <1>3, <1>4, <1>5 DEF Explains, new

ChainOf(b) ==
    IF bookings[b] = None
    THEN history[b] = <<>>
    ELSE Explains(history[b], bookings[b].status)

LEMMA ChainNext ==
    ASSUME Inv, \A b \in BookingIds : ChainOf(b), [Next]_vars, NEW x \in BookingIds
    PROVE  ChainOf(x)'
  <1>0. /\ bookings \in [BookingIds -> BookingRow \cup {None}]
        /\ history \in [BookingIds -> Seq(HistoryRow)]
    BY DEF Inv, TypeOK
  <1>1. CASE bookings'[x] = bookings[x] /\ history'[x] = history[x]
    BY <1>1 DEF ChainOf
  <1>2. ASSUME NEW r \in Requests, NEW b \in BookingIds, createPendingBooking(r, b)
        PROVE  ChainOf(x)'
    <2> DEFINE row == [user |-> loc[r].user, table |-> loc[r].table,
                       iv |-> loc[r].iv, status |-> "pending"]
               h == [from |-> None, to |-> "pending"]
    <2>1. /\ row \in BookingRow /\ bookings[b] = None
          /\ bookings' = [bookings EXCEPT ![b] = row]
          /\ history' = [history EXCEPT ![b] = Append(@, h)]
      BY <1>2, PlacedRow
    <2>2. row.status = "pending" /\ row # None
      BY <2>1, NoneAssumption
    <2>3. CASE b = x
      <3>1. bookings'[x] = row /\ history'[x] = Append(<<>>, h)
        BY <1>0, <2>1, <2>3 DEF ChainOf
      <3> QED BY <2>2, <3>1, ExplainsFirst DEF ChainOf
    <2>4. CASE b # x
      BY <1>0, <1>1, <2>1, <2>4
    <2> QED BY <2>3, <2>4
  <1>3. ASSUME NEW r \in Requests, moveBookingForAdmin(r)
        PROVE  ChainOf(x)'
    <2> DEFINE b == loc[r].booking
               row == [bookings[b] EXCEPT !.table = loc[r].table, !.iv = loc[r].iv]
               h == [from |-> loc[r].from, to |-> loc[r].from]
    <2>1. /\ b \in BookingIds /\ bookings[b] \in BookingRow
          /\ loc[r].table \in Tables /\ loc[r].iv \in Intervals
          /\ bookings' = [bookings EXCEPT ![b] = row]
          /\ history' = [history EXCEPT ![b] = Append(@, h)]
      BY <1>3, MovedRow
    <2>2. row \in BookingRow /\ row.status = bookings[b].status
      BY <2>1 DEF BookingRow
    <2>3. h \in HistoryRow /\ h.from = h.to
      BY <1>3 DEF moveBookingForAdmin, Inv, CallsOK, Known, HistoryRow, Status
    <2> HIDE DEF row, h, b
    <2>4. CASE b = x
      <3>1. bookings'[x] = row /\ history'[x] = Append(history[x], h) /\ row # None
            /\ bookings[x] # None
        BY <1>0, <2>1, <2>2, <2>4, NoneAssumption
      <3>2. Explains(Append(history[x], h), bookings[x].status)
        BY <1>0, <2>3, <3>1, ExplainsMove DEF ChainOf
      <3> QED BY <2>2, <2>4, <3>1, <3>2 DEF ChainOf
    <2>5. CASE b # x
      BY <1>0, <1>1, <2>1, <2>5
    <2> QED BY <2>4, <2>5
  <1>4. ASSUME NEW r \in Requests, Changed(r)
        PROVE  ChainOf(x)'
    <2> DEFINE b == loc[r].booking
               to == Target(loc[r].op)
               row == [bookings[b] EXCEPT !.status = to]
               h == [from |-> loc[r].from, to |-> to]
    <2>1. /\ b \in BookingIds /\ bookings[b] \in BookingRow
          /\ bookings[b].status = h.from /\ h.to = to
          /\ isTransitionAllowed(h.from, to)
          /\ bookings' = [bookings EXCEPT ![b] = row]
          /\ history' = [history EXCEPT ![b] = Append(@, h)]
      BY <1>4, ChangedRow
    <2>2. row \in BookingRow /\ row.status = to
      BY <2>1 DEF BookingRow, isTransitionAllowed, Status, ActiveBookingStatuses
    <2>3. h \in HistoryRow
      BY <2>1 DEF HistoryRow, isTransitionAllowed, Status, ActiveBookingStatuses, BookingRow
    <2> HIDE DEF row, h, b, to
    <2>4. CASE b = x
      <3>1. bookings'[x] = row /\ history'[x] = Append(history[x], h) /\ row # None
            /\ bookings[x] # None
        BY <1>0, <2>1, <2>2, <2>4, NoneAssumption
      <3>2. Explains(Append(history[x], h), h.to)
        BY <1>0, <2>1, <2>3, <2>4, <3>1, ExplainsChange DEF ChainOf
      <3> QED BY <2>1, <2>2, <3>1, <3>2 DEF ChainOf
    <2>5. CASE b # x
      BY <1>0, <1>1, <2>1, <2>5
    <2> QED BY <2>4, <2>5
  <1> QED BY <1>1, <1>2, <1>3, <1>4, RowsEffect

(* At every moment the history of a booking explains its status: a chain   *)
(* of allowed changes from the request to the status it has now.  Calls    *)
(* that lost a race have left no row that breaks it.                       *)
THEOREM HistoryExplainsStatus == Spec => []StatusHistoryChain
  <1>1. Init => StatusHistoryChain
    BY DEF Init, StatusHistoryChain
  <1>2. Inv /\ StatusHistoryChain /\ [Next]_vars => (Inv /\ StatusHistoryChain)'
    BY NextInv, ChainNext DEF StatusHistoryChain, ChainOf
  <1> QED BY <1>1, <1>2, InitInv, PTL DEF Spec

=============================================================================
