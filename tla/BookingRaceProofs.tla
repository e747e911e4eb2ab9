--------------------------- MODULE BookingRaceProofs ---------------------------
(***************************************************************************)
(* Proofs about what overlapping calls may do to each other.  No call is   *)
(* held back: each theorem says that nothing goes wrong but by a write     *)
(* that a call could not have seen.                                        *)
(***************************************************************************)
EXTENDS BookingRaces, BookingCallProofs, FiniteSetTheorems

-----------------------------------------------------------------------------
(* How far a call gets in one step: it has checked what it was to check.   *)
LEMMA ContinueFlow ==
    ASSUME Inv, NEW r \in Requests, Continue(r), pc'[r] # "idle"
    PROVE  \/ pc[r] = "user" /\ pc'[r] = "table"
           \/ pc[r] = "table" /\ pc'[r] = "schedule"
           \/ /\ pc[r] = "schedule" /\ pc'[r] = "queries"
              /\ loc'[r].op = "create" => "count" \in loc'[r].todo
           \/ /\ pc[r] = "queries" /\ UNCHANGED bookings
              /\ \E q \in loc[r].todo :
                   /\ ~ Refuses(q, loc[r])
                   /\ loc'[r].todo = loc[r].todo \ {q}
                   /\ pc'[r] = IF loc[r].todo # {q} THEN "queries"
                               ELSE IF loc[r].op = "create" THEN "txOverlap" ELSE "txStatus"
           \/ /\ pc[r] = "txStatus" /\ pc'[r] = "txOverlap" /\ UNCHANGED bookings
              /\ bookings[loc[r].booking].status = loc[r].from
           \/ /\ pc[r] = "txOverlap" /\ pc'[r] = "txWrite" /\ UNCHANGED bookings
              /\ ~ hasOverlappingActiveBooking(loc[r].table, loc[r].iv, loc[r].booking)
           \/ /\ pc[r] = "conflict" /\ pc'[r] = "status" /\ UNCHANGED bookings
              /\ ~ hasOverlappingConfirmedBooking(loc[r].table, loc[r].iv, loc[r].booking)
           \/ pc[r] = "rule" /\ pc'[r] = "status"
           \/ pc[r] = "status" /\ pc'[r] = "cas"
           \/ pc[r] \in {"txWrite", "cas"} /\ pc'[r] = "signal"
  <1>0. pc \in [Requests -> Steps] /\ loc \in [Requests -> Call]
    BY DEF Inv, TypeOK
  <1>r. ~ Reply(r)
    BY <1>0 DEF Reply, Enter, Goto
  <1>1. ASSUME CheckUser(r) PROVE pc[r] = "user" /\ pc'[r] = "table"
    BY <1>0, <1>r, <1>1 DEF CheckUser, Goto
  <1>2. ASSUME CheckTable(r) PROVE pc[r] = "table" /\ pc'[r] = "schedule"
    BY <1>0, <1>r, <1>2 DEF CheckTable, Enter, Goto
  <1>3. ASSUME resolveScheduleForDate(r)
        PROVE  /\ pc[r] = "schedule" /\ pc'[r] = "queries"
               /\ loc'[r].op = "create" => "count" \in loc'[r].todo
    <2> DEFINE todo == IF loc[r].op = "create" THEN Queries ELSE Queries \ {"count"}
    <2>1. /\ pc[r] = "schedule" /\ pc'[r] = "queries"
          /\ loc'[r] = [loc[r] EXCEPT !.todo = todo]
      BY <1>0, <1>r, <1>3 DEF resolveScheduleForDate, Enter, Goto
    <2>2. loc'[r].op = loc[r].op /\ loc'[r].todo = todo
      BY <1>0, <2>1 DEF Call
    <2> QED BY <2>1, <2>2 DEF Queries
  <1>4. ASSUME NEW q \in Queries, AnswerQuery(r, q)
        PROVE  /\ pc[r] = "queries" /\ UNCHANGED bookings
               /\ q \in loc[r].todo
               /\ ~ Refuses(q, loc[r])
               /\ loc'[r].todo = loc[r].todo \ {q}
               /\ pc'[r] = IF loc[r].todo # {q} THEN "queries"
                           ELSE IF loc[r].op = "create" THEN "txOverlap" ELSE "txStatus"
    <2>1. /\ pc[r] = "queries" /\ q \in loc[r].todo /\ UNCHANGED bookings
          /\ ~ Refuses(q, loc[r])
          /\ loc'[r] = [loc[r] EXCEPT !.todo = loc[r].todo \ {q}]
          /\ pc'[r] = IF loc[r].todo # {q} THEN "queries"
                      ELSE IF loc[r].op = "create" THEN "txOverlap" ELSE "txStatus"
      BY <1>0, <1>r, <1>4 DEF AnswerQuery, Goto, db
    <2>2. loc'[r].todo = loc[r].todo \ {q}
      BY <1>0, <2>1 DEF Call
    <2> QED BY <2>1, <2>2
  <1>5. ASSUME TxStatus(r)
        PROVE  /\ pc[r] = "txStatus" /\ pc'[r] = "txOverlap" /\ UNCHANGED bookings
               /\ bookings[loc[r].booking].status = loc[r].from
    BY <1>0, <1>r, <1>5 DEF TxStatus, Goto, db
  <1>6. ASSUME TxOverlap(r)
        PROVE  /\ pc[r] = "txOverlap" /\ pc'[r] = "txWrite" /\ UNCHANGED bookings
               /\ ~ hasOverlappingActiveBooking(loc[r].table, loc[r].iv, loc[r].booking)
    BY <1>0, <1>r, <1>6 DEF TxOverlap, Goto, db
  <1>7. ASSUME ConfirmConflict(r)
        PROVE  /\ pc[r] = "conflict" /\ pc'[r] = "status" /\ UNCHANGED bookings
               /\ ~ hasOverlappingConfirmedBooking(loc[r].table, loc[r].iv, loc[r].booking)
    BY <1>0, <1>r, <1>7 DEF ConfirmConflict, Goto, db
  <1>8. ASSUME CancelNotice(r) PROVE pc[r] = "rule" /\ pc'[r] = "status"
    BY <1>0, <1>r, <1>8 DEF CancelNotice, Enter, Goto
  <1>9. ASSUME ReadStatus(r) PROVE pc[r] = "status" /\ pc'[r] = "cas"
    BY <1>0, <1>r, <1>9 DEF ReadStatus, Enter, Goto
  <1>10. ASSUME moveBookingForAdmin(r) PROVE pc[r] = "txWrite" /\ pc'[r] = "signal"
    BY <1>0, <1>10 DEF moveBookingForAdmin, Goto
  <1>11. ASSUME transitionBookingStatus(r) PROVE pc[r] = "cas" /\ pc'[r] = "signal"
    BY <1>0, <1>r, <1>11 DEF transitionBookingStatus, Goto
  <1>12. ~ tryCreateNotificationSignal(r) /\ ~ \E b \in BookingIds : createPendingBooking(r, b)
    BY <1>r DEF tryCreateNotificationSignal, createPendingBooking
  <1> QED BY <1>1, <1>2, <1>3, <1>4, <1>5, <1>6, <1>7, <1>8, <1>9, <1>10, <1>11, <1>12
          DEF Continue

(* A call on its way stays the call it is. *)
LEMMA ContinueSame ==
    ASSUME Inv, Inv', NEW r \in Requests, Continue(r), pc'[r] # "idle"
    PROVE  SameCall(r)
  <1>1. loc'[r].op # None
    BY DEF Inv, CallsOK, StepOfOp
  <1>2. loc'[r] # NoCall
    BY <1>1 DEF NoCall
  <1>3. pc[r] # "idle"
    BY ContinueFlow
  <1>4. ~ Arrive(r)
    BY <1>3 DEF Arrive, createBookingRequest, adminMoveBooking, adminConfirmBooking,
                adminCancelBooking, cancelOwnBooking
  <1>5. Next
    BY DEF Next
  <1> QED BY <1>2, <1>4, <1>5, CallKept

(* What a call sees of a step: its own, or that it stays where it is. *)
LEMMA StepOrStay ==
    ASSUME Inv, [Next]_vars, NEW r \in Requests
    PROVE  \/ pc'[r] = pc[r] /\ loc'[r] = loc[r]
           \/ Arrive(r) \/ Continue(r)
           \/ pc'[r] = "idle"
  <1>1. ASSUME NEW q \in Requests, q # r, Arrive(q) \/ Continue(q) \/ Abandon(q)
        PROVE  pc'[r] = pc[r] /\ loc'[r] = loc[r]
    BY <1>1, CallAlone DEF Alone
  <1>2. ASSUME Abandon(r) PROVE pc'[r] = "idle"
    BY <1>2 DEF Abandon, Reply, Enter, Goto, Inv, TypeOK
  <1>3. ASSUME OwnerEdit \/ Tick PROVE pc'[r] = pc[r] /\ loc'[r] = loc[r]
    BY <1>3, EditEffect
  <1>4. ASSUME UNCHANGED vars PROVE pc'[r] = pc[r] /\ loc'[r] = loc[r]
    BY <1>4 DEF vars
  <1> QED BY <1>1, <1>2, <1>3, <1>4 DEF Next

-----------------------------------------------------------------------------
(***************************************************************************)
(* What a step writes.  A booking without a new history row is as it was.  *)
(***************************************************************************)
LEMMA Longer ==
    ASSUME NEW rows \in Seq(HistoryRow), NEW h
    PROVE  Append(rows, h) # rows
  <1>1. Len(Append(rows, h)) = Len(rows) + 1 /\ Len(rows) \in Nat
    OBVIOUS
  <1> QED BY <1>1

(* Each of the three commits writes one booking, and its history. *)
LEMMA WritesOne ==
    ASSUME Inv, [Next]_vars
    PROVE  \/ UNCHANGED bookings /\ Written = {}
           \/ \E r \in Requests, b \in BookingIds :
                /\ createPendingBooking(r, b) \/ (b = loc[r].booking
                                                  /\ (moveBookingForAdmin(r) \/ Changed(r)))
                /\ Written = {b}
                /\ \A a \in BookingIds \ {b} : bookings'[a] = bookings[a]
  <1>0. /\ bookings \in [BookingIds -> BookingRow \cup {None}]
        /\ history \in [BookingIds -> Seq(HistoryRow)]
    BY DEF Inv, TypeOK
  <1>1. CASE UNCHANGED <<bookings, history>>
    BY <1>1 DEF Written
  <1>2. ASSUME NEW b \in BookingIds, NEW row, NEW h,
               bookings' = [bookings EXCEPT ![b] = row],
               history' = [history EXCEPT ![b] = Append(@, h)]
        PROVE  /\ Written = {b}
               /\ \A a \in BookingIds \ {b} : bookings'[a] = bookings[a]
    <2>1. history'[b] = Append(history[b], h) /\ history[b] \in Seq(HistoryRow)
      BY <1>0, <1>2
    <2>2. history'[b] # history[b]
      BY <2>1, Longer
    <2>3. \A a \in BookingIds \ {b} : bookings'[a] = bookings[a] /\ history'[a] = history[a]
      BY <1>0, <1>2
    <2> QED BY <2>2, <2>3 DEF Written
  <1>3. ASSUME NEW r \in Requests, NEW b \in BookingIds, createPendingBooking(r, b)
        PROVE  Written = {b} /\ \A a \in BookingIds \ {b} : bookings'[a] = bookings[a]
    BY <1>2, <1>3, PlacedRow
  <1>4. ASSUME NEW r \in Requests, moveBookingForAdmin(r)
        PROVE  /\ loc[r].booking \in BookingIds /\ Written = {loc[r].booking}
               /\ \A a \in BookingIds \ {loc[r].booking} : bookings'[a] = bookings[a]
    <2> DEFINE b == loc[r].booking
               row == [bookings[b] EXCEPT !.table = loc[r].table, !.iv = loc[r].iv]
               h == [from |-> loc[r].from, to |-> loc[r].from]
    <2>1. /\ b \in BookingIds
          /\ bookings' = [bookings EXCEPT ![b] = row]
          /\ history' = [history EXCEPT ![b] = Append(@, h)]
      BY <1>4, MovedRow
    <2> HIDE DEF row, h, b
    <2>2. Written = {b} /\ \A a \in BookingIds \ {b} : bookings'[a] = bookings[a]
      BY <1>2, <2>1
    <2> QED BY <2>1, <2>2 DEF b
  <1>5. ASSUME NEW r \in Requests, Changed(r)
        PROVE  /\ loc[r].booking \in BookingIds /\ Written = {loc[r].booking}
               /\ \A a \in BookingIds \ {loc[r].booking} : bookings'[a] = bookings[a]
    BY <1>2, <1>5, ChangedRow
  <1> QED BY <1>1, <1>3, <1>4, <1>5, RowsEffect

LEMMA UnwrittenStays ==
    ASSUME Inv, [Next]_vars, NEW b \in BookingIds \ Written
    PROVE  bookings'[b] = bookings[b]
  BY WritesOne

-----------------------------------------------------------------------------
(***************************************************************************)
(* What a call has seen is still so of every booking that was not written  *)
(* since: this invariant is the whole argument.                            *)
(***************************************************************************)
OwnSeen(r) ==
    Relies(r, "own") /\ loc[r].booking \notin missed[r]["own"] =>
        IF loc[r].op = "move"
        THEN bookings[loc[r].booking].status = loc[r].from
        ELSE /\ bookings[loc[r].booking].table = loc[r].table
             /\ bookings[loc[r].booking].iv = loc[r].iv

(* A confirmation looks for confirmed bookings, a placement for active ones. *)
LooksFor(op, row) == IF op = "confirm" THEN row # None /\ row.status = "confirmed" ELSE IsActive(row)

OthersSeen(r) ==
    Relies(r, "others") =>
        \A a \in BookingIds \ missed[r]["others"] :
            a # loc[r].booking /\ LooksFor(loc[r].op, bookings[a]) =>
                ~ Conflicts(bookings[a], loc[r].table, loc[r].iv)

CountSeen(r) ==
    Relies(r, "count") =>
        Cardinality(ActiveBookingsOf(loc[r].user) \ missed[r]["count"])
          < resolveActiveBookingLimit(loc[r].rule.maxActive)

RaceInv ==
    /\ Inv
    /\ missed \in [Requests -> [Looks -> SUBSET BookingIds]]
    /\ \A r \in Requests : OwnSeen(r) /\ OthersSeen(r) /\ CountSeen(r)

LEMMA ArriveFlow ==
    ASSUME Inv, NEW r \in Requests, Arrive(r)
    PROVE  /\ pc[r] = "idle" /\ UNCHANGED bookings
           /\ \/ pc'[r] \in {"user", "table", "rule"}
              \/ pc'[r] = "status" /\ loc'[r].op = "adminCancel"
              \/ /\ pc'[r] = "conflict" /\ loc'[r].op = "confirm"
                 /\ bookings[loc'[r].booking].table = loc'[r].table
                 /\ bookings[loc'[r].booking].iv = loc'[r].iv
  <1>0. pc \in [Requests -> Steps] /\ loc \in [Requests -> Call]
    BY DEF Inv, TypeOK
  <1>1. ASSUME NEW u \in Users, NEW t \in Tables, NEW iv \in Intervals,
               createBookingRequest(r, u, t, iv)
        PROVE  pc[r] = "idle" /\ UNCHANGED bookings /\ pc'[r] = "user"
    BY <1>0, <1>1 DEF createBookingRequest, Enter, Goto, db
  <1>2. ASSUME NEW b \in BookingIds, NEW t \in Tables, NEW iv \in Intervals,
               adminMoveBooking(r, b, t, iv)
        PROVE  pc[r] = "idle" /\ UNCHANGED bookings /\ pc'[r] = "table"
    BY <1>0, <1>2 DEF adminMoveBooking, Enter, Goto, db
  <1>3. ASSUME NEW b \in BookingIds, adminConfirmBooking(r, b)
        PROVE  /\ pc[r] = "idle" /\ UNCHANGED bookings
               /\ pc'[r] = "conflict" /\ loc'[r].op = "confirm"
               /\ bookings[loc'[r].booking].table = loc'[r].table
               /\ bookings[loc'[r].booking].iv = loc'[r].iv
    <2>1. /\ loc'[r].op = "confirm" /\ loc'[r].booking = b
          /\ loc'[r].table = bookings[b].table /\ loc'[r].iv = bookings[b].iv
      BY <1>0, <1>3 DEF adminConfirmBooking, Enter, NoCall
    <2> QED BY <1>0, <1>3, <2>1 DEF adminConfirmBooking, Enter, Goto, db
  <1>4. ASSUME NEW b \in BookingIds, adminCancelBooking(r, b)
        PROVE  /\ pc[r] = "idle" /\ UNCHANGED bookings
               /\ pc'[r] = "status" /\ loc'[r].op = "adminCancel"
    <2>1. loc'[r].op = "adminCancel"
      BY <1>0, <1>4 DEF adminCancelBooking, Enter, NoCall
    <2> QED BY <1>0, <1>4, <2>1 DEF adminCancelBooking, Enter, Goto, db
  <1>5. ASSUME NEW b \in BookingIds, NEW u \in Users, cancelOwnBooking(r, u, b)
        PROVE  pc[r] = "idle" /\ UNCHANGED bookings /\ pc'[r] = "rule"
    BY <1>0, <1>5 DEF cancelOwnBooking, Enter, Goto, db
  <1> QED BY <1>1, <1>2, <1>3, <1>4, <1>5 DEF Arrive

(* A call relies on a look that it relied on before, or has just taken it. *)
LEMMA AtOwn ==
    ASSUME Inv, Inv', [Next]_vars, NEW r \in Requests, Relies(r, "own")'
    PROVE  \/ Relies(r, "own") /\ SameCall(r)
           \/ /\ ~ Relies(r, "own") /\ UNCHANGED bookings
              /\ IF loc'[r].op = "move"
                 THEN bookings[loc'[r].booking].status = loc'[r].from
                 ELSE /\ bookings[loc'[r].booking].table = loc'[r].table
                      /\ bookings[loc'[r].booking].iv = loc'[r].iv
  <1>1. CASE pc'[r] = pc[r] /\ loc'[r] = loc[r]
    BY <1>1 DEF Relies, SameCall
  <1>2. CASE Arrive(r)
    BY <1>2, ArriveFlow DEF Relies
  <1>3. CASE Continue(r)
    <2>1. pc'[r] # "idle"
      BY DEF Relies
    <2>2. SameCall(r) /\ StepOfOp(r) /\ loc'[r].op = loc[r].op
      BY <1>3, <2>1, ContinueSame DEF SameCall, Inv, CallsOK
    <2>3. CASE loc[r].op = "move"
      <3>1. pc'[r] \in {"txOverlap", "txWrite"}
        BY <2>2, <2>3 DEF Relies
      <3>2. \/ pc[r] = "txOverlap"
            \/ /\ pc[r] = "txStatus" /\ UNCHANGED bookings
               /\ bookings[loc[r].booking].status = loc[r].from
        BY <1>3, <2>1, <2>3, <3>1, ContinueFlow
      <3> QED BY <2>2, <2>3, <3>2 DEF Relies, SameCall
    <2>4. CASE loc[r].op = "confirm"
      <3>1. pc'[r] \in {"conflict", "status", "cas"}
        BY <2>2, <2>4 DEF Relies
      <3>2. pc[r] \in {"conflict", "status"}
        BY <1>3, <2>1, <2>2, <2>4, <3>1, ContinueFlow DEF StepOfOp
      <3> QED BY <2>2, <2>4, <3>2 DEF Relies
    <2> QED BY <2>2, <2>3, <2>4 DEF Relies
  <1>4. pc'[r] # "idle"
    BY DEF Relies
  <1> QED BY <1>1, <1>2, <1>3, <1>4, StepOrStay

LEMMA AtOthers ==
    ASSUME Inv, Inv', [Next]_vars, NEW r \in Requests, Relies(r, "others")'
    PROVE  \/ Relies(r, "others") /\ SameCall(r)
           \/ /\ ~ Relies(r, "others") /\ UNCHANGED bookings
              /\ \A a \in BookingIds :
                   a # loc'[r].booking /\ LooksFor(loc'[r].op, bookings[a]) =>
                     ~ Conflicts(bookings[a], loc'[r].table, loc'[r].iv)
  <1>1. CASE pc'[r] = pc[r] /\ loc'[r] = loc[r]
    BY <1>1 DEF Relies, SameCall
  <1>2. CASE Arrive(r)
    BY <1>2, ArriveFlow DEF Relies
  <1>3. CASE Continue(r)
    <2>1. pc'[r] # "idle"
      BY DEF Relies
    <2>2. /\ SameCall(r) /\ StepOfOp(r) /\ loc'[r].op = loc[r].op
          /\ loc'[r].booking = loc[r].booking /\ loc'[r].table = loc[r].table
          /\ loc'[r].iv = loc[r].iv
      BY <1>3, <2>1, ContinueSame DEF SameCall, Inv, CallsOK
    <2>3. CASE pc'[r] = "txWrite"
      <3>1. /\ pc[r] = "txOverlap" /\ UNCHANGED bookings
            /\ ~ hasOverlappingActiveBooking(loc[r].table, loc[r].iv, loc[r].booking)
        BY <1>3, <2>1, <2>3, ContinueFlow
      <3>2. loc[r].op \in {"create", "move"}
        BY <2>2, <3>1 DEF StepOfOp
      <3>3. \A a \in BookingIds :
                a # loc[r].booking /\ LooksFor(loc[r].op, bookings[a]) =>
                  ~ Conflicts(bookings[a], loc[r].table, loc[r].iv)
        BY <3>1, <3>2 DEF LooksFor, hasOverlappingActiveBooking, Stored, IsActive
      <3> QED BY <2>2, <3>1, <3>2, <3>3 DEF Relies
    <2>4. CASE loc'[r].op = "confirm" /\ pc'[r] = "cas"
      <3>1. pc[r] = "status"
        BY <1>3, <2>1, <2>4, ContinueFlow
      <3> QED BY <2>2, <2>4, <3>1 DEF Relies
    <2>5. CASE loc'[r].op = "confirm" /\ pc'[r] = "status"
      <3>1. /\ pc[r] = "conflict" /\ UNCHANGED bookings
            /\ ~ hasOverlappingConfirmedBooking(loc[r].table, loc[r].iv, loc[r].booking)
        BY <1>3, <2>1, <2>2, <2>5, ContinueFlow DEF StepOfOp
      <3>2. \A a \in BookingIds :
                a # loc[r].booking /\ LooksFor(loc[r].op, bookings[a]) =>
                  ~ Conflicts(bookings[a], loc[r].table, loc[r].iv)
        BY <2>2, <2>5, <3>1 DEF LooksFor, hasOverlappingConfirmedBooking, Stored
      <3> QED BY <2>2, <3>1, <3>2 DEF Relies
    <2> QED BY <2>3, <2>4, <2>5 DEF Relies
  <1>4. pc'[r] # "idle"
    BY DEF Relies
  <1> QED BY <1>1, <1>2, <1>3, <1>4, StepOrStay

LEMMA AtCount ==
    ASSUME Inv, Inv', [Next]_vars, NEW r \in Requests, Relies(r, "count")'
    PROVE  /\ SameCall(r) /\ loc[r].op = "create"
           /\ \/ Relies(r, "count")
              \/ ~ Relies(r, "count") /\ UNCHANGED bookings /\ ~ LimitReached(loc[r])
  <1>1. CASE pc'[r] = pc[r] /\ loc'[r] = loc[r]
    BY <1>1 DEF Relies, SameCall
  <1>2. CASE Arrive(r)
    BY <1>2, ArriveFlow DEF Relies
  <1>3. CASE Continue(r)
    <2>1. pc'[r] # "idle"
      BY DEF Relies
    <2>2. SameCall(r) /\ StepOfOp(r) /\ loc[r].op = "create" /\ loc'[r].op = "create"
      BY <1>3, <2>1, ContinueSame DEF SameCall, Inv, CallsOK, Relies
    <2>3. CASE pc[r] = "queries"
      <3>1. PICK q \in loc[r].todo :
               /\ UNCHANGED bookings
               /\ ~ Refuses(q, loc[r])
               /\ loc'[r].todo = loc[r].todo \ {q}
               /\ pc'[r] = IF loc[r].todo # {q} THEN "queries" ELSE "txOverlap"
        BY <1>3, <2>1, <2>2, <2>3, ContinueFlow
      <3>2. CASE "count" \notin loc[r].todo
        BY <2>2, <2>3, <3>2 DEF Relies
      <3>3. CASE "count" \in loc[r].todo
        <4>1. q = "count"
          BY <3>1, <3>3 DEF Relies
        <4>2. ~ LimitReached(loc[r])
          BY <3>1, <4>1 DEF Refuses
        <4> QED BY <2>2, <2>3, <3>1, <3>3, <4>2 DEF Relies
      <3> QED BY <3>2, <3>3
    <2>4. CASE pc[r] = "txOverlap"
      BY <2>2, <2>4 DEF Relies
    <2>5. CASE pc[r] \notin {"queries", "txOverlap"}
      <3>1. \/ pc'[r] = "queries" /\ "count" \notin loc'[r].todo
            \/ pc'[r] \in {"txOverlap", "txWrite"}
        BY DEF Relies
      <3> QED BY <1>3, <2>1, <2>2, <2>5, <3>1, ContinueFlow DEF StepOfOp
    <2> QED BY <2>3, <2>4, <2>5
  <1>4. pc'[r] # "idle"
    BY DEF Relies
  <1> QED BY <1>1, <1>2, <1>3, <1>4, StepOrStay


LEMMA WatchMissed ==
    ASSUME Watch, NEW r \in Requests, NEW look \in Looks
    PROVE  missed'[r][look] = IF Relies(r, look) /\ Relies(r, look)'
                              THEN missed[r][look] \cup Written ELSE {}
  BY DEF Watch

LEMMA CountSubset ==
    ASSUME NEW S, NEW T, S \subseteq T, T \subseteq BookingIds, NEW n \in Nat, Cardinality(T) < n
    PROVE  Cardinality(S) < n
  <1>1. IsFiniteSet(T)
    BY ConstantsAssumption, FS_Subset
  <1>2. IsFiniteSet(S) /\ Cardinality(S) <= Cardinality(T)
    BY <1>1, FS_Subset
  <1>3. Cardinality(S) \in Nat /\ Cardinality(T) \in Nat
    BY <1>1, <1>2, FS_CardinalityType
  <1> QED BY <1>2, <1>3

LEMMA LimitNat ==
    ASSUME Inv, NEW r \in Requests, loc[r].op = "create"
    PROVE  /\ resolveActiveBookingLimit(loc[r].rule.maxActive) \in Nat
           /\ resolveActiveBookingLimit(loc[r].rule.maxActive) = Limit(loc[r].rule)
  <1>1. loc[r].rule \in Rules
    BY DEF Inv, CallsOK, Known
  <1>2. loc[r].rule.maxActive \in Nat /\ DefaultLimit \in Nat
    BY <1>1, ConstantsAssumption
  <1> QED BY <1>2 DEF resolveActiveBookingLimit, Limit

LEMMA OwnNext ==
    ASSUME RaceInv, Inv', RaceNext, NEW r \in Requests
    PROVE  OwnSeen(r)'
  <1>0. Inv /\ [Next]_vars /\ Watch /\ OwnSeen(r)
    BY DEF RaceInv, RaceNext
  <1> SUFFICES ASSUME Relies(r, "own")', loc'[r].booking \notin missed'[r]["own"]
               PROVE  IF loc'[r].op = "move"
                      THEN bookings'[loc'[r].booking].status = loc'[r].from
                      ELSE /\ bookings'[loc'[r].booking].table = loc'[r].table
                           /\ bookings'[loc'[r].booking].iv = loc'[r].iv
    BY DEF OwnSeen
  <1>1. CASE Relies(r, "own") /\ SameCall(r)
    <2>1. missed'[r]["own"] = missed[r]["own"] \cup Written
      BY <1>0, <1>1, WatchMissed DEF Looks
    <2>2. /\ loc'[r].op = loc[r].op /\ loc'[r].booking = loc[r].booking
          /\ loc'[r].table = loc[r].table /\ loc'[r].iv = loc[r].iv
          /\ loc[r].op = "move" => loc'[r].from = loc[r].from
      BY <1>1 DEF SameCall
    <2>3. loc[r].booking \in BookingIds
      BY <1>0, <1>1 DEF Relies, Inv, CallsOK, Known, Transitions
    <2>4. bookings'[loc[r].booking] = bookings[loc[r].booking]
      BY <1>0, <2>1, <2>2, <2>3, UnwrittenStays
    <2> QED BY <1>0, <1>1, <2>1, <2>2, <2>4 DEF OwnSeen
  <1>2. CASE ~ (Relies(r, "own") /\ SameCall(r))
    BY <1>0, <1>2, AtOwn
  <1> QED BY <1>1, <1>2

LEMMA OthersNext ==
    ASSUME RaceInv, Inv', RaceNext, NEW r \in Requests
    PROVE  OthersSeen(r)'
  <1>0. Inv /\ [Next]_vars /\ Watch /\ OthersSeen(r)
    BY DEF RaceInv, RaceNext
  <1> SUFFICES ASSUME Relies(r, "others")', NEW a \in BookingIds \ missed'[r]["others"],
                      a # loc'[r].booking, LooksFor(loc'[r].op, bookings'[a])
               PROVE  ~ Conflicts(bookings'[a], loc'[r].table, loc'[r].iv)
    BY DEF OthersSeen, LooksFor, IsActive, Conflicts
  <1>1. CASE Relies(r, "others") /\ SameCall(r)
    <2>1. missed'[r]["others"] = missed[r]["others"] \cup Written
      BY <1>0, <1>1, WatchMissed DEF Looks
    <2>2. /\ loc'[r].op = loc[r].op /\ loc'[r].booking = loc[r].booking
          /\ loc'[r].table = loc[r].table /\ loc'[r].iv = loc[r].iv
      BY <1>1 DEF SameCall
    <2>3. bookings'[a] = bookings[a]
      BY <1>0, <2>1, UnwrittenStays
    <2> QED BY <1>0, <1>1, <2>1, <2>2, <2>3 DEF OthersSeen
  <1>2. CASE ~ (Relies(r, "others") /\ SameCall(r))
    BY <1>0, <1>2, AtOthers
  <1> QED BY <1>1, <1>2

LEMMA CountNext ==
    ASSUME RaceInv, Inv', RaceNext, NEW r \in Requests
    PROVE  CountSeen(r)'
  <1>0. Inv /\ [Next]_vars /\ Watch /\ CountSeen(r)
    BY DEF RaceInv, RaceNext
  <1> SUFFICES ASSUME Relies(r, "count")', NEW u, u = loc'[r].user
               PROVE  Cardinality({b \in BookingIds : /\ bookings'[b] # None
                                                      /\ IsActive(bookings'[b])
                                                      /\ bookings'[b].user = u}
                                    \ missed'[r]["count"])
                        < resolveActiveBookingLimit(loc'[r].rule.maxActive)
    BY DEF CountSeen, ActiveBookingsOf, Stored, IsActive
  <1> DEFINE n == resolveActiveBookingLimit(loc[r].rule.maxActive)
             old == ActiveBookingsOf(u)
             new == {b \in BookingIds : /\ bookings'[b] # None
                                        /\ IsActive(bookings'[b])
                                        /\ bookings'[b].user = u}
  <1>1. SameCall(r) /\ loc[r].op = "create"
    BY <1>0, AtCount
  <1>2. loc'[r].user = loc[r].user /\ loc'[r].rule = loc[r].rule
    BY <1>1 DEF SameCall
  <1>3. n \in Nat
    BY <1>0, <1>1, LimitNat
  <1>4. old \subseteq BookingIds
    BY DEF ActiveBookingsOf, Stored
  <1>5. CASE Relies(r, "count")
    <2>1. missed'[r]["count"] = missed[r]["count"] \cup Written
      BY <1>0, <1>5, WatchMissed DEF Looks
    <2>2. \A b \in BookingIds \ Written : bookings'[b] = bookings[b]
      BY <1>0, UnwrittenStays
    <2>3. new \ missed'[r]["count"] \subseteq old \ missed[r]["count"]
      BY <2>1, <2>2 DEF ActiveBookingsOf, Stored
    <2>4. Cardinality(old \ missed[r]["count"]) < n
      BY <1>0, <1>2, <1>5 DEF CountSeen
    <2> HIDE DEF n, old, new
    <2>5. Cardinality(new \ missed'[r]["count"]) < n
      BY <1>3, <1>4, <2>3, <2>4, CountSubset
    <2> QED BY <1>2, <2>5 DEF n, new
  <1>6. CASE ~ Relies(r, "count")
    <2>1. UNCHANGED bookings /\ ~ LimitReached(loc[r])
      BY <1>0, <1>6, AtCount
    <2>2. new \ missed'[r]["count"] \subseteq old
      BY <2>1 DEF ActiveBookingsOf, Stored
    <2>3. ~ Cardinality(old) >= n
      BY <1>2, <2>1 DEF LimitReached
    <2>4. Cardinality(old) \in Nat
      BY <1>4, ConstantsAssumption, FS_Subset, FS_CardinalityType
    <2> HIDE DEF n, old, new
    <2>5. Cardinality(old) < n
      BY <1>3, <2>3, <2>4
    <2>6. Cardinality(new \ missed'[r]["count"]) < n
      BY <1>3, <1>4, <2>2, <2>5, CountSubset
    <2> QED BY <1>2, <2>6 DEF n, new
  <1> QED BY <1>5, <1>6

LEMMA RaceInvNext == RaceInv /\ [RaceNext]_raceVars => RaceInv'
  <1>1. ASSUME RaceInv, RaceNext PROVE RaceInv'
    <2>1. Inv'
      BY <1>1, NextInv DEF RaceInv, RaceNext
    <2>2. missed' \in [Requests -> [Looks -> SUBSET BookingIds]]
      <3>1. Written \subseteq BookingIds
        BY DEF Written
      <3> QED BY <1>1, <3>1 DEF RaceInv, RaceNext, Watch
    <2> QED BY <1>1, <2>1, <2>2, OwnNext, OthersNext, CountNext DEF RaceInv
  <1>2. ASSUME RaceInv, UNCHANGED raceVars PROVE RaceInv'
    <2>1. Inv' /\ UNCHANGED <<bookings, pc, loc, missed>>
      BY <1>2, NextInv DEF raceVars, vars, RaceInv
    <2>2. missed' \in [Requests -> [Looks -> SUBSET BookingIds]]
      BY <1>2, <2>1 DEF RaceInv
    <2>3. ASSUME NEW r \in Requests PROVE OwnSeen(r)' /\ OthersSeen(r)' /\ CountSeen(r)'
      <3>1. \A look \in Looks : Relies(r, look)' <=> Relies(r, look)
        BY <2>1 DEF Relies
      <3>2. "own" \in Looks /\ "others" \in Looks /\ "count" \in Looks
        BY DEF Looks
      <3>3. OwnSeen(r) /\ OthersSeen(r) /\ CountSeen(r)
        BY <1>2 DEF RaceInv
      <3>4. OwnSeen(r)'
        BY <2>1, <3>1, <3>2, <3>3 DEF OwnSeen
      <3>5. OthersSeen(r)'
        BY <2>1, <3>1, <3>2, <3>3 DEF OthersSeen, LooksFor, IsActive, Conflicts
      <3>6. CountSeen(r)'
        BY <2>1, <3>1, <3>2, <3>3 DEF CountSeen, ActiveBookingsOf, Stored, IsActive
      <3> QED BY <3>4, <3>5, <3>6
    <2> QED BY <2>1, <2>2, <2>3 DEF RaceInv
  <1> QED BY <1>1, <1>2

LEMMA RaceInvInit == RaceInit => RaceInv
  <1> SUFFICES ASSUME RaceInit PROVE RaceInv
    OBVIOUS
  <1>1. Inv /\ \A r \in Requests : pc[r] = "idle" /\ loc[r].op = None
    BY InitInv DEF RaceInit, Init, NoCall
  <1>2. \A r \in Requests : ~ Relies(r, "own") /\ ~ Relies(r, "others") /\ ~ Relies(r, "count")
    BY <1>1 DEF Relies
  <1>3. missed \in [Requests -> [Looks -> SUBSET BookingIds]]
    BY DEF RaceInit
  <1> QED BY <1>1, <1>2, <1>3 DEF RaceInv, OwnSeen, OthersSeen, CountSeen


-----------------------------------------------------------------------------
(* Two bookings of one table *)

LEMMA OverlapSymmetric ==
    ASSUME NEW a \in Intervals, NEW b \in Intervals
    PROVE  rangesOverlap(a, b) <=> rangesOverlap(b, a)
  BY ConstantsAssumption DEF rangesOverlap

LEMMA ClashSymmetric ==
    ASSUME NEW x \in BookingRow, NEW y \in BookingRow
    PROVE  Conflicts(x, y.table, y.iv) <=> Conflicts(y, x.table, x.iv)
  BY OverlapSymmetric DEF Conflicts, BookingRow

(* A commit of a placement: where the booking is now. *)
LEMMA PlacementRow ==
    ASSUME Inv, NEW r \in Requests, NEW x \in BookingIds,
           createPendingBooking(r, x) \/ (x = loc[r].booking /\ moveBookingForAdmin(r))
    PROVE  /\ bookings'[x] \in BookingRow
           /\ bookings'[x].table = loc[r].table /\ bookings'[x].iv = loc[r].iv
           /\ pc[r] = "txWrite" /\ pc'[r] # "txWrite" /\ loc[r].op \in {"create", "move"}
           /\ loc[r].booking \in {x, None}
           /\ loc[r].op = "create" => bookings'[x].status = "pending" /\ bookings[x] = None
           /\ loc[r].op = "move" =>
                /\ loc[r].booking = x /\ loc[r].from \in ActiveBookingStatuses
                /\ bookings[x] \in BookingRow /\ bookings'[x].status = bookings[x].status
                /\ history'[x] = Append(history[x], [from |-> loc[r].from, to |-> loc[r].from])
  <1>0. /\ bookings \in [BookingIds -> BookingRow \cup {None}]
        /\ history \in [BookingIds -> Seq(HistoryRow)] /\ pc \in [Requests -> Steps]
    BY DEF Inv, TypeOK
  <1>1. CASE createPendingBooking(r, x)
    <2> DEFINE row == [user |-> loc[r].user, table |-> loc[r].table,
                       iv |-> loc[r].iv, status |-> "pending"]
    <2>1. row \in BookingRow /\ bookings[x] = None /\ bookings' = [bookings EXCEPT ![x] = row]
      BY <1>1, PlacedRow
    <2>2. bookings'[x] = row
      BY <1>0, <2>1
    <2>3. /\ pc[r] = "txWrite" /\ pc'[r] = "idle" /\ loc[r].op = "create"
          /\ loc[r].booking = None
      BY <1>0, <1>1 DEF createPendingBooking, Reply, Enter, Goto, Inv, CallsOK, Known
    <2> QED BY <2>1, <2>2, <2>3
  <1>2. CASE x = loc[r].booking /\ moveBookingForAdmin(r)
    <2> DEFINE row == [bookings[x] EXCEPT !.table = loc[r].table, !.iv = loc[r].iv]
               h == [from |-> loc[r].from, to |-> loc[r].from]
    <2>1. /\ bookings[x] \in BookingRow
          /\ loc[r].table \in Tables /\ loc[r].iv \in Intervals
          /\ bookings' = [bookings EXCEPT ![x] = row]
          /\ history' = [history EXCEPT ![x] = Append(@, h)]
      BY <1>2, MovedRow
    <2>2. row \in BookingRow /\ row.table = loc[r].table /\ row.iv = loc[r].iv
          /\ row.status = bookings[x].status
      BY <2>1 DEF BookingRow
    <2>3. bookings'[x] = row /\ history'[x] = Append(history[x], h)
      BY <1>0, <2>1
    <2>4. /\ pc[r] = "txWrite" /\ pc'[r] = "signal" /\ loc[r].op = "move"
          /\ loc[r].from \in ActiveBookingStatuses
      BY <1>0, <1>2 DEF moveBookingForAdmin, Goto, Inv, CallsOK, Known
    <2> HIDE DEF row
    <2> QED BY <1>2, <2>1, <2>2, <2>3, <2>4
  <1> QED BY <1>1, <1>2

(* A placement overlaps only with bookings that it missed. *)
LEMMA PlacementClash ==
    ASSUME RaceInv, NEW r \in Requests, NEW x \in BookingIds, Written = {x},
           createPendingBooking(r, x) \/ (x = loc[r].booking /\ moveBookingForAdmin(r)),
           NEW y \in BookingIds, y # x, IsActive(bookings[y]), bookings'[y] = bookings[y],
           Conflicts(bookings'[x], bookings'[y].table, bookings'[y].iv)
    PROVE  PlacesBooking(r, x) /\ y \in missed[r]["others"]
  <1>0. Inv /\ bookings[y] \in BookingRow
    BY DEF RaceInv, Inv, TypeOK, IsActive
  <1>1. /\ bookings'[x] \in BookingRow
        /\ bookings'[x].table = loc[r].table /\ bookings'[x].iv = loc[r].iv
        /\ pc[r] = "txWrite" /\ pc'[r] # "txWrite" /\ loc[r].op \in {"create", "move"}
        /\ loc[r].booking \in {x, None}
    BY <1>0, PlacementRow
  <1>2. PICK row \in BookingRow : row = bookings'[x]
    BY <1>1
  <1>3. Conflicts(bookings[y], loc[r].table, loc[r].iv)
    BY <1>0, <1>1, <1>2, ClashSymmetric
  <1>4. y # loc[r].booking /\ LooksFor(loc[r].op, bookings[y])
    BY <1>1, NoneAssumption DEF LooksFor
  <1>5. Relies(r, "others")
    BY <1>1 DEF Relies
  <1>6. y \in missed[r]["others"]
    BY <1>3, <1>4, <1>5 DEF RaceInv, OthersSeen
  <1> QED BY <1>1, <1>6 DEF PlacesBooking

(* A change of status leaves the booking where it is. *)
LEMMA ChangeRow ==
    ASSUME Inv, NEW r \in Requests, Changed(r)
    PROVE  LET x == loc[r].booking
           IN  /\ x \in BookingIds /\ bookings[x] \in BookingRow /\ bookings'[x] \in BookingRow
               /\ bookings'[x].table = bookings[x].table /\ bookings'[x].iv = bookings[x].iv
               /\ bookings'[x].status = Target(loc[r].op)
               /\ bookings[x].status = loc[r].from
               /\ bookings[x].status \in ActiveBookingStatuses
               /\ pc[r] = "cas" /\ pc'[r] # "cas" /\ loc[r].op \in Transitions
               /\ history'[x] = Append(history[x], [from |-> loc[r].from,
                                                    to |-> Target(loc[r].op)])
  <1> DEFINE x == loc[r].booking
             to == Target(loc[r].op)
             row == [bookings[x] EXCEPT !.status = to]
             h == [from |-> loc[r].from, to |-> to]
  <1>0. /\ bookings \in [BookingIds -> BookingRow \cup {None}]
        /\ history \in [BookingIds -> Seq(HistoryRow)] /\ pc \in [Requests -> Steps]
    BY DEF Inv, TypeOK
  <1>1. /\ x \in BookingIds /\ bookings[x] \in BookingRow
        /\ bookings[x].status = loc[r].from
        /\ isTransitionAllowed(bookings[x].status, to)
        /\ bookings' = [bookings EXCEPT ![x] = row]
        /\ history' = [history EXCEPT ![x] = Append(@, h)]
    BY ChangedRow
  <1>2. /\ to \in Status /\ bookings[x].status \in ActiveBookingStatuses
    BY <1>1 DEF isTransitionAllowed, Status, ActiveBookingStatuses
  <1>3. pc[r] = "cas" /\ pc'[r] \in {"idle", "signal"} /\ loc[r].op \in Transitions
    BY <1>0 DEF Changed, transitionBookingStatus, Reply, Enter, Goto, Inv, CallsOK, StepOfOp
  <1> HIDE DEF to
  <1>4. row \in BookingRow /\ row.table = bookings[x].table /\ row.iv = bookings[x].iv
        /\ row.status = to
    BY <1>1, <1>2 DEF BookingRow
  <1> HIDE DEF row, h
  <1>5. bookings'[x] = row /\ history'[x] = Append(history[x], h)
    BY <1>0, <1>1
  <1> QED BY <1>1, <1>2, <1>3, <1>4, <1>5 DEF to, h

RacedPlacement(a, b) ==
    \E r \in Requests :
        \/ PlacesBooking(r, a) /\ b \in missed[r]["others"]
        \/ PlacesBooking(r, b) /\ a \in missed[r]["others"]

LEMMA ActiveTogether ==
    ASSUME RaceInv, RaceNext, NEW a \in BookingIds, NEW b \in BookingIds, a # b,
           IsActive(bookings'[a]), IsActive(bookings'[b]),
           Conflicts(bookings'[a], bookings'[b].table, bookings'[b].iv),
           ~ (BothActive(a, b) /\ Clash(a, b))
    PROVE  RacedPlacement(a, b)
  <1>0. Inv /\ [Next]_vars
    BY DEF RaceInv, RaceNext
  <1>1. CASE UNCHANGED bookings
    BY <1>1 DEF BothActive, Clash
  <1>2. ASSUME NEW r \in Requests, NEW x \in BookingIds, Written = {x},
               createPendingBooking(r, x) \/ (x = loc[r].booking /\ moveBookingForAdmin(r)),
               \A y \in BookingIds \ {x} : bookings'[y] = bookings[y]
        PROVE  RacedPlacement(a, b)
    <2>1. CASE x = a
      <3>1. bookings'[b] = bookings[b] /\ IsActive(bookings[b])
        BY <1>2, <2>1
      <3> QED BY <1>2, <2>1, <3>1, PlacementClash DEF RacedPlacement
    <2>2. CASE x = b
      <3>1. bookings'[a] = bookings[a] /\ IsActive(bookings[a])
        BY <1>2, <2>2
      <3>2. PICK new \in BookingRow : new = bookings'[b]
        BY <1>0, <1>2, <2>2, PlacementRow
      <3>3. bookings[a] \in BookingRow
        BY <1>0, <3>1 DEF Inv, TypeOK, IsActive
      <3>4. Conflicts(bookings'[b], bookings'[a].table, bookings'[a].iv)
        BY <3>1, <3>2, <3>3, ClashSymmetric
      <3> QED BY <1>2, <2>2, <3>1, <3>4, PlacementClash DEF RacedPlacement
    <2>3. CASE x \notin {a, b}
      <3>1. bookings'[a] = bookings[a] /\ bookings'[b] = bookings[b]
        BY <1>2, <2>3
      <3> QED BY <3>1 DEF BothActive, Clash
    <2> QED BY <2>1, <2>2, <2>3
  <1>3. ASSUME NEW r \in Requests, Changed(r),
               \A y \in BookingIds \ {loc[r].booking} : bookings'[y] = bookings[y]
        PROVE  FALSE
    <2>1. ASSUME NEW y \in BookingIds, IsActive(bookings'[y])
          PROVE  /\ IsActive(bookings[y])
                 /\ bookings'[y].table = bookings[y].table /\ bookings'[y].iv = bookings[y].iv
      <3>1. CASE y = loc[r].booking
        BY <1>0, <1>3, <3>1, ChangeRow, NoneAssumption DEF IsActive
      <3>2. CASE y # loc[r].booking
        BY <1>3, <2>1, <3>2
      <3> QED BY <3>1, <3>2
    <2> QED BY <2>1 DEF BothActive, Clash, Conflicts
  <1> QED BY <1>0, <1>1, <1>2, <1>3, WritesOne

(***************************************************************************)
(* Whatever calls overlap, two active bookings come to clash only by a     *)
(* placement that committed although the other booking was written after   *)
(* its transaction looked for overlaps.  Nothing else double-books a       *)
(* table: a lock from that look to the commit would be enough.             *)
(***************************************************************************)
THEOREM OnlyRacesDoubleBook == RaceSpec => DoubleBookingsAreRaces
  <1>1. RaceInv /\ [RaceNext]_raceVars =>
          [\A a, b \in BookingIds :
             /\ a # b
             /\ (BothActive(a, b) /\ Clash(a, b))'
             /\ ~ (BothActive(a, b) /\ Clash(a, b))
             => \E r \in Requests :
                  \/ PlacesBooking(r, a) /\ b \in missed[r]["others"]
                  \/ PlacesBooking(r, b) /\ a \in missed[r]["others"]]_raceVars
    BY ActiveTogether DEF BothActive, Clash, RacedPlacement, IsActive, Conflicts
  <1> QED BY <1>1, RaceInvInit, RaceInvNext, PTL DEF RaceSpec, DoubleBookingsAreRaces


RacedConfirmation(a, b) ==
    \E r \in Requests, x, y \in {a, b} :
        /\ x # y
        /\ \/ PlacesBooking(r, x) /\ y \in missed[r]["others"]
           \/ Confirms(r, x) /\ (y \in missed[r]["others"] \/ x \in missed[r]["own"])

(* A confirmation that overlooks nothing confirms what is apart. *)
LEMMA ConfirmationClash ==
    ASSUME RaceInv, NEW r \in Requests, Changed(r), loc[r].op = "confirm",
           NEW x \in BookingIds, x = loc[r].booking, Written = {x},
           NEW y \in BookingIds, y # x, bookings'[y] = bookings[y],
           bookings[y] \in BookingRow, bookings[y].status = "confirmed",
           Conflicts(bookings'[x], bookings'[y].table, bookings'[y].iv)
    PROVE  Confirms(r, x) /\ (y \in missed[r]["others"] \/ x \in missed[r]["own"])
  <1>0. Inv
    BY DEF RaceInv
  <1>1. /\ bookings'[x] \in BookingRow
        /\ bookings'[x].table = bookings[x].table /\ bookings'[x].iv = bookings[x].iv
        /\ pc[r] = "cas" /\ pc'[r] # "cas"
    BY <1>0, ChangeRow
  <1>2. Relies(r, "own") /\ Relies(r, "others")
    BY <1>1 DEF Relies
  <1>3. CASE x \notin missed[r]["own"] /\ y \notin missed[r]["others"]
    <2>1. bookings[x].table = loc[r].table /\ bookings[x].iv = loc[r].iv
      BY <1>2, <1>3 DEF RaceInv, OwnSeen
    <2>2. PICK row \in BookingRow : row = bookings'[x]
      BY <1>1
    <2>3. Conflicts(bookings[y], loc[r].table, loc[r].iv)
      BY <1>1, <2>1, <2>2, ClashSymmetric
    <2>4. LooksFor(loc[r].op, bookings[y])
      BY NoneAssumption DEF LooksFor
    <2> QED BY <1>2, <1>3, <2>3, <2>4 DEF RaceInv, OthersSeen
  <1> QED BY <1>1, <1>3 DEF Confirms

LEMMA ConfirmedTogether ==
    ASSUME RaceInv, RaceNext, NEW a \in BookingIds, NEW b \in BookingIds, a # b,
           IsActive(bookings'[a]), IsActive(bookings'[b]),
           bookings'[a].status = "confirmed", bookings'[b].status = "confirmed",
           Conflicts(bookings'[a], bookings'[b].table, bookings'[b].iv),
           ~ (BothConfirmed(a, b) /\ Clash(a, b))
    PROVE  RacedConfirmation(a, b)
  <1>0. Inv /\ [Next]_vars
    BY DEF RaceInv, RaceNext
  <1>1. CASE UNCHANGED bookings
    BY <1>1 DEF BothConfirmed, BothActive, Clash
  <1>2. ASSUME NEW r \in Requests, NEW x \in BookingIds, Written = {x},
               createPendingBooking(r, x) \/ (x = loc[r].booking /\ moveBookingForAdmin(r)),
               \A y \in BookingIds \ {x} : bookings'[y] = bookings[y]
        PROVE  RacedConfirmation(a, b)
    <2>1. CASE x = a
      <3>1. bookings'[b] = bookings[b] /\ IsActive(bookings[b])
        BY <1>2, <2>1
      <3> QED BY <1>2, <2>1, <3>1, PlacementClash DEF RacedConfirmation
    <2>2. CASE x = b
      <3>1. bookings'[a] = bookings[a] /\ IsActive(bookings[a])
        BY <1>2, <2>2
      <3>2. PICK new \in BookingRow : new = bookings'[b]
        BY <1>0, <1>2, <2>2, PlacementRow
      <3>3. bookings[a] \in BookingRow
        BY <1>0, <3>1 DEF Inv, TypeOK, IsActive
      <3>4. Conflicts(bookings'[b], bookings'[a].table, bookings'[a].iv)
        BY <3>1, <3>2, <3>3, ClashSymmetric
      <3> QED BY <1>2, <2>2, <3>1, <3>4, PlacementClash DEF RacedConfirmation
    <2>3. CASE x \notin {a, b}
      <3>1. bookings'[a] = bookings[a] /\ bookings'[b] = bookings[b]
        BY <1>2, <2>3
      <3> QED BY <3>1 DEF BothConfirmed, BothActive, Clash
    <2> QED BY <2>1, <2>2, <2>3
  <1>3. ASSUME NEW r \in Requests, Changed(r), NEW x \in BookingIds, x = loc[r].booking,
               Written = {x}, \A y \in BookingIds \ {x} : bookings'[y] = bookings[y]
        PROVE  RacedConfirmation(a, b)
    <2>1. /\ bookings[x] \in BookingRow /\ bookings'[x] \in BookingRow
          /\ bookings'[x].status = Target(loc[r].op) /\ loc[r].op \in Transitions
      BY <1>0, <1>3, ChangeRow
    <2>2. CASE x \notin {a, b}
      <3>1. bookings'[a] = bookings[a] /\ bookings'[b] = bookings[b]
        BY <1>3, <2>2
      <3> QED BY <3>1 DEF BothConfirmed, BothActive, Clash
    <2>3. CASE x \in {a, b}
      <3>1. loc[r].op = "confirm"
        BY <2>1, <2>3 DEF Target, Transitions
      <3>2. CASE x = a
        <4>1. bookings'[b] = bookings[b] /\ bookings[b] \in BookingRow
          BY <1>0, <1>3, <3>2 DEF Inv, TypeOK, IsActive
        <4> QED BY <1>3, <3>1, <3>2, <4>1, ConfirmationClash DEF RacedConfirmation
      <3>3. CASE x = b
        <4>1. bookings'[a] = bookings[a] /\ bookings[a] \in BookingRow
          BY <1>0, <1>3, <3>3 DEF Inv, TypeOK, IsActive
        <4>2. PICK new \in BookingRow : new = bookings'[b]
          BY <2>1, <3>3
        <4>3. Conflicts(bookings'[b], bookings'[a].table, bookings'[a].iv)
          BY <4>1, <4>2, ClashSymmetric
        <4> QED BY <1>3, <3>1, <3>3, <4>1, <4>3, ConfirmationClash DEF RacedConfirmation
      <3> QED BY <2>3, <3>2, <3>3
    <2> QED BY <2>2, <2>3
  <1> QED BY <1>0, <1>1, <1>2, <1>3, WritesOne

(* Two confirmed bookings come to clash only where a second look was       *)
(* overtaken too: that of a confirmation, for other confirmed bookings or  *)
(* at where its own booking is, or that of a move.                         *)
THEOREM OnlyRacesConfirmTwice == RaceSpec => ConfirmedClashesAreRaces
  <1>1. RaceInv /\ [RaceNext]_raceVars =>
          [\A a, b \in BookingIds :
             /\ a # b
             /\ (BothConfirmed(a, b) /\ Clash(a, b))'
             /\ ~ (BothConfirmed(a, b) /\ Clash(a, b))
             => \E r \in Requests, x, y \in {a, b} :
                  /\ x # y
                  /\ \/ PlacesBooking(r, x) /\ y \in missed[r]["others"]
                     \/ Confirms(r, x) /\ (y \in missed[r]["others"]
                                           \/ x \in missed[r]["own"])]_raceVars
    BY ConfirmedTogether
    DEF BothConfirmed, BothActive, Clash, RacedConfirmation, IsActive, Conflicts
  <1> QED BY <1>1, RaceInvInit, RaceInvNext, PTL DEF RaceSpec, ConfirmedClashesAreRaces

-----------------------------------------------------------------------------
(* Moves overtaken by a change of status *)

(* A move whose booking was not written finds the status it has read. *)
LEMMA MoveFinds ==
    ASSUME RaceInv, NEW r \in Requests, NEW b \in BookingIds, Written = {b},
           b = loc[r].booking, moveBookingForAdmin(r)
    PROVE  \/ PlacesBooking(r, b) /\ b \in missed[r]["own"]
           \/ bookings[b].status = loc[r].from
  <1>1. /\ pc[r] = "txWrite" /\ pc'[r] # "txWrite" /\ loc[r].op = "move"
    BY PlacementRow DEF RaceInv, moveBookingForAdmin
  <1>2. Relies(r, "own")
    BY <1>1 DEF Relies
  <1> QED BY <1>1, <1>2 DEF RaceInv, OwnSeen, PlacesBooking

LEMMA LastRow ==
    ASSUME NEW rows \in Seq(HistoryRow), NEW h
    PROVE  Append(rows, h)[Len(Append(rows, h))] = h
  <1>1. Len(Append(rows, h)) = Len(rows) + 1 /\ Len(rows) \in Nat
    OBVIOUS
  <1> QED BY <1>1

LEMMA TellsNext ==
    ASSUME RaceInv, RaceNext, NEW b \in Written
    PROVE  TellsTheChange(b) \/ \E r \in Requests : PlacesBooking(r, b) /\ b \in missed[r]["own"]
  <1>0. /\ Inv /\ [Next]_vars /\ history \in [BookingIds -> Seq(HistoryRow)] /\ b \in BookingIds
        /\ bookings \in [BookingIds -> BookingRow \cup {None}]
    BY DEF RaceInv, RaceNext, Inv, TypeOK, Written
  <1>1. PICK r \in Requests :
           /\ createPendingBooking(r, b) \/ (b = loc[r].booking
                                             /\ (moveBookingForAdmin(r) \/ Changed(r)))
           /\ Written = {b}
    BY <1>0, WritesOne
  <1>2. CASE createPendingBooking(r, b)
    <2> DEFINE h == [from |-> None, to |-> "pending"]
    <2>1. bookings[b] = None /\ history' = [history EXCEPT ![b] = Append(@, h)]
      BY <1>0, <1>2, PlacedRow
    <2>2. bookings'[b].status = "pending"
      BY <1>0, <1>2, PlacementRow DEF createPendingBooking
    <2>3. history'[b] = Append(history[b], h)
      BY <1>0, <2>1
    <2>4. history'[b][Len(history'[b])] = h
      BY <1>0, <2>3, LastRow
    <2> QED BY <2>1, <2>2, <2>4 DEF TellsTheChange
  <1>3. CASE b = loc[r].booking /\ moveBookingForAdmin(r)
    <2> DEFINE h == [from |-> loc[r].from, to |-> loc[r].from]
    <2>0. loc[r].op = "move"
      BY <1>3 DEF moveBookingForAdmin
    <2>1. /\ bookings[b] \in BookingRow /\ bookings'[b].status = bookings[b].status
          /\ history'[b] = Append(history[b], h)
      BY <1>0, <1>3, <2>0, PlacementRow
    <2>2. history'[b][Len(history'[b])] = h
      BY <1>0, <2>1, LastRow
    <2>3. CASE bookings[b].status = loc[r].from
      <3>1. bookings[b] # None
        BY <2>1, NoneAssumption
      <3> QED BY <2>1, <2>2, <2>3, <3>1 DEF TellsTheChange
    <2>4. (PlacesBooking(r, b) /\ b \in missed[r]["own"]) \/ bookings[b].status = loc[r].from
      BY <1>0, <1>1, <1>3, MoveFinds
    <2> QED BY <2>3, <2>4
  <1>4. CASE b = loc[r].booking /\ Changed(r)
    <2> DEFINE h == [from |-> loc[r].from, to |-> Target(loc[r].op)]
    <2>1. /\ bookings[b] # None /\ bookings'[b].status = Target(loc[r].op)
          /\ bookings[b].status = loc[r].from
          /\ history'[b] = Append(history[b], h)
      BY <1>0, <1>4, ChangeRow, NoneAssumption
    <2>2. history'[b][Len(history'[b])] = h
      BY <1>0, <2>1, LastRow
    <2> QED BY <2>1, <2>2 DEF TellsTheChange
  <1> QED BY <1>1, <1>2, <1>3, <1>4

(* A history row tells what its step did to the status, unless it is that  *)
(* of a move that was overtaken between its status check and its commit.   *)
THEOREM OnlyMovesMistell == RaceSpec => HistoryTellsTheChange
  <1>1. RaceInv /\ [RaceNext]_raceVars =>
          [\A b \in Written :
             \/ TellsTheChange(b)
             \/ \E r \in Requests : PlacesBooking(r, b) /\ b \in missed[r]["own"]]_raceVars
    BY TellsNext
  <1> QED BY <1>1, RaceInvInit, RaceInvNext, PTL DEF RaceSpec, HistoryTellsTheChange

LEMMA EndedNext ==
    ASSUME RaceInv, RaceNext, NEW b \in Stored, ~ IsActive(bookings[b]),
           b \in Written \/ bookings'[b] # bookings[b]
    PROVE  \E r \in Requests : PlacesBooking(r, b) /\ b \in missed[r]["own"]
  <1>0. /\ Inv /\ [Next]_vars /\ b \in BookingIds /\ bookings[b] # None
        /\ bookings[b].status \notin ActiveBookingStatuses
    BY DEF RaceInv, RaceNext, Stored, IsActive
  <1>1. b \in Written
    BY <1>0, UnwrittenStays
  <1>2. PICK r \in Requests :
           /\ createPendingBooking(r, b) \/ (b = loc[r].booking
                                             /\ (moveBookingForAdmin(r) \/ Changed(r)))
           /\ Written = {b}
    BY <1>0, <1>1, WritesOne
  <1>3. ~ createPendingBooking(r, b)
    BY <1>0 DEF createPendingBooking
  <1>4. ~ (b = loc[r].booking /\ Changed(r))
    BY <1>0, ChangeRow
  <1>5. CASE b = loc[r].booking /\ moveBookingForAdmin(r)
    <2>1. loc[r].from \in ActiveBookingStatuses
      BY <1>0, <1>5, PlacementRow DEF moveBookingForAdmin
    <2> QED BY <1>0, <1>2, <1>5, <2>1, MoveFinds
  <1> QED BY <1>2, <1>3, <1>4, <1>5

(* A booking that has ended changes no more, unless it ended between the   *)
(* status check of a move and the commit of that move.                     *)
THEOREM OnlyMovesReachTheEnded == RaceSpec => EndedBookingsStay
  <1>1. RaceInv /\ [RaceNext]_raceVars =>
          [\A b \in Stored :
             ~ IsActive(bookings[b]) /\ (b \in Written \/ bookings'[b] # bookings[b]) =>
               \E r \in Requests : PlacesBooking(r, b) /\ b \in missed[r]["own"]]_raceVars
    BY EndedNext
  <1> QED BY <1>1, RaceInvInit, RaceInvNext, PTL DEF RaceSpec, EndedBookingsStay

-----------------------------------------------------------------------------
(* At the commit of a request, the active bookings that its count could    *)
(* see are still fewer than the limit it read.                             *)
THEOREM CountedWithinLimit == RaceSpec => LimitAsCounted
  <1>1. ASSUME RaceInv, NEW r \in Requests, pc[r] = "txWrite", loc[r].op = "create"
        PROVE  Cardinality(ActiveBookingsOf(loc[r].user) \ missed[r]["count"])
                 < Limit(loc[r].rule)
    <2>1. Relies(r, "count")
      BY <1>1 DEF Relies
    <2> QED BY <1>1, <2>1, LimitNat DEF RaceInv, CountSeen
  <1>2. RaceInv /\ [RaceNext]_raceVars =>
          [\A r \in Requests :
             Places(r) /\ loc[r].op = "create" =>
               Cardinality(ActiveBookingsOf(loc[r].user) \ missed[r]["count"])
                 < Limit(loc[r].rule)]_raceVars
    BY <1>1 DEF Places
  <1> QED BY <1>2, RaceInvInit, RaceInvNext, PTL DEF RaceSpec, LimitAsCounted


-----------------------------------------------------------------------------
(***************************************************************************)
(* Refinement.  The three commits are the operations of the ledger, each   *)
(* with the sight its call has left, and every other step is a look.       *)
(***************************************************************************)
LEMMA FreeIsFree ==
    ASSUME RaceInv, NEW r \in Requests, pc[r] = "txWrite", NEW b \in BookingIds,
           loc[r].booking = b \/ (loc[r].booking = None /\ bookings[b] = None)
    PROVE  Ledger!FreeFor(r, b, loc[r].table, loc[r].iv)
  <1>1. Relies(r, "others") /\ loc[r].op \in {"create", "move"}
    BY DEF Relies, RaceInv, Inv, CallsOK, StepOfOp
  <1>2. \A a \in BookingIds \ ({b} \cup missed[r]["others"]) :
           IsActive(bookings[a]) => ~ Conflicts(bookings[a], loc[r].table, loc[r].iv)
    BY <1>1, NoneAssumption DEF RaceInv, OthersSeen, LooksFor
  <1>3. [q \in Requests |-> missed[q]["others"]][r] = missed[r]["others"]
    OBVIOUS
  <1> QED BY <1>2, <1>3
      DEF Ledger!FreeFor, Ledger!Holds, Ledger!Holding, IsActive, ActiveBookingStatuses,
          Conflicts, rangesOverlap, Ledger!rangesOverlap

LEMMA NotedIsMissed ==
    ASSUME RaceInv, RaceNext, NEW N \in SUBSET BookingIds, Written = N
    PROVE  Ledger!Noted(N)
  <1>1. ASSUME NEW c \in Requests
        PROVE  /\ missed'[c]["others"] \in {{}, missed[c]["others"] \cup N}
               /\ missed'[c]["others"] \in SUBSET BookingIds
    <2>1. "others" \in Looks /\ Watch
      BY DEF Looks, RaceNext
    <2>2. missed[c]["others"] \in SUBSET BookingIds
      BY <2>1 DEF RaceInv
    <2>3. missed'[c]["others"] \in {{}, missed[c]["others"] \cup Written}
      BY <2>1, WatchMissed
    <2> QED BY <2>2, <2>3
  <1>2. [c \in Requests |-> missed'[c]["others"]] \in [Requests -> SUBSET BookingIds]
    BY <1>1
  <1> QED BY <1>1, <1>2 DEF Ledger!Noted

LEMMA LedgerStep ==
    ASSUME RaceInv, RaceNext
    PROVE  Ledger!Next
  <1>0. Inv /\ [Next]_vars
    BY DEF RaceInv, RaceNext
  <1>1. ASSUME NEW N \in SUBSET BookingIds, Written = N
        PROVE  Ledger!Noted(N)
    BY <1>1, NotedIsMissed
  <1>2. CASE UNCHANGED bookings /\ Written = {}
    <2>1. Ledger!Noted({})
      BY <1>1, <1>2
    <2> QED BY <1>2, <2>1 DEF Ledger!Look, Ledger!Next
  <1>3. ASSUME NEW r \in Requests, NEW b \in BookingIds, createPendingBooking(r, b), Written = {b}
        PROVE  Ledger!Next
    <2>1. /\ loc[r].user \in Users /\ loc[r].table \in Tables /\ loc[r].iv \in Intervals
          /\ loc[r].booking = None /\ bookings[b] = None /\ pc[r] = "txWrite"
      BY <1>0, <1>3 DEF createPendingBooking, Inv, CallsOK, Known
    <2>2. Ledger!FreeFor(r, b, loc[r].table, loc[r].iv)
      BY <2>1, FreeIsFree
    <2>4. Ledger!Noted({b})
      BY <1>1, <1>3
    <2>3. Ledger!Request(r, b, loc[r].user, loc[r].table, loc[r].iv)
      BY <1>3, <2>1, <2>2, <2>4 DEF createPendingBooking, NewRow, Ledger!Request
    <2> QED BY <2>1, <2>3 DEF Ledger!Next
  <1>4. ASSUME NEW r \in Requests, NEW b \in BookingIds, b = loc[r].booking,
               moveBookingForAdmin(r), Written = {b}
        PROVE  Ledger!Next
    <2>1. /\ bookings[b] # None /\ pc[r] = "txWrite"
          /\ loc[r].table \in Tables /\ loc[r].iv \in Intervals
      BY <1>0, <1>4, MovedRow, NoneAssumption DEF moveBookingForAdmin
    <2>2. Ledger!FreeFor(r, b, loc[r].table, loc[r].iv)
      BY <1>4, <2>1, FreeIsFree
    <2>4. Ledger!Noted({b})
      BY <1>1, <1>4
    <2>3. Ledger!Relocate(r, b, loc[r].table, loc[r].iv)
      BY <1>4, <2>1, <2>2, <2>4 DEF moveBookingForAdmin, Ledger!Relocate
    <2> QED BY <2>1, <2>3 DEF Ledger!Next
  <1>5. ASSUME NEW r \in Requests, NEW b \in BookingIds, b = loc[r].booking, Changed(r),
               Written = {b}
        PROVE  Ledger!Next
    <2> DEFINE to == Target(loc[r].op)
    <2>1. bookings[b] # None /\ isTransitionAllowed(bookings[b].status, to)
      BY <1>0, <1>5, ChangedRow, NoneAssumption
    <2>2. bookings' = [bookings EXCEPT ![b].status = to]
      BY <1>5 DEF Changed, transitionBookingStatus
    <2> HIDE DEF to
    <2>3. <<bookings[b].status, to>> \in Ledger!Permitted
      BY <2>1 DEF isTransitionAllowed, Ledger!Permitted, Ledger!Cancelled
    <2>4. to \in {"confirmed", "completed", "expired"} \cup Ledger!Cancelled
      BY <2>1 DEF isTransitionAllowed, Ledger!Cancelled
    <2>6. Ledger!Noted({b})
      BY <1>1, <1>5
    <2>5. Ledger!ChangeStatus(b, to)
      BY <2>1, <2>2, <2>3, <2>6 DEF Ledger!ChangeStatus
    <2> QED BY <2>4, <2>5 DEF Ledger!Next
  <1> QED BY <1>0, <1>2, <1>3, <1>4, <1>5, WritesOne

(* The API implements the ledger as it is, with no call held back: each    *)
(* handler acts as if it ran in one step at its commit, on all that it     *)
(* could have seen.                                                        *)
THEOREM CallsImplementLedger == RaceSpec => ImplementsLedger
  <1>1. RaceInit => Ledger!Init
    <2> SUFFICES ASSUME RaceInit PROVE Ledger!Init
      OBVIOUS
    <2>1. "others" \in Looks
      BY DEF Looks
    <2> QED BY <2>1 DEF RaceInit, Init, Ledger!Init
  <1>2. RaceInv /\ [RaceNext]_raceVars
          => [Ledger!Next]_<<bookings, [r \in Requests |-> missed[r]["others"]]>>
    <2>1. ASSUME UNCHANGED raceVars
          PROVE  UNCHANGED <<bookings, [r \in Requests |-> missed[r]["others"]]>>
      BY <2>1 DEF raceVars, vars
    <2> QED BY <2>1, LedgerStep
  <1> QED BY <1>1, <1>2, RaceInvInit, RaceInvNext, PTL DEF RaceSpec, ImplementsLedger, Ledger!Spec

-----------------------------------------------------------------------------
(***************************************************************************)
(* Signals.  A history row that wants a signal has had it, or a call is at *)
(* work that still owes it, or the call that owed it is lost.              *)
(***************************************************************************)

(* A row that the signal s follows. *)
Wants(row, s) ==
    CASE s = Signal("confirm")     -> row.from # row.to /\ row.to = Target("confirm")
      [] s = Signal("adminCancel") -> row.to = Target("adminCancel")
      [] s = Signal("move")        -> row.from = row.to

Wanted(rows, s) == {i \in DOMAIN rows : Wants(rows[i], s)}

(* The calls that still have to write the signal s of booking b. *)
Owing(b, s) == {r \in Requests : pc[r] = "signal" /\ loc[r].booking = b /\ Signal(loc[r].op) = s}

Balanced(b, s) ==
    outbox[b][s] + lost[b][s] + Cardinality(Owing(b, s)) = Cardinality(Wanted(history[b], s))

BalanceInv ==
    /\ Inv
    /\ lost \in [BookingIds -> [Signals -> Nat]]
    /\ \A b \in BookingIds : \A s \in Signals : Balanced(b, s)

LEMMA WantedIsAnnounced ==
    ASSUME NEW b, NEW s
    PROVE  Announced(b, s) = Wanted(history[b], s)
  BY DEF Announced, Wanted, Wants

LEMMA WantedFinite ==
    ASSUME NEW rows \in Seq(HistoryRow), NEW s
    PROVE  IsFiniteSet(Wanted(rows, s)) /\ Cardinality(Wanted(rows, s)) \in Nat
  <1>1. Len(rows) \in Nat /\ DOMAIN rows = 1 .. Len(rows)
    OBVIOUS
  <1>2. Wanted(rows, s) \subseteq 1 .. Len(rows)
    BY <1>1 DEF Wanted
  <1>3. IsFiniteSet(1 .. Len(rows))
    BY <1>1, FS_Interval
  <1>4. IsFiniteSet(Wanted(rows, s))
    BY <1>2, <1>3, FS_Subset
  <1> QED BY <1>4, FS_CardinalityType

LEMMA OwingFinite ==
    ASSUME NEW b, NEW s
    PROVE  IsFiniteSet(Owing(b, s)) /\ Cardinality(Owing(b, s)) \in Nat
  <1>1. Owing(b, s) \subseteq Requests
    BY DEF Owing
  <1>2. IsFiniteSet(Owing(b, s))
    BY <1>1, ConstantsAssumption, FS_Subset
  <1> QED BY <1>2, FS_CardinalityType

(* One row more. *)
LEMMA WantedAppend ==
    ASSUME NEW rows \in Seq(HistoryRow), NEW h \in HistoryRow, NEW s
    PROVE  /\ Wants(h, s) => Cardinality(Wanted(Append(rows, h), s))
                               = Cardinality(Wanted(rows, s)) + 1
           /\ ~ Wants(h, s) => Wanted(Append(rows, h), s) = Wanted(rows, s)
  <1> DEFINE n == Len(rows)
             new == Append(rows, h)
  <1>1. /\ n \in Nat /\ DOMAIN rows = 1 .. n /\ DOMAIN new = 1 .. (n + 1)
        /\ new[n + 1] = h /\ \A i \in 1 .. n : new[i] = rows[i]
    OBVIOUS
  <1>2. \A i : i \in 1 .. (n + 1) <=> i \in 1 .. n \/ i = n + 1
    BY <1>1
  <1>3. n + 1 \notin 1 .. n
    BY <1>1
  <1> HIDE DEF n, new
  <1>4. CASE Wants(h, s)
    <2>1. Wanted(new, s) = Wanted(rows, s) \cup {n + 1}
      BY <1>1, <1>2, <1>4 DEF Wanted
    <2>2. n + 1 \notin Wanted(rows, s)
      BY <1>1, <1>3 DEF Wanted
    <2>3. Cardinality(Wanted(new, s)) = Cardinality(Wanted(rows, s)) + 1
      BY <2>1, <2>2, WantedFinite, FS_AddElement
    <2> QED BY <1>4, <2>3 DEF new
  <1>5. CASE ~ Wants(h, s)
    <2>1. Wanted(new, s) = Wanted(rows, s)
      BY <1>1, <1>2, <1>3, <1>5 DEF Wanted
    <2> QED BY <1>5, <2>1 DEF new
  <1> QED BY <1>4, <1>5

(* A call that is about to write its signal writes it, or is lost. *)
LEMMA SignalStays ==
    ASSUME Inv, [Next]_vars, NEW r \in Requests, pc[r] = "signal",
           ~ tryCreateNotificationSignal(r), ~ Abandon(r)
    PROVE  pc'[r] = pc[r] /\ loc'[r] = loc[r]
  <1>1. ASSUME NEW q \in Requests, q # r, Arrive(q) \/ Continue(q) \/ Abandon(q)
        PROVE  pc'[r] = pc[r] /\ loc'[r] = loc[r]
    BY <1>1, CallAlone DEF Alone
  <1>2. ~ Arrive(r)
    BY ArriveFlow
  <1>3. ~ Continue(r)
    BY DEF Continue, CheckUser, CheckTable, resolveScheduleForDate, AnswerQuery, TxStatus,
           TxOverlap, createPendingBooking, moveBookingForAdmin, ConfirmConflict,
           CancelNotice, ReadStatus, transitionBookingStatus
  <1>4. ASSUME OwnerEdit \/ Tick PROVE pc'[r] = pc[r] /\ loc'[r] = loc[r]
    BY <1>4, EditEffect
  <1>5. ASSUME UNCHANGED vars PROVE pc'[r] = pc[r] /\ loc'[r] = loc[r]
    BY <1>5 DEF vars
  <1> QED BY <1>1, <1>2, <1>3, <1>4, <1>5 DEF Next

LEMMA WatchLost ==
    ASSUME Watch, NEW b \in BookingIds, NEW s \in Signals
    PROVE  lost'[b][s] = IF \E r \in Requests : Drops(r, b, s) THEN lost[b][s] + 1 ELSE lost[b][s]
  BY DEF Watch

LEMMA Plus ==
    ASSUME NEW a \in Nat, NEW l \in Nat, NEW m \in Nat, NEW n \in Nat, a + l + m = n
    PROVE  a + l + (m + 1) = n + 1
  OBVIOUS

LEMMA Shift ==
    ASSUME NEW a \in Nat, NEW l \in Nat, NEW m \in Nat, NEW n \in Nat, a + l + m = n
    PROVE  /\ (a + 1) + l + (m - 1) = n
           /\ a + (l + 1) + (m - 1) = n
  OBVIOUS

(* The bookkeeping types, and the call that is about to signal. *)
LEMMA BalanceTypes ==
    ASSUME BalanceInv, NEW b \in BookingIds, NEW s \in Signals
    PROVE  /\ Inv /\ Balanced(b, s)
           /\ pc \in [Requests -> Steps] /\ loc \in [Requests -> Call]
           /\ outbox \in [BookingIds -> [Signals -> Nat]] /\ history \in [BookingIds -> Seq(HistoryRow)]
           /\ outbox[b][s] \in Nat /\ lost[b][s] \in Nat
           /\ Cardinality(Wanted(history[b], s)) \in Nat
           /\ Cardinality(Owing(b, s)) \in Nat /\ IsFiniteSet(Owing(b, s))
           /\ \A q \in Requests : pc[q] = "signal" =>
                loc[q].booking \in BookingIds /\ Signal(loc[q].op) \in Signals
  <1>1. Inv /\ Balanced(b, s) /\ TypeOK /\ lost[b][s] \in Nat
    BY DEF BalanceInv, Inv
  <1>2. ASSUME NEW q \in Requests, pc[q] = "signal"
        PROVE  loc[q].booking \in BookingIds /\ Signal(loc[q].op) \in Signals
    <2>1. loc[q].booking \in BookingIds /\ loc[q].op \in {"confirm", "adminCancel", "move"}
      BY <1>1, <1>2 DEF Inv, CallsOK, StepOfOp, Known, Transitions
    <2> QED BY <2>1 DEF Signal, Signals
  <1>3. outbox[b][s] \in Nat /\ history[b] \in Seq(HistoryRow)
    BY <1>1 DEF TypeOK
  <1> QED BY <1>1, <1>2, <1>3, WantedFinite, OwingFinite DEF TypeOK

(* The signal is written: one call less owes it. *)
LEMMA BalancedSignal ==
    ASSUME BalanceInv, Watch, NEW q \in Requests, tryCreateNotificationSignal(q),
           NEW b \in BookingIds, NEW s \in Signals
    PROVE  Balanced(b, s)'
  <1>0. /\ Balanced(b, s) /\ pc \in [Requests -> Steps] /\ loc \in [Requests -> Call]
        /\ outbox \in [BookingIds -> [Signals -> Nat]]
        /\ outbox[b][s] \in Nat /\ lost[b][s] \in Nat
        /\ Cardinality(Wanted(history[b], s)) \in Nat
        /\ Cardinality(Owing(b, s)) \in Nat /\ IsFiniteSet(Owing(b, s))
    BY BalanceTypes
  <1>1. /\ pc[q] = "signal" /\ pc'[q] = "idle" /\ history' = history
        /\ \A r \in Requests \ {q} : pc'[r] = pc[r] /\ loc'[r] = loc[r]
        /\ outbox' = [outbox EXCEPT ![loc[q].booking][Signal(loc[q].op)] = @ + 1]
    BY <1>0 DEF tryCreateNotificationSignal, Reply, Enter, Goto
  <1>2. Owing(b, s)' = Owing(b, s) \ {q}
    BY <1>1 DEF Owing
  <1>3. loc[q].booking \in BookingIds /\ Signal(loc[q].op) \in Signals
    BY <1>1, BalanceTypes
  <1>4. outbox' # outbox
    <2>1. outbox[loc[q].booking][Signal(loc[q].op)] \in Nat
      BY <1>0, <1>3
    <2>2. outbox'[loc[q].booking][Signal(loc[q].op)] = outbox[loc[q].booking][Signal(loc[q].op)] + 1
      BY <1>0, <1>1, <1>3
    <2> QED BY <2>1, <2>2
  <1>5. lost'[b][s] = lost[b][s]
    BY <1>4, WatchLost DEF Drops
  <1>6. CASE q \in Owing(b, s)
    <2>1. loc[q].booking = b /\ Signal(loc[q].op) = s
      BY <1>6 DEF Owing
    <2>2. outbox'[b][s] = outbox[b][s] + 1
      BY <1>0, <1>1, <2>1
    <2>3. Cardinality(Owing(b, s)') = Cardinality(Owing(b, s)) - 1
      BY <1>0, <1>2, <1>6, FS_RemoveElement
    <2>4. (outbox[b][s] + 1) + lost[b][s] + (Cardinality(Owing(b, s)) - 1)
            = Cardinality(Wanted(history[b], s))
      BY <1>0, Shift DEF Balanced
    <2> QED BY <1>1, <1>5, <2>2, <2>3, <2>4 DEF Balanced, Wanted
  <1>7. CASE q \notin Owing(b, s)
    <2>1. loc[q].booking # b \/ Signal(loc[q].op) # s
      BY <1>1, <1>7 DEF Owing
    <2>2. outbox'[b][s] = outbox[b][s]
      BY <1>0, <1>1, <1>3, <2>1
    <2>3. Owing(b, s)' = Owing(b, s)
      BY <1>2, <1>7
    <2> QED BY <1>0, <1>1, <1>5, <2>2, <2>3 DEF Balanced, Wanted
  <1> QED BY <1>6, <1>7

(* The call is lost, and what it owed with it. *)
LEMMA BalancedLoss ==
    ASSUME BalanceInv, Watch, NEW q \in Requests, Abandon(q), pc[q] = "signal",
           NEW b \in BookingIds, NEW s \in Signals
    PROVE  Balanced(b, s)'
  <1>0. /\ Balanced(b, s) /\ pc \in [Requests -> Steps] /\ loc \in [Requests -> Call]
        /\ outbox[b][s] \in Nat /\ lost[b][s] \in Nat
        /\ Cardinality(Wanted(history[b], s)) \in Nat
        /\ Cardinality(Owing(b, s)) \in Nat /\ IsFiniteSet(Owing(b, s))
    BY BalanceTypes
  <1>1. /\ pc'[q] = "idle" /\ history' = history /\ outbox' = outbox
        /\ \A r \in Requests \ {q} : pc'[r] = pc[r] /\ loc'[r] = loc[r]
    BY <1>0 DEF Abandon, Reply, Enter, Goto, db
  <1>2. Owing(b, s)' = Owing(b, s) \ {q}
    BY <1>1 DEF Owing
  <1>3. (\E r \in Requests : Drops(r, b, s)) <=> q \in Owing(b, s)
    BY <1>1 DEF Drops, Owing
  <1>4. CASE q \in Owing(b, s)
    <2>1. lost'[b][s] = lost[b][s] + 1
      BY <1>3, <1>4, WatchLost
    <2>2. Cardinality(Owing(b, s)') = Cardinality(Owing(b, s)) - 1
      BY <1>0, <1>2, <1>4, FS_RemoveElement
    <2>3. outbox[b][s] + (lost[b][s] + 1) + (Cardinality(Owing(b, s)) - 1)
            = Cardinality(Wanted(history[b], s))
      BY <1>0, Shift DEF Balanced
    <2> QED BY <1>1, <2>1, <2>2, <2>3 DEF Balanced, Wanted
  <1>5. CASE q \notin Owing(b, s)
    <2>1. lost'[b][s] = lost[b][s] /\ Owing(b, s)' = Owing(b, s)
      BY <1>2, <1>3, <1>5, WatchLost
    <2> QED BY <1>0, <1>1, <2>1 DEF Balanced, Wanted
  <1> QED BY <1>4, <1>5

(* A row is written, and the call that wrote it owes the signal that the   *)
(* row wants, if it wants one.                                             *)
LEMMA BalancedRow ==
    ASSUME BalanceInv, UNCHANGED outbox, UNCHANGED lost, NEW q \in Requests, NEW x \in BookingIds,
           NEW h \in HistoryRow, history' = [history EXCEPT ![x] = Append(history[x], h)],
           NEW b \in BookingIds, NEW s \in Signals,
           Owing(b, s)' = IF b = x /\ Wants(h, s) THEN Owing(b, s) \cup {q} ELSE Owing(b, s),
           q \notin Owing(b, s)
    PROVE  Balanced(b, s)'
  <1>0. /\ Balanced(b, s) /\ history \in [BookingIds -> Seq(HistoryRow)]
    BY BalanceTypes
  <1>1. /\ outbox[b][s] \in Nat /\ lost[b][s] \in Nat
        /\ Cardinality(Wanted(history[b], s)) \in Nat
        /\ Cardinality(Owing(b, s)) \in Nat /\ IsFiniteSet(Owing(b, s))
    BY BalanceTypes
  <1>2. CASE b = x /\ Wants(h, s)
    <2>1. Cardinality(Owing(b, s)') = Cardinality(Owing(b, s)) + 1
      BY <1>1, <1>2, FS_AddElement
    <2>2. history'[b] = Append(history[b], h)
      BY <1>0, <1>2
    <2>3. Cardinality(Wanted(history'[b], s)) = Cardinality(Wanted(history[b], s)) + 1
      BY <1>0, <1>2, <2>2, WantedAppend
    <2>4. outbox[b][s] + lost[b][s] + (Cardinality(Owing(b, s)) + 1)
            = Cardinality(Wanted(history[b], s)) + 1
      BY <1>0, <1>1, Plus DEF Balanced
    <2> QED BY <2>1, <2>3, <2>4 DEF Balanced, Wanted
  <1>3. CASE b = x /\ ~ Wants(h, s)
    <2>1. history'[b] = Append(history[b], h)
      BY <1>0, <1>3
    <2>2. Wanted(history'[b], s) = Wanted(history[b], s)
      BY <1>0, <1>3, <2>1, WantedAppend
    <2> QED BY <1>0, <1>3, <2>2 DEF Balanced, Wanted
  <1>4. CASE b # x
    <2>1. history'[b] = history[b]
      BY <1>0, <1>4
    <2> QED BY <1>0, <1>4, <2>1 DEF Balanced, Wanted
  <1> QED BY <1>2, <1>3, <1>4

(* The call q, and no other, begins to owe a signal. *)
LEMMA OwingGrows ==
    ASSUME NEW q \in Requests, pc \in [Requests -> Steps], pc[q] # "signal",
           Goto(q, "signal"), UNCHANGED loc, NEW b, NEW s
    PROVE  Owing(b, s)' = IF loc[q].booking = b /\ Signal(loc[q].op) = s
                          THEN Owing(b, s) \cup {q} ELSE Owing(b, s)
  <1>1. pc'[q] = "signal" /\ \A r \in Requests \ {q} : pc'[r] = pc[r]
    BY DEF Goto
  <1> QED BY <1>1 DEF Owing

LEMMA OwingAnswered ==
    ASSUME NEW q \in Requests, pc \in [Requests -> Steps], loc \in [Requests -> Call],
           pc[q] # "signal", Reply(q), NEW b, NEW s
    PROVE  Owing(b, s)' = Owing(b, s)
  <1>1. pc'[q] = "idle" /\ \A r \in Requests \ {q} : pc'[r] = pc[r] /\ loc'[r] = loc[r]
    BY DEF Reply, Enter, Goto
  <1> QED BY <1>1 DEF Owing

LEMMA BalancedCommit ==
    ASSUME BalanceInv, [Next]_vars, UNCHANGED lost, NEW q \in Requests,
           \/ moveBookingForAdmin(q) \/ Changed(q)
           \/ \E x \in BookingIds : createPendingBooking(q, x),
           NEW b \in BookingIds, NEW s \in Signals
    PROVE  Balanced(b, s)'
  <1>0. /\ Inv /\ pc \in [Requests -> Steps] /\ loc \in [Requests -> Call]
        /\ history \in [BookingIds -> Seq(HistoryRow)]
    BY DEF BalanceInv, Inv, TypeOK
  <1>1. pc[q] \in {"txWrite", "cas"} /\ UNCHANGED outbox
    BY DEF moveBookingForAdmin, Changed, transitionBookingStatus, createPendingBooking
  <1>2. q \notin Owing(b, s)
    BY <1>1 DEF Owing
  <1>3. ASSUME NEW x \in BookingIds, createPendingBooking(q, x) PROVE Balanced(b, s)'
    <2> DEFINE h == [from |-> None, to |-> "pending"]
    <2>1. h \in HistoryRow /\ ~ Wants(h, s)
      BY NoneAssumption DEF HistoryRow, Wants, Signal, Signals, Target, Status,
                            ActiveBookingStatuses
    <2>2. history' = [history EXCEPT ![x] = Append(history[x], h)]
      BY <1>0, <1>3, PlacedRow
    <2>3. Owing(b, s)' = Owing(b, s)
      BY <1>0, <1>1, <1>3, OwingAnswered DEF createPendingBooking
    <2> HIDE DEF h
    <2> QED BY <1>1, <1>2, <2>1, <2>2, <2>3, BalancedRow
  <1>4. CASE moveBookingForAdmin(q)
    <2> DEFINE x == loc[q].booking
               from == loc[q].from
               h == [from |-> from, to |-> from]
    <2>1. x \in BookingIds /\ from \in ActiveBookingStatuses /\ loc[q].op = "move"
      BY <1>0, <1>4, MovedRow DEF moveBookingForAdmin, Inv, CallsOK, Known
    <2>2. h \in HistoryRow /\ (Wants(h, s) <=> s = Signal("move"))
      BY <2>1 DEF HistoryRow, Wants, Signal, Signals, Target, Status, ActiveBookingStatuses
    <2>3. history' = [history EXCEPT ![x] = Append(history[x], h)]
      BY <1>0, <1>4, MovedRow
    <2>4. Owing(b, s)' = IF loc[q].booking = b /\ Signal(loc[q].op) = s
                         THEN Owing(b, s) \cup {q} ELSE Owing(b, s)
      BY <1>0, <1>1, <1>4, OwingGrows DEF moveBookingForAdmin
    <2>5. Owing(b, s)' = IF b = x /\ Wants(h, s) THEN Owing(b, s) \cup {q} ELSE Owing(b, s)
      BY <2>1, <2>2, <2>4
    <2> HIDE DEF x, h
    <2> QED BY <1>1, <1>2, <2>1, <2>2, <2>3, <2>5, BalancedRow
  <1>5. CASE Changed(q)
    <2> DEFINE x == loc[q].booking
               to == Target(loc[q].op)
               h == [from |-> loc[q].from, to |-> to]
    <2>1. x \in BookingIds /\ isTransitionAllowed(loc[q].from, to) /\ loc[q].op \in Transitions
          /\ loc[q].from \in Status
      BY <1>0, <1>5, ChangedRow
      DEF Changed, transitionBookingStatus, Inv, CallsOK, StepOfOp, BookingRow
    <2>2. to \in Status /\ loc[q].from # to
      BY <2>1 DEF isTransitionAllowed, Status, ActiveBookingStatuses
    <2>3. h \in HistoryRow /\ (Wants(h, s) <=> loc[q].op # "userCancel" /\ s = Signal(loc[q].op))
      <3>1. CASE loc[q].op = "confirm"
        BY <2>1, <2>2, <3>1 DEF HistoryRow, Wants, Signal, Signals, Target
      <3>2. CASE loc[q].op = "adminCancel"
        BY <2>1, <2>2, <3>2 DEF HistoryRow, Wants, Signal, Signals, Target
      <3>3. CASE loc[q].op = "userCancel"
        BY <2>1, <2>2, <3>3 DEF HistoryRow, Wants, Signal, Signals, Target
      <3> QED BY <2>1, <3>1, <3>2, <3>3 DEF Transitions
    <2>4. history' = [history EXCEPT ![x] = Append(history[x], h)]
      BY <1>0, <1>5, ChangedRow
    <2>5. CASE loc[q].op = "userCancel"
      <3>1. Reply(q)
        BY <1>5, <2>5 DEF Changed, transitionBookingStatus, FollowUpStep
      <3>2. Owing(b, s)' = Owing(b, s)
        BY <1>0, <1>1, <3>1, OwingAnswered
      <3> HIDE DEF x, h
      <3> QED BY <1>1, <1>2, <2>1, <2>3, <2>4, <2>5, <3>2, BalancedRow
    <2>6. CASE loc[q].op # "userCancel"
      <3>1. Goto(q, "signal") /\ UNCHANGED loc
        BY <1>5, <2>6 DEF Changed, transitionBookingStatus, FollowUpStep
      <3>2. Owing(b, s)' = IF loc[q].booking = b /\ Signal(loc[q].op) = s
                           THEN Owing(b, s) \cup {q} ELSE Owing(b, s)
        BY <1>0, <1>1, <3>1, OwingGrows
      <3>3. Owing(b, s)' = IF b = x /\ Wants(h, s) THEN Owing(b, s) \cup {q} ELSE Owing(b, s)
        BY <2>3, <2>6, <3>2
      <3> HIDE DEF x, h
      <3> QED BY <1>1, <1>2, <2>1, <2>3, <2>4, <3>3, BalancedRow
    <2> QED BY <2>5, <2>6
  <1> QED BY <1>3, <1>4, <1>5

(* Only a call that leaves without its signal is counted as lost. *)
LEMMA NoneLost ==
    ASSUME BalanceInv, Watch, \A r \in Requests : pc[r] = "signal" => pc'[r] = "signal"
    PROVE  UNCHANGED lost
  BY DEF BalanceInv, Watch, Drops

LEMMA BalancedNext ==
    ASSUME BalanceInv, RaceNext, NEW b \in BookingIds, NEW s \in Signals
    PROVE  Balanced(b, s)'
  <1>0. /\ Inv /\ [Next]_vars /\ Watch /\ Balanced(b, s)
        /\ pc \in [Requests -> Steps] /\ loc \in [Requests -> Call]
    BY BalanceTypes DEF RaceNext
  <1>1. CASE \E q \in Requests : tryCreateNotificationSignal(q)
    BY <1>0, <1>1, BalancedSignal
  <1>2. CASE \E q \in Requests : Abandon(q) /\ pc[q] = "signal"
    BY <1>0, <1>2, BalancedLoss
  <1>3. CASE ~ \E q \in Requests : tryCreateNotificationSignal(q) \/ (Abandon(q) /\ pc[q] = "signal")
    <2>1. \A r \in Requests : pc[r] = "signal" => pc'[r] = "signal" /\ loc'[r] = loc[r]
      BY <1>0, <1>3, SignalStays
    <2>2. UNCHANGED lost
      BY <1>0, <2>1, NoneLost
    <2>3. CASE \E q \in Requests : \/ moveBookingForAdmin(q) \/ Changed(q)
                                   \/ \E x \in BookingIds : createPendingBooking(q, x)
      BY <1>0, <2>2, <2>3, BalancedCommit
    <2>4. CASE ~ \E q \in Requests : \/ moveBookingForAdmin(q) \/ Changed(q)
                                     \/ \E x \in BookingIds : createPendingBooking(q, x)
      <3>1. UNCHANGED <<history, outbox>>
        BY <1>0, <1>3, <2>4, RowsEffect, OutboxEffect
      <3>2. \A r \in Requests : pc'[r] = "signal" => pc[r] = "signal" /\ loc'[r] = loc[r]
        BY <1>0, <2>4, AtSignal
      <3>3. Owing(b, s)' = Owing(b, s)
        BY <2>1, <3>2 DEF Owing
      <3> QED BY <1>0, <2>2, <3>1, <3>3 DEF Balanced, Wanted
    <2> QED BY <2>3, <2>4
  <1> QED BY <1>1, <1>2, <1>3

LEMMA LostTyped ==
    ASSUME BalanceInv, Watch
    PROVE  lost' \in [BookingIds -> [Signals -> Nat]]
  <1>1. ASSUME NEW b \in BookingIds, NEW s \in Signals
        PROVE  (IF \E r \in Requests : Drops(r, b, s) THEN lost[b][s] + 1 ELSE lost[b][s]) \in Nat
    <2>1. lost[b][s] \in Nat
      BY DEF BalanceInv
    <2> QED BY <2>1
  <1> QED BY <1>1 DEF Watch

(* When the calls have been answered, every confirmation, cancellation by  *)
(* the club and move has had its signal or was followed by the loss of its *)
(* call, and no signal was written for anything else.                      *)
THEOREM SignalsOrLosses == RaceSpec => []SignalsAccounted
  <1>1. RaceInit => BalanceInv
    <2> SUFFICES ASSUME RaceInit PROVE BalanceInv
      OBVIOUS
    <2>1. Inv /\ lost \in [BookingIds -> [Signals -> Nat]]
      BY InitInv DEF RaceInit
    <2>2. ASSUME NEW b \in BookingIds, NEW s \in Signals PROVE Balanced(b, s)
      <3>1. outbox[b][s] = 0 /\ lost[b][s] = 0 /\ Owing(b, s) = {} /\ history[b] = <<>>
        BY DEF RaceInit, Init, Owing
      <3>2. Wanted(history[b], s) = {}
        BY <3>1 DEF Wanted
      <3>3. Cardinality(Owing(b, s)) = 0 /\ Cardinality(Wanted(history[b], s)) = 0
        BY <3>1, <3>2, FS_EmptySet
      <3> QED BY <3>1, <3>3 DEF Balanced
    <2> QED BY <2>1, <2>2 DEF BalanceInv
  <1>2. BalanceInv /\ [RaceNext]_raceVars => BalanceInv'
    <2>1. ASSUME BalanceInv, RaceNext PROVE BalanceInv'
      <3>1. Inv'
        BY <2>1, NextInv DEF BalanceInv, RaceNext
      <3>2. \A b \in BookingIds, s \in Signals : Balanced(b, s)'
        BY <2>1, BalancedNext
      <3>3. lost' \in [BookingIds -> [Signals -> Nat]]
        BY <2>1, LostTyped DEF RaceNext
      <3> QED BY <3>1, <3>2, <3>3 DEF BalanceInv
    <2>2. ASSUME BalanceInv, UNCHANGED raceVars PROVE BalanceInv'
      <3>1. Inv'
        BY <2>2, NextInv DEF BalanceInv, raceVars
      <3>2. \A b \in BookingIds, s \in Signals : Balanced(b, s)'
        BY <2>2 DEF BalanceInv, Balanced, Owing, Wanted, raceVars, vars
      <3> QED BY <2>2, <3>1, <3>2 DEF BalanceInv, raceVars
    <2> QED BY <2>1, <2>2
  <1>3. BalanceInv => SignalsAccounted
    <2> SUFFICES ASSUME BalanceInv, \A r \in Requests : pc[r] = "idle",
                        NEW b \in BookingIds, NEW s \in Signals
                 PROVE  outbox[b][s] + lost[b][s] = Cardinality(Announced(b, s))
      BY DEF SignalsAccounted
    <2>1. Owing(b, s) = {} /\ outbox[b][s] \in Nat /\ lost[b][s] \in Nat
      BY BalanceTypes DEF Owing
    <2>2. outbox[b][s] + lost[b][s] + 0 = Cardinality(Wanted(history[b], s))
      BY <2>1, FS_EmptySet DEF BalanceInv, Balanced
    <2> QED BY <2>1, <2>2, WantedIsAnnounced
  <1> QED BY <1>1, <1>2, <1>3, PTL DEF RaceSpec

===============================================================================
