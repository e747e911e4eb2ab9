--------------------------- MODULE BookingCallProofs ---------------------------
(***************************************************************************)
(* Proofs about the calls of the bookings component: a user is told at     *)
(* most once, and the checks of a placement are still worth something when *)
(* it is written.                                                          *)
(***************************************************************************)
EXTENDS BookingProofs

-----------------------------------------------------------------------------
(***************************************************************************)
(* Nobody is told twice.  A status that has been left is never reached     *)
(* again, so of all calls that want to confirm a booking (or to cancel it) *)
(* one at most finds its row in the compare-and-set; only that one goes on *)
(* to write the signal.                                                    *)
(***************************************************************************)
Telling(r, op, b) == pc[r] = "signal" /\ loc[r].op = op /\ loc[r].booking = b

Before(op, b) == bookings[b] = None \/ isTransitionAllowed(bookings[b].status, Target(op))

FollowOnce(op, b) ==
    /\ Before(op, b) => outbox[b][Signal(op)] = 0 /\ \A r \in Requests : ~ Telling(r, op, b)
    /\ \A r \in Requests : Telling(r, op, b) => outbox[b][Signal(op)] = 0
    /\ \A q, r \in Requests : Telling(q, op, b) /\ Telling(r, op, b) => q = r
    /\ outbox[b][Signal(op)] \in {0, 1}

FollowInv == Inv /\ \A op \in {"confirm", "adminCancel"}, b \in BookingIds : FollowOnce(op, b)

(* The three commits and the signal: who gets to "signal", and from where. *)
LEMMA AtSignal ==
    ASSUME Inv, [Next]_vars, NEW r \in Requests, pc'[r] = "signal"
    PROVE  /\ loc'[r] = loc[r]
           /\ pc[r] = "signal" \/ moveBookingForAdmin(r) \/ Changed(r)
  <1> DEFINE Goal == /\ loc'[r] = loc[r]
                     /\ pc[r] = "signal" \/ moveBookingForAdmin(r) \/ Changed(r)
  <1>0. pc \in [Requests -> Steps] /\ loc \in [Requests -> Call]
    BY DEF Inv, TypeOK
  <1>1. CASE UNCHANGED <<pc, loc>>
    BY <1>1
  <1>2. ASSUME NEW q \in Requests, NEW step, NEW c, step # "signal", Enter(q, step, c) PROVE Goal
    BY <1>0, <1>2 DEF Enter, Goto
  <1>3. ASSUME NEW q \in Requests, NEW step, step # "signal", Goto(q, step), UNCHANGED loc
        PROVE  Goal
    BY <1>0, <1>3 DEF Goto
  <1>4. ASSUME NEW q \in Requests, Reply(q) PROVE Goal
    BY <1>2, <1>4 DEF Reply
  <1>5. ASSUME NEW q \in Requests, Arrive(q) PROVE Goal
    BY <1>2, <1>5
    DEF Arrive, createBookingRequest, adminMoveBooking, adminConfirmBooking, adminCancelBooking,
        cancelOwnBooking
  <1>6. ASSUME NEW q \in Requests, Continue(q) PROVE Goal
    <2>1. CASE CheckUser(q) \/ TxStatus(q) \/ TxOverlap(q) \/ ConfirmConflict(q)
      BY <1>3, <1>4, <2>1 DEF CheckUser, TxStatus, TxOverlap, ConfirmConflict
    <2>2. CASE CheckTable(q) \/ resolveScheduleForDate(q) \/ CancelNotice(q) \/ ReadStatus(q)
      BY <1>2, <1>4, <2>2 DEF CheckTable, resolveScheduleForDate, CancelNotice, ReadStatus
    <2>3. ASSUME NEW x \in Queries, AnswerQuery(q, x) PROVE Goal
      BY <1>0, <1>4, <2>3 DEF AnswerQuery, Goto
    <2>4. CASE (\E b \in BookingIds : createPendingBooking(q, b)) \/ tryCreateNotificationSignal(q)
      BY <1>4, <2>4 DEF createPendingBooking, tryCreateNotificationSignal
    <2>5. CASE moveBookingForAdmin(q)
      BY <1>0, <2>5 DEF moveBookingForAdmin, Goto
    <2>6. CASE transitionBookingStatus(q)
      <3>1. CASE Reply(q)
        BY <1>4, <3>1
      <3>2. CASE ~ Reply(q)
        BY <1>0, <2>6, <3>2 DEF transitionBookingStatus, Changed, Goto
      <3> QED BY <3>1, <3>2
    <2> QED BY <1>6, <2>1, <2>2, <2>3, <2>4, <2>5, <2>6 DEF Continue
  <1>7. ASSUME NEW q \in Requests, Abandon(q) PROVE Goal
    BY <1>4, <1>7 DEF Abandon
  <1>8. CASE OwnerEdit \/ Tick
    BY <1>1, <1>8 DEF OwnerEdit, SetBlocked, SetInactive, MoveTable, AddClosure, SetSchedule,
                updateBookingRules, Edit, Tick
  <1>9. CASE UNCHANGED vars
    BY <1>1, <1>9 DEF vars
  <1> QED BY <1>5, <1>6, <1>7, <1>8, <1>9 DEF Next

LEMMA OutboxEffect ==
    ASSUME [Next]_vars
    PROVE  UNCHANGED outbox \/ \E r \in Requests : tryCreateNotificationSignal(r)
  <1> USE DEF db, env
  <1>1. ASSUME NEW r \in Requests, Arrive(r) \/ Abandon(r) PROVE UNCHANGED outbox
    BY <1>1 DEF Arrive, Abandon, createBookingRequest, adminMoveBooking, adminConfirmBooking,
                adminCancelBooking, cancelOwnBooking
  <1>2. ASSUME NEW r \in Requests, Continue(r), ~ tryCreateNotificationSignal(r)
        PROVE  UNCHANGED outbox
    <2>1. CASE CheckUser(r) \/ CheckTable(r) \/ resolveScheduleForDate(r)
      BY <2>1 DEF CheckUser, CheckTable, resolveScheduleForDate
    <2>2. CASE (\E q \in Queries : AnswerQuery(r, q)) \/ TxStatus(r) \/ TxOverlap(r)
      BY <2>2 DEF AnswerQuery, TxStatus, TxOverlap
    <2>3. CASE ConfirmConflict(r) \/ CancelNotice(r) \/ ReadStatus(r)
      BY <2>3 DEF ConfirmConflict, CancelNotice, ReadStatus
    <2>4. CASE (\E b \in BookingIds : createPendingBooking(r, b)) \/ moveBookingForAdmin(r)
               \/ transitionBookingStatus(r)
      BY <2>4 DEF createPendingBooking, moveBookingForAdmin, transitionBookingStatus
    <2> QED BY <1>2, <2>1, <2>2, <2>3, <2>4 DEF Continue
  <1>3. CASE OwnerEdit \/ Tick
    BY <1>3 DEF OwnerEdit, SetBlocked, SetInactive, MoveTable, AddClosure, SetSchedule,
                updateBookingRules, Edit, Tick
  <1>4. CASE UNCHANGED vars
    BY <1>4 DEF vars
  <1> QED BY <1>1, <1>2, <1>3, <1>4 DEF Next

(* What a status has left is behind it for good. *)
LEMMA BeforeShrinks ==
    ASSUME Inv, [Next]_vars, NEW b \in BookingIds, NEW op \in {"confirm", "adminCancel"},
           Before(op, b)'
    PROVE  Before(op, b)
  <1>1. Follows(b)
    BY StatusStep
  <1> QED BY <1>1 DEF Follows, Before, isTransitionAllowed, Target

LEMMA FollowSignal ==
    ASSUME FollowInv, [Next]_vars, NEW s \in Requests, tryCreateNotificationSignal(s),
           NEW op \in {"confirm", "adminCancel"}, NEW b \in BookingIds
    PROVE  FollowOnce(op, b)'
  <1>0. /\ Inv /\ FollowOnce(op, b) /\ pc \in [Requests -> Steps] /\ loc \in [Requests -> Call]
        /\ outbox \in [BookingIds -> [Signals -> Nat]]
    BY DEF FollowInv, Inv, TypeOK
  <1>1. /\ pc[s] = "signal" /\ bookings' = bookings
        /\ outbox' = [outbox EXCEPT ![loc[s].booking][Signal(loc[s].op)] = @ + 1]
        /\ pc'[s] = "idle"
        /\ \A q \in Requests \ {s} : pc'[q] = pc[q] /\ loc'[q] = loc[q]
    BY <1>0 DEF tryCreateNotificationSignal, Reply, Enter, Goto
  <1>2. \A q \in Requests : Telling(q, op, b)' => q # s /\ Telling(q, op, b)
    BY <1>1 DEF Telling
  <1>3. loc[s].op \in {"confirm", "adminCancel", "move"} /\ loc[s].booking \in BookingIds
    BY <1>0, <1>1 DEF Inv, CallsOK, StepOfOp, Known, Transitions
  <1>4. CASE Telling(s, op, b)
    <2>1. outbox[b][Signal(op)] = 0 /\ ~ Before(op, b)
      BY <1>0, <1>4 DEF FollowOnce
    <2>2. outbox'[b][Signal(op)] = 1
      BY <1>0, <1>1, <1>3, <1>4, <2>1 DEF Telling, Signal, Signals
    <2>3. ~ Before(op, b)'
      BY <1>1, <2>1 DEF Before
    <2>4. \A q \in Requests : ~ Telling(q, op, b)'
      BY <1>0, <1>2, <1>4 DEF FollowOnce
    <2> QED BY <2>2, <2>3, <2>4 DEF FollowOnce
  <1>5. CASE ~ Telling(s, op, b)
    <2>1. loc[s].booking # b \/ Signal(loc[s].op) # Signal(op)
      BY <1>1, <1>3, <1>5 DEF Telling, Signal
    <2>2. outbox'[b][Signal(op)] = outbox[b][Signal(op)]
      BY <1>0, <1>1, <1>3, <2>1 DEF Signal, Signals
    <2>3. Before(op, b)' => Before(op, b)
      BY <1>1 DEF Before
    <2> QED BY <1>0, <1>2, <2>2, <2>3 DEF FollowOnce
  <1> QED BY <1>4, <1>5

LEMMA FollowNext ==
    ASSUME FollowInv, [Next]_vars, NEW op \in {"confirm", "adminCancel"}, NEW b \in BookingIds
    PROVE  FollowOnce(op, b)'
  <1>0. Inv /\ FollowOnce(op, b)
    BY DEF FollowInv
  <1>1. CASE \E s \in Requests : tryCreateNotificationSignal(s)
    BY <1>1, FollowSignal
  <1>2. CASE UNCHANGED outbox
    <2>1. Before(op, b)' => Before(op, b)
      BY <1>0, BeforeShrinks
    <2>2. ASSUME NEW q \in Requests, Telling(q, op, b)', ~ Telling(q, op, b)
          PROVE  /\ Changed(q) /\ loc[q].op = op /\ loc[q].booking = b
                 /\ Before(op, b) /\ ~ Before(op, b)'
      <3>1. /\ loc[q].op = op /\ loc[q].booking = b
            /\ moveBookingForAdmin(q) \/ Changed(q)
        BY <1>0, <2>2, AtSignal DEF Telling
      <3>2. Changed(q)
        BY <3>1 DEF moveBookingForAdmin
      <3>3. /\ bookings[b] \in BookingRow /\ isTransitionAllowed(bookings[b].status, Target(op))
            /\ bookings' = [bookings EXCEPT ![b] = [bookings[b] EXCEPT !.status = Target(op)]]
        BY <1>0, <3>1, <3>2, ChangedRow
      <3>4. bookings'[b] = [bookings[b] EXCEPT !.status = Target(op)]
        BY <1>0, <3>3 DEF Inv, TypeOK
      <3>5. bookings'[b].status = Target(op) /\ bookings'[b] \in BookingRow
        BY <3>3, <3>4 DEF BookingRow, Target, Status, ActiveBookingStatuses
      <3>6. ~ isTransitionAllowed(Target(op), Target(op))
        BY DEF isTransitionAllowed, Target
      <3> QED BY <3>1, <3>2, <3>3, <3>5, <3>6, NoneAssumption DEF Before
    <2>3. CASE \A q \in Requests : Telling(q, op, b)' => Telling(q, op, b)
      BY <1>0, <1>2, <2>1, <2>3 DEF FollowOnce
    <2>4. ASSUME NEW q \in Requests, Telling(q, op, b)', ~ Telling(q, op, b)
          PROVE  FollowOnce(op, b)'
      <3>1. Before(op, b) /\ ~ Before(op, b)' /\ Changed(q)
        BY <2>2, <2>4
      <3>2. outbox'[b][Signal(op)] = 0 /\ \A r \in Requests : ~ Telling(r, op, b)
        BY <1>0, <1>2, <3>1 DEF FollowOnce
      <3>3. ASSUME NEW r \in Requests, Telling(r, op, b)' PROVE r = q
        <4>1. Changed(r)
          BY <2>2, <3>2, <3>3
        <4>2. pc[r] = "cas" /\ pc'[r] = "signal"
          BY <3>3, <4>1 DEF Changed, transitionBookingStatus, Telling
        <4>3. r # q => pc'[r] = pc[r]
          BY <1>0, <3>1 DEF Changed, transitionBookingStatus, Reply, Enter, Goto, Inv, TypeOK
        <4> QED BY <4>2, <4>3
      <3> QED BY <3>1, <3>2, <3>3 DEF FollowOnce
    <2> QED BY <2>3, <2>4
  <1> QED BY <1>1, <1>2, OutboxEffect

(* A user is told once at most of a confirmation and once at most of a     *)
(* cancellation, however many admins press the button.                     *)
THEOREM ToldOnce == Spec => []FollowUpOnce
  <1>1. Init => FollowInv
    <2> SUFFICES ASSUME Init PROVE FollowInv
      OBVIOUS
    <2>1. ASSUME NEW op \in {"confirm", "adminCancel"}, NEW b \in BookingIds
          PROVE  FollowOnce(op, b)
      <3>1. outbox[b][Signal(op)] = 0 /\ \A r \in Requests : pc[r] = "idle"
        BY DEF Init, Signal, Signals
      <3> QED BY <3>1 DEF FollowOnce, Telling
    <2> QED BY <2>1, InitInv DEF FollowInv
  <1>2. FollowInv /\ [Next]_vars => FollowInv'
    BY NextInv, FollowNext DEF FollowInv
  <1>3. FollowInv => FollowUpOnce
    BY DEF FollowInv, FollowOnce, FollowUpOnce
  <1> QED BY <1>1, <1>2, <1>3, PTL DEF Spec

-----------------------------------------------------------------------------
(* Call r is still the same call, about the same booking and place.        *)
SameCall(r) ==
    /\ loc'[r].op = loc[r].op
    /\ loc'[r].user = loc[r].user
    /\ loc'[r].booking = loc[r].booking
    /\ loc'[r].table = loc[r].table
    /\ loc'[r].iv = loc[r].iv
    /\ loc[r].op = "move" => loc'[r].from = loc[r].from
    /\ loc[r].op = "create" => loc'[r].rule = loc[r].rule

LEMMA CallKept ==
    ASSUME Inv, [Next]_vars, NEW r \in Requests
    PROVE  loc'[r] = NoCall \/ SameCall(r) \/ Arrive(r)
  <1> DEFINE Goal == loc'[r] = NoCall \/ SameCall(r) \/ Arrive(r)
  <1>0. loc \in [Requests -> Call] /\ CallsOK
    BY DEF Inv, TypeOK
  <1>1. ASSUME loc'[r] = loc[r] PROVE Goal
    BY <1>1 DEF SameCall
  <1>2. ASSUME NEW q \in Requests, Reply(q) PROVE Goal
    <2>1. CASE q = r
      BY <1>0, <1>2, <2>1 DEF Reply, Enter
    <2>2. CASE q # r
      BY <1>0, <1>1, <1>2, <2>2 DEF Reply, Enter
    <2> QED BY <2>1, <2>2
  <1>3. ASSUME NEW q \in Requests, NEW step, NEW c, Enter(q, step, c),
               c.op = loc[q].op, c.booking = loc[q].booking, c.table = loc[q].table,
               c.iv = loc[q].iv, c.user = loc[q].user,
               loc[q].op = "move" => c.from = loc[q].from,
               loc[q].op = "create" => c.rule = loc[q].rule
        PROVE  Goal
    <2>1. CASE q = r
      BY <1>0, <1>3, <2>1 DEF Enter, SameCall
    <2>2. CASE q # r
      BY <1>0, <1>1, <1>3, <2>2 DEF Enter
    <2> QED BY <2>1, <2>2
  <1>4. ASSUME NEW q \in Requests, Arrive(q) PROVE Goal
    <2>1. CASE q = r
      BY <1>4, <2>1
    <2>2. ASSUME q # r, NEW step, NEW c, Enter(q, step, c) PROVE Goal
      BY <1>0, <1>1, <2>2 DEF Enter
    <2> QED BY <1>4, <2>1, <2>2
        DEF Arrive, createBookingRequest, adminMoveBooking, adminConfirmBooking,
            adminCancelBooking, cancelOwnBooking
  <1>5. ASSUME NEW q \in Requests, Continue(q) PROVE Goal
    <2>1. CASE CheckUser(q) \/ TxStatus(q) \/ TxOverlap(q) \/ ConfirmConflict(q)
      BY <1>1, <1>2, <2>1 DEF CheckUser, TxStatus, TxOverlap, ConfirmConflict
    <2>2. CASE CheckTable(q) \/ resolveScheduleForDate(q)
      BY <1>0, <1>2, <1>3, <2>2 DEF CheckTable, resolveScheduleForDate, Call
    <2>3. CASE CancelNotice(q)
      <3>1. loc[q].op # "create"
        BY <1>0, <2>3 DEF CancelNotice, CallsOK, StepOfOp
      <3> QED BY <1>0, <1>2, <1>3, <2>3, <3>1 DEF CancelNotice, Call
    <2>4. CASE ReadStatus(q)
      <3>1. loc[q].op # "move"
        BY <1>0, <2>4 DEF ReadStatus, CallsOK, StepOfOp, Transitions
      <3> QED BY <1>0, <1>2, <1>3, <2>4, <3>1 DEF ReadStatus, Call
    <2>5. ASSUME NEW x \in Queries, AnswerQuery(q, x) PROVE Goal
      <3>1. CASE Reply(q)
        BY <1>2, <3>1
      <3>2. CASE loc' = [loc EXCEPT ![q].todo = @ \ {x}]
        BY <1>0, <3>2 DEF Call, SameCall
      <3> QED BY <2>5, <3>1, <3>2 DEF AnswerQuery
    <2>6. CASE (\E b \in BookingIds : createPendingBooking(q, b)) \/ moveBookingForAdmin(q)
               \/ transitionBookingStatus(q) \/ tryCreateNotificationSignal(q)
      BY <1>1, <1>2, <2>6
      DEF createPendingBooking, moveBookingForAdmin, transitionBookingStatus,
          tryCreateNotificationSignal
    <2> QED BY <1>5, <2>1, <2>2, <2>3, <2>4, <2>5, <2>6 DEF Continue
  <1>6. ASSUME NEW q \in Requests, Abandon(q) PROVE Goal
    BY <1>2, <1>6 DEF Abandon
  <1>7. CASE OwnerEdit \/ Tick
    BY <1>1, <1>7 DEF OwnerEdit, SetBlocked, SetInactive, MoveTable, AddClosure, SetSchedule,
                updateBookingRules, Edit, Tick
  <1>8. CASE UNCHANGED vars
    BY <1>1, <1>8 DEF vars
  <1> QED BY <1>4, <1>5, <1>6, <1>7, <1>8 DEF Next

(* A call steps alone and leaves to owners what is theirs. *)
LEMMA CallAlone ==
    ASSUME Inv, NEW r \in Requests, Arrive(r) \/ Continue(r) \/ Abandon(r)
    PROVE  Alone(r) /\ UNCHANGED env
  <1>0. pc \in [Requests -> Steps] /\ loc \in [Requests -> Call]
    BY DEF Inv, TypeOK
  <1>1. ASSUME NEW step, NEW c, Enter(r, step, c) PROVE Alone(r)
    BY <1>0, <1>1 DEF Enter, Goto, Alone
  <1>2. ASSUME NEW step, Goto(r, step), UNCHANGED loc PROVE Alone(r)
    BY <1>0, <1>2 DEF Goto, Alone
  <1>3. ASSUME Reply(r) PROVE Alone(r)
    BY <1>1, <1>3 DEF Reply
  <1>4. CASE Arrive(r)
    BY <1>1, <1>4
    DEF Arrive, createBookingRequest, adminMoveBooking, adminConfirmBooking, adminCancelBooking,
        cancelOwnBooking
  <1>5. CASE Continue(r)
    <2>1. CASE CheckUser(r) \/ TxStatus(r) \/ TxOverlap(r) \/ ConfirmConflict(r)
      BY <1>2, <1>3, <2>1 DEF CheckUser, TxStatus, TxOverlap, ConfirmConflict
    <2>2. CASE CheckTable(r) \/ resolveScheduleForDate(r) \/ CancelNotice(r) \/ ReadStatus(r)
      BY <1>1, <1>3, <2>2 DEF CheckTable, resolveScheduleForDate, CancelNotice, ReadStatus
    <2>3. ASSUME NEW q \in Queries, AnswerQuery(r, q) PROVE Alone(r) /\ UNCHANGED env
      <3>1. CASE Reply(r)
        BY <1>3, <2>3, <3>1 DEF AnswerQuery
      <3>2. CASE ~ Reply(r)
        BY <1>0, <2>3, <3>2 DEF AnswerQuery, Goto, Alone
      <3> QED BY <3>1, <3>2
    <2>4. CASE (\E b \in BookingIds : createPendingBooking(r, b)) \/ moveBookingForAdmin(r)
               \/ tryCreateNotificationSignal(r)
      BY <1>2, <1>3, <2>4
      DEF createPendingBooking, moveBookingForAdmin, tryCreateNotificationSignal
    <2>5. CASE transitionBookingStatus(r)
      BY <1>2, <1>3, <2>5 DEF transitionBookingStatus
    <2> QED BY <1>5, <2>1, <2>2, <2>3, <2>4, <2>5 DEF Continue
  <1>6. CASE Abandon(r)
    BY <1>3, <1>6 DEF Abandon
  <1> QED BY <1>4, <1>5, <1>6

(* An owner's change is counted, and takes no closure away. *)
LEMMA EditEffect ==
    ASSUME Inv, OwnerEdit \/ Tick
    PROVE  /\ UNCHANGED <<db, pc, loc>>
           /\ \/ UNCHANGED <<club, edits>>
              \/ edits' = edits + 1 /\ club.closures \subseteq club'.closures
  <1>0. club \in Club
    BY DEF Inv, TypeOK
  <1>1. CASE Tick
    BY <1>1 DEF Tick
  <1>2. ASSUME NEW new, Edit(new), club.closures \subseteq new.closures
        PROVE  /\ UNCHANGED <<db, pc, loc>>
               /\ edits' = edits + 1 /\ club.closures \subseteq club'.closures
    BY <1>2 DEF Edit
  <1>3. CASE OwnerEdit
    BY <1>0, <1>2, <1>3 DEF OwnerEdit, SetBlocked, SetInactive, MoveTable, AddClosure, SetSchedule,
                            updateBookingRules, Club
  <1> QED BY <1>1, <1>3

-----------------------------------------------------------------------------
(***************************************************************************)
(* Admission.  What a placement has checked is true of the closures it saw *)
(* for good, and of what owners may change until they change something.    *)
(***************************************************************************)
PastClosures(r) ==
    \/ pc[r] \in {"txStatus", "txOverlap", "txWrite"}
    \/ pc[r] = "queries" /\ "closures" \notin loc[r].todo

PastUser(r) == pc[r] \in {"table", "schedule", "queries", "txStatus", "txOverlap", "txWrite"}

PastTable(r) == pc[r] \in {"schedule", "queries", "txStatus", "txOverlap", "txWrite"}

PastSchedule(r) == pc[r] \in {"queries", "txStatus", "txOverlap", "txWrite"}

Admitted(r) ==
    loc[r].op \in {"create", "move"} =>
        /\ loc[r].asOf <= edits
        /\ loc[r].seen \subseteq club.closures
        /\ loc[r].op = "move" => loc[r].user = None
        /\ PastClosures(r) => ~ ClosedBy(loc[r].seen, loc[r].table, loc[r].room, loc[r].iv)
        /\ loc[r].asOf = edits =>
             /\ PastUser(r) => loc[r].user \notin club.blocked
             /\ PastTable(r) => loc[r].room = club.room[loc[r].table]
             /\ PastTable(r) => TableIsActive(loc[r].table)
             /\ PastSchedule(r) => loc[r].iv \in club.open

LEMMA LaterThan ==
    ASSUME NEW a \in Nat, NEW e \in Nat, a <= e
    PROVE  a <= e + 1 /\ a # e + 1
  OBVIOUS

LEMMA AdmittedByOthers ==
    ASSUME Inv, NEW r \in Requests, Admitted(r), pc'[r] = pc[r], loc'[r] = loc[r],
           \/ UNCHANGED <<club, edits>>
           \/ edits' = edits + 1 /\ club.closures \subseteq club'.closures
    PROVE  Admitted(r)'
  <1>1. CASE UNCHANGED <<club, edits>>
    BY <1>1 DEF Admitted, PastClosures, PastUser, PastTable, PastSchedule, TableIsActive, ClosedBy
  <1>2. CASE edits' = edits + 1 /\ club.closures \subseteq club'.closures
    <2> SUFFICES ASSUME loc[r].op \in {"create", "move"}
                 PROVE  Admitted(r)'
      BY DEF Admitted
    <2>1. loc[r].asOf \in Nat /\ edits \in Nat
      BY DEF Inv, TypeOK, Call
    <2>2. loc[r].asOf <= edits
      BY DEF Admitted
    <2>3. loc[r].asOf <= edits' /\ loc[r].asOf # edits'
      BY <1>2, <2>1, <2>2, LaterThan
    <2>4. PastClosures(r)' => PastClosures(r)
      BY DEF PastClosures
    <2> QED BY <1>2, <2>3, <2>4 DEF Admitted, ClosedBy
  <1> QED BY <1>1, <1>2

LEMMA AdmittedIdle ==
    ASSUME Inv, NEW r \in Requests, Reply(r)
    PROVE  Admitted(r)'
  <1>1. loc'[r] = NoCall
    BY DEF Inv, TypeOK, Reply, Enter
  <1> QED BY <1>1, NoneAssumption DEF Admitted, NoCall, Ops

LEMMA AdmittedOther ==
    ASSUME NEW r \in Requests, loc'[r].op \notin {"create", "move"}
    PROVE  Admitted(r)'
  BY DEF Admitted

(* A call arrives and has checked nothing yet. *)
LEMMA AdmittedArrive ==
    ASSUME Inv, NEW r \in Requests, Arrive(r)
    PROVE  Admitted(r)'
  <1>0. /\ pc \in [Requests -> Steps] /\ loc \in [Requests -> Call] /\ edits \in Nat
        /\ club \in Club
    BY DEF Inv, TypeOK
  <1>1. edits <= edits
    BY <1>0
  <1>2. ASSUME NEW u \in Users, NEW t \in Tables, NEW iv \in Intervals,
               createBookingRequest(r, u, t, iv)
        PROVE  Admitted(r)'
    <2>1. /\ pc'[r] = "user" /\ loc'[r].op = "create" /\ loc'[r].asOf = edits
          /\ loc'[r].seen = club.closures /\ UNCHANGED <<club, edits>>
      BY <1>0, <1>2 DEF createBookingRequest, Enter, Goto, NoCall, env
    <2> QED BY <1>1, <2>1 DEF Admitted, PastClosures, PastUser, PastTable, PastSchedule
  <1>3. ASSUME NEW b \in BookingIds, NEW t \in Tables, NEW iv \in Intervals,
               adminMoveBooking(r, b, t, iv)
        PROVE  Admitted(r)'
    <2>1. /\ pc'[r] = "table" /\ loc'[r].op = "move" /\ loc'[r].asOf = edits
          /\ loc'[r].seen = club.closures /\ loc'[r].user = None /\ UNCHANGED <<club, edits>>
      BY <1>0, <1>3 DEF adminMoveBooking, Enter, Goto, NoCall, env
    <2>2. None \notin club.blocked
      BY <1>0, NoneAssumption DEF Club
    <2> QED BY <1>1, <2>1, <2>2 DEF Admitted, PastClosures, PastUser, PastTable, PastSchedule
  <1>4. ASSUME NEW b \in BookingIds, adminConfirmBooking(r, b) PROVE Admitted(r)'
    BY <1>0, <1>4, AdmittedOther DEF adminConfirmBooking, Enter, NoCall
  <1>5. ASSUME NEW b \in BookingIds, adminCancelBooking(r, b) PROVE Admitted(r)'
    BY <1>0, <1>5, AdmittedOther DEF adminCancelBooking, Enter, NoCall
  <1>6. ASSUME NEW b \in BookingIds, NEW u \in Users, cancelOwnBooking(r, u, b) PROVE Admitted(r)'
    BY <1>0, <1>6, AdmittedOther DEF cancelOwnBooking, Enter, NoCall
  <1> QED BY <1>2, <1>3, <1>4, <1>5, <1>6 DEF Arrive

(* One check more. *)
LEMMA AdmittedContinue ==
    ASSUME Inv, NEW r \in Requests, Admitted(r), Continue(r)
    PROVE  Admitted(r)'
  <1>0. /\ pc \in [Requests -> Steps] /\ loc \in [Requests -> Call] /\ UNCHANGED <<club, edits>>
    BY CallAlone DEF Inv, TypeOK, env
  <1> USE DEF Admitted, PastClosures, PastUser, PastTable, PastSchedule, TableIsActive, ClosedBy
  <1>1. CASE CheckUser(r)
    <2>1. CASE loc[r].user \in club.blocked
      BY <1>1, <2>1, AdmittedIdle DEF CheckUser
    <2>2. CASE loc[r].user \notin club.blocked
      <3>1. pc'[r] = "table" /\ loc' = loc
        BY <1>0, <1>1, <2>2 DEF CheckUser, Goto
      <3> QED BY <1>0, <2>2, <3>1
    <2> QED BY <2>1, <2>2
  <1>2. CASE CheckTable(r)
    <2>1. CASE ~ TableIsActive(loc[r].table)
      BY <1>2, <2>1, AdmittedIdle DEF CheckTable
    <2>2. CASE TableIsActive(loc[r].table)
      <3> DEFINE room == club.room[loc[r].table]
      <3>1. pc[r] = "table" /\ pc'[r] = "schedule" /\ loc'[r] = [loc[r] EXCEPT !.room = room]
        BY <1>0, <1>2, <2>2 DEF CheckTable, Enter, Goto
      <3>2. /\ loc'[r].op = loc[r].op /\ loc'[r].asOf = loc[r].asOf /\ loc'[r].seen = loc[r].seen
            /\ loc'[r].user = loc[r].user /\ loc'[r].table = loc[r].table /\ loc'[r].iv = loc[r].iv
            /\ loc'[r].room = club.room[loc[r].table]
        BY <1>0, <3>1 DEF Call
      <3> HIDE DEF room
      <3> QED BY <1>0, <2>2, <3>1, <3>2
    <2> QED BY <2>1, <2>2
  <1>3. CASE resolveScheduleForDate(r)
    <2>1. CASE loc[r].iv \notin club.open
      BY <1>3, <2>1, AdmittedIdle DEF resolveScheduleForDate
    <2>2. CASE loc[r].iv \in club.open
      <3> DEFINE todo == IF loc[r].op = "create" THEN Queries ELSE Queries \ {"count"}
      <3>1. pc[r] = "schedule" /\ pc'[r] = "queries" /\ loc'[r] = [loc[r] EXCEPT !.todo = todo]
        BY <1>0, <1>3, <2>2 DEF resolveScheduleForDate, Enter, Goto
      <3>2. "closures" \in todo
        BY DEF Queries
      <3> HIDE DEF todo
      <3>3. /\ loc'[r].op = loc[r].op /\ loc'[r].asOf = loc[r].asOf /\ loc'[r].seen = loc[r].seen
            /\ loc'[r].user = loc[r].user /\ loc'[r].table = loc[r].table /\ loc'[r].iv = loc[r].iv
            /\ loc'[r].room = loc[r].room
            /\ loc'[r].todo = todo
        BY <1>0, <3>1 DEF Call
      <3> QED BY <1>0, <2>2, <3>1, <3>2, <3>3
    <2> QED BY <2>1, <2>2
  <1>4. ASSUME NEW q \in Queries, AnswerQuery(r, q) PROVE Admitted(r)'
    <2>1. CASE Refuses(q, loc[r])
      BY <1>4, <2>1, AdmittedIdle DEF AnswerQuery
    <2>2. CASE ~ Refuses(q, loc[r])
      <3>1. /\ pc[r] = "queries" /\ q \in loc[r].todo
            /\ loc'[r] = [loc[r] EXCEPT !.todo = loc[r].todo \ {q}]
            /\ pc'[r] = IF loc[r].todo # {q} THEN "queries"
                        ELSE IF loc[r].op = "create" THEN "txOverlap" ELSE "txStatus"
        BY <1>0, <1>4, <2>2 DEF AnswerQuery, Goto
      <3>2. /\ loc'[r].op = loc[r].op /\ loc'[r].asOf = loc[r].asOf /\ loc'[r].seen = loc[r].seen
            /\ loc'[r].user = loc[r].user /\ loc'[r].table = loc[r].table /\ loc'[r].iv = loc[r].iv
            /\ loc'[r].room = loc[r].room
            /\ loc'[r].todo = loc[r].todo \ {q}
        BY <1>0, <3>1 DEF Call
      <3>3. PastClosures(r)' => q = "closures" \/ PastClosures(r)
        BY <3>1, <3>2
      <3>4. q = "closures" => ~ ClosedBy(club.closures, loc[r].table, loc[r].room, loc[r].iv)
        BY <2>2 DEF Refuses
      <3>5. pc'[r] \in {"queries", "txOverlap", "txStatus"}
        BY <3>1
      <3> QED BY <1>0, <3>1, <3>2, <3>3, <3>4, <3>5
    <2> QED BY <2>1, <2>2
  <1>5. CASE TxStatus(r)
    <2>1. CASE Reply(r)
      BY <2>1, AdmittedIdle
    <2>2. CASE ~ Reply(r)
      <3>1. pc[r] = "txStatus" /\ pc'[r] = "txOverlap" /\ loc' = loc
        BY <1>0, <1>5, <2>2 DEF TxStatus, Goto
      <3> QED BY <1>0, <3>1
    <2> QED BY <2>1, <2>2
  <1>6. CASE TxOverlap(r)
    <2>1. CASE Reply(r)
      BY <2>1, AdmittedIdle
    <2>2. CASE ~ Reply(r)
      <3>1. pc[r] = "txOverlap" /\ pc'[r] = "txWrite" /\ loc' = loc
        BY <1>0, <1>6, <2>2 DEF TxOverlap, Goto
      <3> QED BY <1>0, <3>1
    <2> QED BY <2>1, <2>2
  <1>7. CASE moveBookingForAdmin(r)
    <2>1. pc[r] = "txWrite" /\ pc'[r] = "signal" /\ loc' = loc
      BY <1>0, <1>7 DEF moveBookingForAdmin, Goto
    <2> QED BY <1>0, <2>1
  <1>8. CASE tryCreateNotificationSignal(r) \/ \E b \in BookingIds : createPendingBooking(r, b)
    BY <1>8, AdmittedIdle DEF tryCreateNotificationSignal, createPendingBooking
  <1>9. ASSUME ConfirmConflict(r) \/ CancelNotice(r) \/ ReadStatus(r) \/ transitionBookingStatus(r)
        PROVE  Admitted(r)'
    <2>1. loc[r].op \in Transitions
      BY <1>9 DEF ConfirmConflict, CancelNotice, ReadStatus, transitionBookingStatus, Inv, CallsOK,
                  StepOfOp, Transitions
    <2>2. CASE loc'[r] = NoCall
      BY <2>2, NoneAssumption DEF NoCall, Ops
    <2>3. CASE SameCall(r)
      BY <2>1, <2>3 DEF SameCall, Transitions
    <2>4. ~ Arrive(r)
      BY <1>9 DEF Arrive, createBookingRequest, adminMoveBooking, adminConfirmBooking,
                  adminCancelBooking, cancelOwnBooking, ConfirmConflict, CancelNotice, ReadStatus,
                  transitionBookingStatus
    <2>5. Next
      BY DEF Next
    <2> QED BY <2>2, <2>3, <2>4, <2>5, CallKept
  <1> QED BY <1>1, <1>2, <1>3, <1>4, <1>5, <1>6, <1>7, <1>8, <1>9 DEF Continue

LEMMA AdmittedNext ==
    ASSUME Inv, [Next]_vars, NEW r \in Requests, Admitted(r)
    PROVE  Admitted(r)'
  <1>1. ASSUME NEW q \in Requests, Arrive(q) \/ Continue(q) \/ Abandon(q), q # r
        PROVE  Admitted(r)'
    <2>1. pc'[r] = pc[r] /\ loc'[r] = loc[r] /\ UNCHANGED <<club, edits>>
      BY <1>1, CallAlone DEF Alone, env
    <2> QED BY <2>1, AdmittedByOthers
  <1>2. CASE Arrive(r)
    BY <1>2, AdmittedArrive
  <1>3. CASE Continue(r)
    BY <1>3, AdmittedContinue
  <1>4. CASE Abandon(r)
    BY <1>4, AdmittedIdle DEF Abandon
  <1>5. CASE OwnerEdit \/ Tick
    BY <1>5, EditEffect, AdmittedByOthers
  <1>6. CASE UNCHANGED vars
    BY <1>6, AdmittedByOthers DEF vars
  <1> QED BY <1>1, <1>2, <1>3, <1>4, <1>5, <1>6 DEF Next

(* No placement is made into a closure that its call could have seen, and  *)
(* none against an account, a table or opening hours that were against it  *)
(* all the time: whatever else runs, and with no lock at all.              *)
THEOREM PlacementsAdmitted == Spec => AdmissionSound
  <1> DEFINE I == Inv /\ \A r \in Requests : Admitted(r)
  <1>1. Init => I
    <2> SUFFICES ASSUME Init PROVE I
      OBVIOUS
    <2>1. \A r \in Requests : Admitted(r)
      BY NoneAssumption DEF Init, Admitted, NoCall, Ops
    <2> QED BY <2>1, InitInv
  <1>2. I /\ [Next]_vars => I'
    BY NextInv, AdmittedNext
  <1>3. I /\ [Next]_vars =>
          [\A r \in Requests :
             Places(r) =>
               /\ ~ ClosedBy(loc[r].seen, loc[r].table, loc[r].room, loc[r].iv)
               /\ loc[r].asOf = edits =>
                    /\ loc[r].user \notin club.blocked
                    /\ loc[r].room = club.room[loc[r].table]
                    /\ TableIsActive(loc[r].table)
                    /\ loc[r].iv \in club.open]_vars
    <2> SUFFICES ASSUME I, NEW r \in Requests, pc[r] = "txWrite"
                 PROVE  /\ ~ ClosedBy(loc[r].seen, loc[r].table, loc[r].room, loc[r].iv)
                        /\ loc[r].asOf = edits =>
                             /\ loc[r].user \notin club.blocked
                             /\ loc[r].room = club.room[loc[r].table]
                             /\ TableIsActive(loc[r].table)
                             /\ loc[r].iv \in club.open
      BY DEF Places
    <2>1. loc[r].op \in {"create", "move"}
      BY DEF Inv, CallsOK, StepOfOp
    <2> QED BY <2>1 DEF Admitted, PastClosures, PastUser, PastTable, PastSchedule
  <1> QED BY <1>1, <1>2, <1>3, PTL DEF Spec, AdmissionSound

=============================================================================
