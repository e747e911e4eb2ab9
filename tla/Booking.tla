------------------------------- MODULE Booking -------------------------------
(***************************************************************************)
(* The bookings component of the club API: BookingsService on top of       *)
(* BookingsRepository.                                                     *)
(*                                                                         *)
(* Every HTTP call runs on its own and gives up the processor at every     *)
(* await, so a call is a process (r \in Requests) whose steps are the      *)
(* database statements it waits for.  PostgreSQL runs the transactions at  *)
(* READ COMMITTED: a statement sees what has been committed when it        *)
(* starts, and nothing but the row lock of an UPDATE orders two            *)
(* transactions.  The writes of a transaction are therefore one step, its  *)
(* commit, and each read before them is a step of its own.                 *)
(*                                                                         *)
(* A request slot is reused once its call has been answered.               *)
(***************************************************************************)
EXTENDS Intervals, Sequences, FiniteSets

CONSTANTS
    Requests,     \* calls that may be in flight at the same time
    Users,        \* club members
    BookingIds,   \* rows of the bookings table
    Tables,
    Rooms,
    Intervals,    \* ranges that clients ask for
    Schedules,    \* what the opening hours may admit: sets of ranges
    Rules,        \* values of the active booking rule
    DefaultLimit, \* limit on active bookings that stands for a stored 0
    None,         \* NULL
    DayMinutes,   \* length of a day
    SlotStep      \* slotStepMinutes of the active rule

CONSTANTS
    MaxEdits,     \* bound: changes made by the owner
    MaxHistory,   \* bound: history rows of a booking that is still moved
    MaxTime       \* bound: the clock

ActiveBookingStatuses == {"pending", "confirmed"}

Status == ActiveBookingStatuses \cup
    {"cancelled_by_user", "cancelled_by_admin", "completed", "expired"}

Ops == {"create", "confirm", "adminCancel", "userCancel", "move"}

Queries == {"count", "closures", "overlap"}

Steps == {"idle", "user", "table", "schedule", "queries", "txStatus",
          "txOverlap", "txWrite", "conflict", "rule", "status", "cas", "signal"}

BookingRow == [user: Users, table: Tables, iv: Intervals, status: Status]

HistoryRow == [from: Status \cup {None}, to: Status]

Closure == [place: Tables \cup Rooms, iv: Intervals]

Club == [blocked: SUBSET Users, inactive: SUBSET (Tables \cup Rooms),
         room: [Tables -> Rooms], closures: SUBSET Closure,
         open: Schedules, rule: Rules]

(* What a call remembers between two awaits.  seen and asOf belong to the  *)
(* model: the closures and the owners' changes when the call arrived.      *)
Call == [op: Ops \cup {None}, user: Users \cup {None},
         booking: BookingIds \cup {None}, table: Tables \cup {None},
         room: Rooms \cup {None}, iv: Intervals \cup {None},
         from: Status \cup {None}, rule: Rules \cup {None},
         todo: SUBSET Queries, seen: SUBSET Closure, asOf: Nat]

NoCall == [op |-> None, user |-> None, booking |-> None, table |-> None,
           room |-> None, iv |-> None, from |-> None, rule |-> None, todo |-> {},
           seen |-> {}, asOf |-> 0]

(***************************************************************************)
(* The constants.  A range is a pair of naturals, model values are not     *)
(* confused with each other, and a rule has the two numbers the code reads.*)
(***************************************************************************)
ASSUME ConstantsAssumption ==
    /\ IsFiniteSet(Requests)
    /\ IsFiniteSet(BookingIds)
    /\ Intervals \subseteq [start: Nat, end: Nat]
    /\ Schedules \subseteq SUBSET Intervals
    /\ Rules \subseteq [maxActive: Nat, minCancel: Int]
    /\ DefaultLimit \in Nat \ {0}
    /\ DayMinutes \in Nat \ {0}
    /\ SlotStep \in Nat \ {0}
    /\ MaxEdits \in Nat
    /\ MaxHistory \in Nat
    /\ MaxTime \in Nat

ASSUME NoneAssumption ==
    /\ None \notin BookingRow
    /\ None \notin BookingIds
    /\ None \notin Users
    /\ None \notin Tables
    /\ None \notin Intervals
    /\ None \notin Status
    /\ None \notin Ops

VARIABLES
    bookings,  \* table bookings: id -> row, or None while the id is unused
    history,   \* table booking_status_history: id -> rows, oldest first
    outbox,    \* audit rows booking.notification_requested: id -> signal -> count
    club,      \* what owners edit: users, resources, schedule and rule
    edits,     \* how many changes owners have made (bounded by MaxEdits)
    now,       \* Date.now()
    pc,        \* the statement that a call is about to run
    loc        \* its local variables

db == <<bookings, history, outbox>>
env == <<club, edits, now>>
vars == <<bookings, history, outbox, club, edits, now, pc, loc>>

-----------------------------------------------------------------------------
(* Pure rules of the service. *)

isTransitionAllowed(from, to) ==
    \/ from = "pending" /\ to \in {"confirmed", "cancelled_by_user",
                                   "cancelled_by_admin", "expired"}
    \/ from = "confirmed" /\ to \in {"cancelled_by_user",
                                     "cancelled_by_admin", "completed"}

isAdminMovableStatus(status) == status \in {"pending", "confirmed"}

isUserCancellableStatus(status) == status \in {"pending", "confirmed"}

(* A limit of zero is stored as it is and read as the default, which is 3. *)
resolveActiveBookingLimit(n) == IF n > 0 THEN n ELSE DefaultLimit

resolveMinCancelBeforeMinutes(n) == IF n >= 0 THEN n ELSE 120

(* The status that each kind of call asks for. *)
Target(op) ==
    CASE op = "confirm"     -> "confirmed"
      [] op = "adminCancel" -> "cancelled_by_admin"
      [] op = "userCancel"  -> "cancelled_by_user"

Signals == {"booking_confirmed_user_follow_up",
            "booking_cancelled_user_follow_up",
            "booking_moved_user_follow_up"}

Signal(op) ==
    CASE op = "confirm"     -> "booking_confirmed_user_follow_up"
      [] op = "adminCancel" -> "booking_cancelled_user_follow_up"
      [] op = "move"        -> "booking_moved_user_follow_up"

-----------------------------------------------------------------------------
(* Queries on the committed rows. *)

Stored == {b \in BookingIds : bookings[b] # None}

IsActive(row) == row # None /\ row.status \in ActiveBookingStatuses

ActiveBookingsOf(u) == {b \in Stored : IsActive(bookings[b]) /\ bookings[b].user = u}

Conflicts(row, t, iv) == row.table = t /\ rangesOverlap(row.iv, iv)

(* Mutant of hasOverlappingActiveBooking: pending requests hold no table.  *)
OverlapAmongConfirmed(t, iv, except) ==
    \E b \in Stored \ {except} :
        bookings[b].status = "confirmed" /\ Conflicts(bookings[b], t, iv)

(* Some active booking other than except overlaps; except is None for a    *)
(* booking that does not exist yet.                                        *)
hasOverlappingActiveBooking(t, iv, except) ==
    \E b \in Stored \ {except} : IsActive(bookings[b]) /\ Conflicts(bookings[b], t, iv)

(* Mutant of hasOverlappingConfirmedBooking: only a booking that starts    *)
(* inside the range counts.                                                *)
ConfirmedStartingInside(t, iv, except) ==
    \E b \in Stored \ {except} :
        /\ bookings[b].status = "confirmed"
        /\ bookings[b].table = t
        /\ bookings[b].iv.start > iv.start
        /\ bookings[b].iv.start < iv.end

hasOverlappingConfirmedBooking(t, iv, except) ==
    \E b \in Stored \ {except} :
        bookings[b].status = "confirmed" /\ Conflicts(bookings[b], t, iv)

(* hasOverlappingRoomClosure or hasOverlappingTableClosure. *)
ClosedBy(closures, t, room, iv) ==
    \E c \in closures : c.place \in {t, room} /\ rangesOverlap(c.iv, iv)

TableIsActive(t) == {t, club.room[t]} \cap club.inactive = {}

-----------------------------------------------------------------------------
(* How a call starts and ends. *)

Goto(r, step) == pc' = [pc EXCEPT ![r] = step]

Enter(r, step, call) ==
    /\ Goto(r, step)
    /\ loc' = [loc EXCEPT ![r] = call]

(* The answer, a result or an HTTP error, goes out: locals are gone. *)
Reply(r) == Enter(r, "idle", NoCall)

-----------------------------------------------------------------------------
(* POST /bookings/requests *)

(* Bound: an unused id is left for each request in flight. *)
IdLeft == Cardinality(BookingIds \ Stored)
            > Cardinality({q \in Requests : loc[q].op = "create"})

createBookingRequest(r, u, t, iv) ==
    /\ pc[r] = "idle"
    /\ IdLeft
    /\ WellFormed(iv, DayMinutes, SlotStep)
    /\ Enter(r, "user",
             [NoCall EXCEPT !.op = "create", !.user = u, !.table = t, !.iv = iv,
                            !.rule = club.rule, !.seen = club.closures, !.asOf = edits])
    /\ UNCHANGED <<db, env>>

(* User status, phone and consents; one read of the account in the model:  *)
(* club.blocked holds the users for whom one of the three is missing.      *)
CheckUser(r) ==
    /\ pc[r] = "user"
    /\ IF loc[r].user \in club.blocked
       THEN Reply(r)
       ELSE Goto(r, "table") /\ UNCHANGED loc
    /\ UNCHANGED <<db, env>>

(* PATCH /admin/bookings/:id/move *)

adminMoveBooking(r, b, t, iv) ==
    /\ pc[r] = "idle"
    /\ bookings[b] # None
    /\ isAdminMovableStatus(bookings[b].status)
    /\ WellFormed(iv, DayMinutes, SlotStep)
    /\ Len(history[b]) < MaxHistory
    /\ Enter(r, "table",
             [NoCall EXCEPT !.op = "move", !.booking = b, !.table = t, !.iv = iv,
                            !.from = bookings[b].status,
                            !.seen = club.closures, !.asOf = edits])
    /\ UNCHANGED <<db, env>>

(* From here on a move runs the same statements as a new request, less the *)
(* count of the user's bookings.  The row of the table names its room.     *)
CheckTable(r) ==
    /\ pc[r] = "table"
    /\ IF TableIsActive(loc[r].table)
       THEN Enter(r, "schedule", [loc[r] EXCEPT !.room = club.room[loc[r].table]])
       ELSE Reply(r)
    /\ UNCHANGED <<db, env>>

resolveScheduleForDate(r) ==
    /\ pc[r] = "schedule"
    /\ IF loc[r].iv \in club.open
       THEN Enter(r, "queries",
                  [loc[r] EXCEPT !.todo = IF loc[r].op = "create"
                                          THEN Queries ELSE Queries \ {"count"}])
       ELSE Reply(r)
    /\ UNCHANGED <<db, env>>

(* Mutant of LimitReached: one booking too many. *)
LimitReachedLate(c) ==
    Cardinality(ActiveBookingsOf(c.user)) > resolveActiveBookingLimit(c.rule.maxActive)

LimitReached(c) ==
    Cardinality(ActiveBookingsOf(c.user)) >= resolveActiveBookingLimit(c.rule.maxActive)

(* Mutant of Refuses: closures are not asked for. *)
RefusesOpenly(q, c) ==
    \/ q = "count" /\ LimitReached(c)
    \/ q = "overlap" /\ hasOverlappingActiveBooking(c.table, c.iv, c.booking)

(* One query of the Promise.all refuses the call c. *)
Refuses(q, c) ==
    \/ q = "count" /\ LimitReached(c)
    \/ q = "closures" /\ ClosedBy(club.closures, c.table, c.room, c.iv)
    \/ q = "overlap" /\ hasOverlappingActiveBooking(c.table, c.iv, c.booking)

(* The queries of a Promise.all are answered in any order, the two about   *)
(* closures as one.  The call fails whenever one of them refuses it; the   *)
(* model answers it right then.                                            *)
AnswerQuery(r, q) ==
    /\ pc[r] = "queries"
    /\ q \in loc[r].todo
    /\ IF Refuses(q, loc[r])
       THEN Reply(r)
       ELSE /\ loc' = [loc EXCEPT ![r].todo = @ \ {q}]
            /\ Goto(r, IF loc[r].todo # {q} THEN "queries"
                       ELSE IF loc[r].op = "create" THEN "txOverlap" ELSE "txStatus")
    /\ UNCHANGED <<db, env>>

(* Mutant of TxStatus: the status read at the start is trusted. *)
TxStatusTrusted(r) ==
    /\ pc[r] = "txStatus"
    /\ Goto(r, "txOverlap")
    /\ UNCHANGED <<loc, db, env>>

(* First read of the moving transaction: the status is still the same.     *)
TxStatus(r) ==
    /\ pc[r] = "txStatus"
    /\ IF bookings[loc[r].booking].status = loc[r].from
       THEN Goto(r, "txOverlap") /\ UNCHANGED loc
       ELSE Reply(r)
    /\ UNCHANGED <<db, env>>

(* Mutant of TxOverlap: the conflict query before the transaction is       *)
(* trusted.                                                                *)
TxOverlapTrusted(r) ==
    /\ pc[r] = "txOverlap"
    /\ Goto(r, "txWrite")
    /\ UNCHANGED <<loc, db, env>>

(* The transaction looks for a conflict again before it writes.            *)
TxOverlap(r) ==
    /\ pc[r] = "txOverlap"
    /\ IF hasOverlappingActiveBooking(loc[r].table, loc[r].iv, loc[r].booking)
       THEN Reply(r)
       ELSE Goto(r, "txWrite") /\ UNCHANGED loc
    /\ UNCHANGED <<db, env>>

(* Mutant of NewRow: the status is left out. *)
NewRowWithoutStatus(c) ==
    [user |-> c.user, table |-> c.table, iv |-> c.iv, status |-> None]

NewRow(c) == [user |-> c.user, table |-> c.table, iv |-> c.iv, status |-> "pending"]

(* Commit of a new request: the row and its first history row. *)
createPendingBooking(r, b) ==
    /\ pc[r] = "txWrite"
    /\ loc[r].op = "create"
    /\ bookings[b] = None
    /\ bookings' = [bookings EXCEPT ![b] = NewRow(loc[r])]
    /\ history' = [history EXCEPT ![b] = Append(@, [from |-> None, to |-> "pending"])]
    /\ Reply(r)
    /\ UNCHANGED <<outbox, env>>

(* Mutant of MoveRow: a moved booking is put down as pending again. *)
MoveRowPending(c) == [from |-> c.from, to |-> "pending"]

(* The history row of a move repeats the status that the call read when it *)
(* started.                                                                *)
MoveRow(c) == [from |-> c.from, to |-> c.from]

(* Commit of a move.  The UPDATE names the row by its id only.             *)
moveBookingForAdmin(r) ==
    LET b == loc[r].booking
    IN  /\ pc[r] = "txWrite"
        /\ loc[r].op = "move"
        /\ bookings' = [bookings EXCEPT ![b].table = loc[r].table, ![b].iv = loc[r].iv]
        /\ history' = [history EXCEPT ![b] = Append(@, MoveRow(loc[r]))]
        /\ Goto(r, "signal")
        /\ UNCHANGED <<loc, outbox, env>>

-----------------------------------------------------------------------------
(* Confirmation and cancellation *)

adminConfirmBooking(r, b) ==
    /\ pc[r] = "idle"
    /\ bookings[b] # None
    /\ Enter(r, "conflict",
             [NoCall EXCEPT !.op = "confirm", !.booking = b,
                            !.table = bookings[b].table, !.iv = bookings[b].iv])
    /\ UNCHANGED <<db, env>>

(* Uses the table and the range read by the first statement. *)
ConfirmConflict(r) ==
    /\ pc[r] = "conflict"
    /\ IF hasOverlappingConfirmedBooking(loc[r].table, loc[r].iv, loc[r].booking)
       THEN Reply(r)
       ELSE Goto(r, "status") /\ UNCHANGED loc
    /\ UNCHANGED <<db, env>>

adminCancelBooking(r, b) ==
    /\ pc[r] = "idle"
    /\ bookings[b] # None
    /\ Enter(r, "status", [NoCall EXCEPT !.op = "adminCancel", !.booking = b])
    /\ UNCHANGED <<db, env>>

cancelOwnBooking(r, u, b) ==
    /\ pc[r] = "idle"
    /\ bookings[b] # None
    /\ bookings[b].user = u
    /\ isUserCancellableStatus(bookings[b].status)
    /\ Enter(r, "rule",
             [NoCall EXCEPT !.op = "userCancel", !.user = u, !.booking = b,
                            !.iv = bookings[b].iv])
    /\ UNCHANGED <<db, env>>

TooLate(iv, rule) == iv.start - now < resolveMinCancelBeforeMinutes(rule.minCancel)

(* The rule is read, then the clock, against the range read before. *)
CancelNotice(r) ==
    /\ pc[r] = "rule"
    /\ IF TooLate(loc[r].iv, club.rule)
       THEN Reply(r)
       ELSE Enter(r, "status", [loc[r] EXCEPT !.rule = club.rule])
    /\ UNCHANGED <<db, env>>

(* transitionBookingStatus of the service: read, then decide. *)
ReadStatus(r) ==
    LET status == bookings[loc[r].booking].status
    IN  /\ pc[r] = "status"
        /\ IF isTransitionAllowed(status, Target(loc[r].op))
           THEN Enter(r, "cas", [loc[r] EXCEPT !.from = status])
           ELSE Reply(r)
        /\ UNCHANGED <<db, env>>

(* Mutant of StatusMatches: the update names the row by its id only. *)
StatusMatchesAny(b, from) == bookings[b] # None

(* where: { id, status: fromStatus } finds the row. *)
StatusMatches(b, from) == bookings[b].status = from

(* Mutant of FollowUpStep: the answer goes out before the signal. *)
FollowUpStepNone(op) == "idle"

(* Only what an admin did is followed by a signal to the user. *)
FollowUpStep(op) == IF op = "userCancel" THEN "idle" ELSE "signal"

(* transitionBookingStatus of the repository: compare and set, in the same *)
(* transaction as the history row.                                         *)
transitionBookingStatus(r) ==
    LET b == loc[r].booking
        to == Target(loc[r].op)
    IN  /\ pc[r] = "cas"
        /\ IF StatusMatches(b, loc[r].from)
           THEN /\ bookings' = [bookings EXCEPT ![b].status = to]
                /\ history' = [history EXCEPT ![b] = Append(@, [from |-> loc[r].from,
                                                                to |-> to])]
                /\ IF FollowUpStep(loc[r].op) = "idle"
                   THEN Reply(r)
                   ELSE Goto(r, "signal") /\ UNCHANGED loc
           ELSE Reply(r) /\ UNCHANGED <<bookings, history>>
        /\ UNCHANGED <<outbox, env>>

(* The signal is a row of its own, written after the commit. *)
tryCreateNotificationSignal(r) ==
    /\ pc[r] = "signal"
    /\ outbox' = [outbox EXCEPT ![loc[r].booking][Signal(loc[r].op)] = @ + 1]
    /\ Reply(r)
    /\ UNCHANGED <<bookings, history, env>>

(* A statement fails or the process dies: an open transaction is rolled    *)
(* back, and the signal of a committed one is lost, an error that          *)
(* tryCreateNotificationSignal swallows.                                   *)
Abandon(r) ==
    /\ pc[r] # "idle"
    /\ Reply(r)
    /\ UNCHANGED <<db, env>>

-----------------------------------------------------------------------------
(* What owners change while calls are in flight, one statement each. *)

Edit(new) ==
    /\ edits < MaxEdits
    /\ new # club
    /\ club' = new
    /\ edits' = edits + 1
    /\ UNCHANGED <<db, now, pc, loc>>

SetBlocked(blocked) == Edit([club EXCEPT !.blocked = blocked])

SetInactive(inactive) == Edit([club EXCEPT !.inactive = inactive])

(* updateTable puts a table into another room, whose closures then apply.  *)
MoveTable(t, room) == Edit([club EXCEPT !.room[t] = room])

(* Closures are added, whatever is booked, and never removed. *)
AddClosure(closure) == Edit([club EXCEPT !.closures = @ \cup {closure}])

SetSchedule(open) == Edit([club EXCEPT !.open = open])

updateBookingRules(rule) == Edit([club EXCEPT !.rule = rule])

OwnerEdit ==
    \/ \E u \in Users : \/ SetBlocked(club.blocked \cup {u})
                        \/ SetBlocked(club.blocked \ {u})
    \/ \E p \in Tables \cup Rooms : \/ SetInactive(club.inactive \cup {p})
                                    \/ SetInactive(club.inactive \ {p})
    \/ \E t \in Tables, room \in Rooms : MoveTable(t, room)
    \/ \E c \in Closure : AddClosure(c)
    \/ \E open \in Schedules : SetSchedule(open)
    \/ \E rule \in Rules : updateBookingRules(rule)

Tick ==
    /\ now < MaxTime
    /\ now' = now + 1
    /\ UNCHANGED <<db, club, edits, pc, loc>>

-----------------------------------------------------------------------------
Init ==
    /\ bookings = [b \in BookingIds |-> None]
    /\ history = [b \in BookingIds |-> <<>>]
    /\ outbox = [b \in BookingIds |-> [s \in Signals |-> 0]]
    /\ club \in [blocked: {{}}, inactive: {{}}, room: [Tables -> Rooms],
                 closures: {{}}, open: Schedules, rule: Rules]
    /\ edits = 0
    /\ now = 0
    /\ pc = [r \in Requests |-> "idle"]
    /\ loc = [r \in Requests |-> NoCall]

(* A call arrives. *)
Arrive(r) ==
    \/ \E u \in Users, t \in Tables, iv \in Intervals : createBookingRequest(r, u, t, iv)
    \/ \E b \in BookingIds :
         \/ \E t \in Tables, iv \in Intervals : adminMoveBooking(r, b, t, iv)
         \/ adminConfirmBooking(r, b)
         \/ adminCancelBooking(r, b)
         \/ \E u \in Users : cancelOwnBooking(r, u, b)

(* A call runs its next statement. *)
Continue(r) ==
    \/ CheckUser(r) \/ CheckTable(r) \/ resolveScheduleForDate(r)
    \/ \E q \in Queries : AnswerQuery(r, q)
    \/ TxStatus(r) \/ TxOverlap(r)
    \/ \E b \in BookingIds : createPendingBooking(r, b)
    \/ moveBookingForAdmin(r)
    \/ ConfirmConflict(r) \/ CancelNotice(r) \/ ReadStatus(r)
    \/ transitionBookingStatus(r) \/ tryCreateNotificationSignal(r)

Next ==
    \/ \E r \in Requests : Arrive(r) \/ Continue(r) \/ Abandon(r)
    \/ OwnerEdit
    \/ Tick

Spec == Init /\ [][Next]_vars

=============================================================================
