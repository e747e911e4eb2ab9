-------------------------- MODULE BookingProperties --------------------------
(***************************************************************************)
(* What the bookings component promises, whichever calls are in flight.    *)
(* NoActiveOverlap is what its documents say; the code does not keep it,   *)
(* and BookingRaces says how far it does.                                  *)
(***************************************************************************)
EXTENDS Booking

-----------------------------------------------------------------------------
(* Every variable has its type: a row of bookings exists with all its      *)
(* columns or not at all, and every history row names a target status.     *)
TypeOK ==
    /\ bookings \in [BookingIds -> BookingRow \cup {None}]
    /\ history \in [BookingIds -> Seq(HistoryRow)]
    /\ outbox \in [BookingIds -> [Signals -> Nat]]
    /\ club \in Club
    /\ edits \in Nat
    /\ now \in Nat
    /\ pc \in [Requests -> Steps]
    /\ loc \in [Requests -> Call]

-----------------------------------------------------------------------------
(* Bookings of one table *)

Clash(a, b) == Conflicts(bookings[a], bookings[b].table, bookings[b].iv)

(* No table is promised twice: two bookings that are pending or confirmed  *)
(* never overlap on one table.  createPendingBooking and                   *)
(* moveBookingForAdmin look for a conflict and then write, so two calls    *)
(* that look before either writes both succeed.                            *)
NoActiveOverlap ==
    \A a, b \in Stored :
        a # b /\ IsActive(bookings[a]) /\ IsActive(bookings[b]) => ~ Clash(a, b)

-----------------------------------------------------------------------------
(* Life of one booking *)

(* However many admins and users act on a booking at once, its status only *)
(* moves along isTransitionAllowed, judged against the status it really    *)
(* has at the commit; a new row is pending and a row stays with its user.  *)
StatusFollowsLifecycle ==
    [][\A b \in BookingIds :
         bookings'[b] # bookings[b] =>
            IF bookings[b] = None
            THEN bookings'[b].status = "pending"
            ELSE /\ bookings'[b] # None
                 /\ bookings'[b].user = bookings[b].user
                 /\ \/ bookings'[b].status = bookings[b].status
                    \/ isTransitionAllowed(bookings[b].status, bookings'[b].status)]_vars

(* The rows of a history that record a change of status. *)
Changes(rows) == {i \in DOMAIN rows : rows[i].from # rows[i].to}

(* i is the last change before the row j. *)
LastChangeBefore(rows, i, j) ==
    /\ i \in Changes(rows)
    /\ i < j
    /\ \A k \in Changes(rows) : k <= i \/ k >= j

(* The rows begin with the request, each change was allowed and starts     *)
(* from the status that the last change before it led to, and the last     *)
(* change of all led to status.                                            *)
Explains(rows, status) ==
    /\ rows # <<>>
    /\ rows[1] = [from |-> None, to |-> "pending"]
    /\ \A j \in Changes(rows) \ {1} :
         /\ isTransitionAllowed(rows[j].from, rows[j].to)
         /\ \E i \in Changes(rows) : LastChangeBefore(rows, i, j) /\ rows[i].to = rows[j].from
    /\ \E i \in Changes(rows) :
         LastChangeBefore(rows, i, Len(rows) + 1) /\ rows[i].to = status

(* The status history explains the status of every booking.  A call that   *)
(* lost a race leaves no row that breaks the chain of changes.             *)
StatusHistoryChain ==
    \A b \in BookingIds :
        IF bookings[b] = None
        THEN history[b] = <<>>
        ELSE Explains(history[b], bookings[b].status)

-----------------------------------------------------------------------------
(* Admission of a placement *)

(* The call r commits its placement in this step. *)
Places(r) == pc[r] = "txWrite" /\ bookings' # bookings /\ pc'[r] # "txWrite"

(* A placement is never made into a closure that existed when its call     *)
(* arrived, of the table or of the room that the table was read in, and if *)
(* owners changed nothing while the call ran, the account was in order,    *)
(* the table still in that room and in use, and the club open.  The checks *)
(* of createBookingRequest and adminMoveBooking come long before the       *)
(* commit.                                                                 *)
AdmissionSound ==
    [][\A r \in Requests :
         Places(r) =>
           /\ ~ ClosedBy(loc[r].seen, loc[r].table, loc[r].room, loc[r].iv)
           /\ loc[r].asOf = edits =>
                /\ loc[r].user \notin club.blocked
                /\ loc[r].room = club.room[loc[r].table]
                /\ TableIsActive(loc[r].table)
                /\ loc[r].iv \in club.open]_vars

-----------------------------------------------------------------------------
(* Signals for the bot *)

(* The history rows that a signal s follows. *)
Announced(b, s) ==
    {i \in DOMAIN history[b] :
        LET row == history[b][i]
        IN  CASE s = Signal("confirm")     -> row.from # row.to /\ row.to = Target("confirm")
              [] s = Signal("adminCancel") -> row.to = Target("adminCancel")
              [] s = Signal("move")        -> row.from = row.to}

(* A user is told at most once that a booking was confirmed, and at most   *)
(* once that the club cancelled it, however many admins press the button.  *)
FollowUpOnce ==
    \A b \in BookingIds :
        \A s \in {Signal("confirm"), Signal("adminCancel")} :
            outbox[b][s] <= 1

=============================================================================
