----------------------- MODULE AvailabilityProperties -----------------------
(* What owners and members may rely on.                                    *)
EXTENDS Availability

(* Type invariant.  In the table of hours and in that of exceptions a      *)
(* closed day has no times and an open one opens before it closes, however *)
(* edits of the same exception interleave.                                 *)
ClubTypeOK ==
    /\ weekly \in [Days -> Optional(Hours)]
    /\ exceptions \in [Exceptions -> Optional([date: Dates, hours: Hours])]
    /\ spent \subseteq Exceptions
    /\ rooms \in [Rooms -> Optional(BOOLEAN)]
    /\ tables \in [Tables -> Optional(Table)]
    /\ closures \subseteq Closure /\ bookings \subseteq Booking
    /\ \A t \in Tables : tables[t] # None => rooms[tables[t].room] # None
    /\ \A d \in Dates : Cardinality(findScheduleExceptionByDate(d)) <= 1
    /\ {calls, edits} \subseteq Nat /\ overtaken \subseteq Calls
    /\ step \in {"idle", "exception", "weekly", "rooms", "tables", "ranges", "answered"}
    /\ offered \subseteq [table: Tables, iv: [start: Nat, end: Nat]]

(* What call c may change of exception e, of table t and of room r.        *)
MayChange(c, e, field) ==
    /\ pc[c] = "write exception" /\ loc[c].id = e
    /\ loc[c].body[field] # None \/ c \in overtaken

Asked(c, t, field) ==
    pc[c] = "write table" /\ loc[c].id = t /\ loc[c].body[field] # None

(* An edit changes what its request names and nothing else: an edit of a   *)
(* table or a room never undoes another one that came in between, so one   *)
(* that is taken out of use stays so until someone asks for it back.       *)
(* Exceptions are merged with the row as it was read, and an edit there    *)
(* may undo another only if that one was written in between.               *)
OnlyAskedChanges == [][
    /\ \A e \in Exceptions : exceptions[e] # None /\ exceptions'[e] # None =>
        \A f \in {"opensAt", "closesAt"} :
            exceptions[e].hours[f] # exceptions'[e].hours[f] =>
                \E c \in Calls : MayChange(c, e, f)
    /\ \A t \in Tables : tables[t] # None =>
        \A f \in DOMAIN tables[t] : tables[t][f] # tables'[t][f] =>
            \E c \in Calls : Asked(c, t, f)
    /\ \A r \in Rooms : rooms[r] = FALSE /\ rooms'[r] = TRUE =>
        \E c \in Calls :
            pc[c] = "write room" /\ loc[c].id = r /\ loc[c].body.isActive = TRUE]_vars

(* No slot is offered that a closure of the table or a booking overlaps    *)
(* which has been there since the query began; nor one that a closure of   *)
(* its room overlaps, unless the table was moved there meanwhile.          *)
OffersAreFree ==
    \A slot \in offered, o \in stood :
        o.place = slot.table \/ [table |-> slot.table, room |-> o.place] \in ask.listed
            => ~rangesOverlap(slot.iv, o.iv)

(* The checks of createBookingRequest. *)
HoursOf(date) ==
    IF findScheduleExceptionByDate(date) # {}
    THEN exceptions[CHOOSE e \in findScheduleExceptionByDate(date) : TRUE].hours
    ELSE weekly[DayOf[date]]

TableIsActive(t) ==
    tables[t] # None /\ tables[t].isActive /\ rooms[tables[t].room] = TRUE

CanBeBooked(t, iv) ==
    /\ WellFormed(iv, DayMinutes, slotMinutes)
    /\ TableIsActive(t)
    /\ HoursOf(Date) # None /\ ~HoursOf(Date).isClosed
    /\ HoursOf(Date).opensAt <= iv.start /\ iv.end <= HoursOf(Date).closesAt
    /\ \A o \in Obstacles : o.place \in {t, tables[t].room} => ~rangesOverlap(iv, o.iv)

(* As long as nothing has changed since the query began, the answer is     *)
(* right: with opening hours that fit the slot step it offers exactly the  *)
(* slots that can be booked, for tables that were asked for.  Slots are    *)
(* counted from opening time but bookings from midnight, so with other     *)
(* opening hours it offers nothing that can be booked.                     *)
OffersWhatCanBeBooked ==
    step = "answered" /\ asOf = edits =>
        IF ask.hours.opensAt % slotMinutes = 0
        THEN \A l \in ask.listed, s \in 0..DayMinutes :
                LET iv == [start |-> s, end |-> s + ask.duration]
                IN  [table |-> l.table, iv |-> iv] \in offered <=> CanBeBooked(l.table, iv)
        ELSE \A slot \in offered : ~CanBeBooked(slot.table, slot.iv)

=============================================================================
