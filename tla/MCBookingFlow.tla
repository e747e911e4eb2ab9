--------------------------- MODULE MCBookingFlow ---------------------------
(* Small values for TLC: a room with one table.                            *)
EXTENDS BookingFlowProperties, TLC

OneRoom == [t \in Tables |-> CHOOSE room \in Rooms : TRUE]

ThreeSlots == 1..3

MiddleSlots == [day: Days, table: Tables, slots: {{2}}]

(* What the rest of a run depends on.  The number of a booking only counts *)
(* while the page says it is booked or is about to, the range of a request *)
(* only until it has failed, and an answer that will be dropped only if it *)
(* shows slots.                                                            *)
StillBooked == IF created # None /\ created.n \in changed THEN None ELSE created

Known(n) ==
    \/ StillBooked # None /\ created.n = n
    \/ \E p \in posts : p.n = n /\ p.result = "created"

Counted == {[b EXCEPT !.n = IF Known(b.n) THEN b.n ELSE 0] : b \in bookings}

Pending == {l \in loads : l.cancelled => l.result \in {"asked", "offer"}}

Alive == {p \in posts : p.result \in {"sent", "created"}}

Rest == <<Counted, signedIn, view, sel, shown, sub, StillBooked, Pending, Alive,
          {<<p.n, p.result>> : p \in posts \ Alive}, sent, asked, others,
          {n \in changed : Known(n)}>>

Alike == Permutations(Days) \cup Permutations(Tables)

=============================================================================
