----------------------------- MODULE MCBooking -----------------------------
(* Small instances of the bookings component for TLC. Instants are hours.  *)
EXTENDS BookingRaces, TLC

Range(s, e) == [start |-> s, end |-> e]

TwoClashing == {Range(2, 4), Range(3, 5)}

OneRange == {Range(2, 4)}

(* One range begins when the other one ends.                               *)
BackToBack == {Range(2, 4), Range(4, 6)}

(* No request may have the third because it runs past midnight.            *)
TwoInTheDay == BackToBack \cup {Range(23, 25)}

AllOpen == {Intervals}

OpenOrClosed == {Intervals, {}}

Rule(limit, notice) == [maxActive |-> limit, minCancel |-> notice]

(* No limit of its own, or one booking. *)
NoneOrOne == {Rule(0, 1), Rule(1, 1)}

(* A notice that is kept or not, depending on when the call comes. *)
OneNotice == {Rule(1, 2)}

Interchangeable == Permutations(Requests) \cup Permutations(BookingIds)
                       \cup Permutations(Users) \cup Permutations(Rooms)

(* Signals and what became of them decide no step: a run whose properties  *)
(* do not speak of them need not tell states apart by them.                *)
NoSignals == <<bookings, history, env, pc, loc, missed>>

=============================================================================
