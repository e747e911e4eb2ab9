------------------------------ MODULE Intervals ------------------------------
(***************************************************************************)
(* Time ranges of the booking API.  A range is a record of two instants in *)
(* minutes, [start |-> s, end |-> e]; the end is exclusive.                *)
(***************************************************************************)
EXTENDS Integers

(* rangesOverlap in the service, and { startAt: { lt }, endAt: { gt } } in *)
(* every overlap query of the repository.                                  *)
rangesOverlap(a, b) == a.start < b.end /\ a.end > b.start

(* Both ends fall on the same calendar day of days that last day minutes.  *)
SameDay(iv, day) == iv.start \div day = iv.end \div day

(* startAt and endAt are multiples of the slot step within their day.      *)
Aligned(iv, day, step) ==
    /\ (iv.start % day) % step = 0
    /\ (iv.end % day) % step = 0

(***************************************************************************)
(* The checks that a requested range passes before any database access:    *)
(* it is not empty, stays within one local day and is aligned to the step. *)
(* A range that ends exactly at midnight ends on the next day.             *)
(***************************************************************************)
WellFormed(iv, day, step) ==
    /\ iv.start < iv.end
    /\ SameDay(iv, day)
    /\ Aligned(iv, day, step)

=============================================================================
