---------------------------- MODULE BookingLedger ----------------------------
(***************************************************************************)
(* What the club promises about its bookings, with every operation in one  *)
(* step: a request takes a free table, a status moves along the permitted  *)
(* changes, and a booking is only moved to where it clashes with nobody.   *)
(*                                                                         *)
(* The promise is as good as the sight of the caller.  A caller looks at   *)
(* the whole ledger at once; what is written after its look it may or may  *)
(* not see.                                                                *)
(***************************************************************************)
EXTENDS Intervals

CONSTANTS Callers, BookingIds, Users, Tables, Intervals, None

VARIABLES
    ledger,   \* booking id -> entry, or None
    unseen    \* caller -> bookings written since its look

Holding == {"pending", "confirmed"}

Cancelled == {"cancelled_by_user", "cancelled_by_admin"}

(* The permitted changes of status. *)
Permitted ==
    {"pending"} \X ({"confirmed", "expired"} \cup Cancelled)
      \cup {"confirmed"} \X ({"completed"} \cup Cancelled)

Holds(b) == ledger[b] # None /\ ledger[b].status \in Holding

(* Nobody but b, of those the caller c has seen, holds the table t in the  *)
(* range iv.                                                               *)
FreeFor(c, b, t, iv) ==
    \A a \in BookingIds \ ({b} \cup unseen[c]) :
        Holds(a) /\ ledger[a].table = t => ~ rangesOverlap(ledger[a].iv, iv)

(* The bookings in new are written: any caller may have missed that, or    *)
(* looks again.                                                            *)
Noted(new) ==
    /\ unseen' \in [Callers -> SUBSET BookingIds]
    /\ \A c \in Callers : unseen'[c] \in {{}, unseen[c] \cup new}

Request(c, b, u, t, iv) ==
    /\ ledger[b] = None
    /\ FreeFor(c, b, t, iv)
    /\ ledger' = [ledger EXCEPT ![b] = [user |-> u, table |-> t, iv |-> iv,
                                        status |-> "pending"]]
    /\ Noted({b})

ChangeStatus(b, to) ==
    /\ ledger[b] # None
    /\ <<ledger[b].status, to>> \in Permitted
    /\ ledger' = [ledger EXCEPT ![b].status = to]
    /\ Noted({b})

(* A booking that holds nothing any more may be put down anywhere free for *)
(* it too: a move does not see a cancellation that commits just before it. *)
Relocate(c, b, t, iv) ==
    /\ ledger[b] # None
    /\ FreeFor(c, b, t, iv)
    /\ ledger' = [ledger EXCEPT ![b].table = t, ![b].iv = iv]
    /\ Noted({b})

Look == Noted({}) /\ UNCHANGED ledger

Init ==
    /\ ledger = [b \in BookingIds |-> None]
    /\ unseen = [c \in Callers |-> {}]

Next ==
    \/ \E b \in BookingIds :
         \/ \E c \in Callers, t \in Tables, iv \in Intervals :
              (\E u \in Users : Request(c, b, u, t, iv)) \/ Relocate(c, b, t, iv)
         \/ \E to \in {"confirmed", "completed", "expired"} \cup Cancelled : ChangeStatus(b, to)
    \/ Look

Spec == Init /\ [][Next]_<<ledger, unseen>>

=============================================================================
