----------------------------- MODULE BookingRaces -----------------------------
(***************************************************************************)
(* What may go wrong with the bookings while calls overlap, and nothing    *)
(* else may.                                                               *)
(*                                                                         *)
(* A handler looks at rows in one statement and relies on what it saw in a *)
(* later one; no lock keeps the rows as they were.  Two history variables  *)
(* beside the program remember what it missed.  They only record: Booking  *)
(* runs as if they were not there.                                         *)
(***************************************************************************)
EXTENDS BookingProperties

VARIABLES
    missed,    \* call -> look -> bookings written since the call took the look
    lost       \* id -> signal -> calls that ended between their commit and it

raceVars == <<vars, missed, lost>>

(* What a call looks at: its own booking, the bookings it must not overlap *)
(* and the bookings of its user.                                           *)
Looks == {"own", "others", "count"}

(* The call r has taken the look and has not used it for the last time.    *)
Relies(r, look) ==
    CASE look = "own" ->
           \/ loc[r].op = "move" /\ pc[r] \in {"txOverlap", "txWrite"}
           \/ loc[r].op = "confirm" /\ pc[r] \in {"conflict", "status", "cas"}
      [] look = "others" ->
           \/ pc[r] = "txWrite"
           \/ loc[r].op = "confirm" /\ pc[r] \in {"status", "cas"}
      [] look = "count" ->
           /\ loc[r].op = "create"
           /\ \/ pc[r] = "queries" /\ "count" \notin loc[r].todo
              \/ pc[r] \in {"txOverlap", "txWrite"}

(* The bookings that a step writes: every write adds a history row.        *)
Written == {b \in BookingIds : history'[b] # history[b]}

(* The call r ends in this step and leaves the signal s of b unwritten.    *)
Drops(r, b, s) ==
    /\ pc[r] = "signal"
    /\ pc'[r] # "signal"
    /\ outbox' = outbox
    /\ loc[r].booking = b
    /\ Signal(loc[r].op) = s

Watch ==
    /\ missed' = [r \in Requests |-> [look \in Looks |->
                    IF Relies(r, look) /\ Relies(r, look)'
                    THEN missed[r][look] \cup Written
                    ELSE {}]]
    /\ lost' = [b \in BookingIds |-> [s \in Signals |->
                    IF \E r \in Requests : Drops(r, b, s)
                    THEN lost[b][s] + 1
                    ELSE lost[b][s]]]

RaceInit ==
    /\ Init
    /\ missed = [r \in Requests |-> [look \in Looks |-> {}]]
    /\ lost = [b \in BookingIds |-> [s \in Signals |-> 0]]

RaceNext == Next /\ Watch

RaceSpec == RaceInit /\ [][RaceNext]_raceVars

(* The call r commits its placement of b, or its confirmation of b.        *)
PlacesBooking(r, b) == pc[r] = "txWrite" /\ pc'[r] # "txWrite" /\ b \in Written

Confirms(r, b) ==
    pc[r] = "cas" /\ pc'[r] # "cas" /\ loc[r].op = "confirm" /\ b \in Written

-----------------------------------------------------------------------------
(* Bookings of one table *)

BothActive(a, b) == IsActive(bookings[a]) /\ IsActive(bookings[b])

BothConfirmed(a, b) ==
    /\ BothActive(a, b)
    /\ bookings[a].status = "confirmed"
    /\ bookings[b].status = "confirmed"

(* Two active bookings come to overlap on one table in one way only: a     *)
(* request or a move commits although the other booking has been written   *)
(* since its transaction looked for overlaps.  Whatever else is in flight, *)
(* no confirmation, no cancellation and no placement that missed nothing   *)
(* makes a table double-booked.                                            *)
DoubleBookingsAreRaces ==
    [][\A a, b \in BookingIds :
         /\ a # b
         /\ (BothActive(a, b) /\ Clash(a, b))'
         /\ ~ (BothActive(a, b) /\ Clash(a, b))
         => \E r \in Requests :
              \/ PlacesBooking(r, a) /\ b \in missed[r]["others"]
              \/ PlacesBooking(r, b) /\ a \in missed[r]["others"]]_raceVars

(* A placement that overlaps slips through the look of createPendingBooking*)
(* or moveBookingForAdmin, and the admins are meant to catch it.  Two      *)
(* confirmed bookings come to overlap only when a second look is overtaken *)
(* as well: a confirmation commits although the other booking has been     *)
(* written since it looked for confirmed ones, or its own booking since it *)
(* read where that is; or a confirmed booking is moved in a race.          *)
ConfirmedClashesAreRaces ==
    [][\A a, b \in BookingIds :
         /\ a # b
         /\ (BothConfirmed(a, b) /\ Clash(a, b))'
         /\ ~ (BothConfirmed(a, b) /\ Clash(a, b))
         => \E r \in Requests, x, y \in {a, b} :
              /\ x # y
              /\ \/ PlacesBooking(r, x) /\ y \in missed[r]["others"]
                 \/ Confirms(r, x) /\ (y \in missed[r]["others"] \/ x \in missed[r]["own"])]_raceVars

(* The calls in flight implement the ledger, in which every operation is   *)
(* one step: the table of bookings changes as if each handler had run at   *)
(* once, less the bookings that a placement did not see.                   *)
Ledger == INSTANCE BookingLedger WITH
            Callers <- Requests,
            ledger  <- bookings,
            unseen  <- [r \in Requests |-> missed[r]["others"]]

ImplementsLedger == Ledger!Spec

-----------------------------------------------------------------------------
(* A move overtaken by a change of status *)

(* The last row of the history of b says what the step did to its status.  *)
TellsTheChange(b) ==
    LET row == history'[b][Len(history'[b])]
    IN  /\ row.from = IF bookings[b] = None THEN None ELSE bookings[b].status
        /\ row.to = bookings'[b].status

(* Every history row starts from the status that the booking had and names *)
(* the one it got.  Only a move may write another: moveBookingForAdmin     *)
(* repeats the status that the call read, so its row is wrong when the     *)
(* booking was written after its transaction had compared the status.      *)
HistoryTellsTheChange ==
    [][\A b \in Written :
         \/ TellsTheChange(b)
         \/ \E r \in Requests : PlacesBooking(r, b) /\ b \in missed[r]["own"]]_raceVars

(* A cancelled booking is over: neither its row nor its history changes    *)
(* any more, unless it was cancelled between the status check of a move's  *)
(* transaction and the UPDATE of that transaction.                         *)
EndedBookingsStay ==
    [][\A b \in Stored :
         ~ IsActive(bookings[b]) /\ (b \in Written \/ bookings'[b] # bookings[b]) =>
           \E r \in Requests : PlacesBooking(r, b) /\ b \in missed[r]["own"]]_raceVars

-----------------------------------------------------------------------------
(* Stale counts and lost signals *)

(* How many active bookings a rule allows; 0 is no limit of its own. *)
Limit(rule) == IF rule.maxActive = 0 THEN DefaultLimit ELSE rule.maxActive

(* A request takes its user over the limit only by bookings that were      *)
(* written after it counted: those it could count were fewer than the      *)
(* limit it read, also at the commit.                                      *)
LimitAsCounted ==
    [][\A r \in Requests :
         Places(r) /\ loc[r].op = "create" =>
           Cardinality(ActiveBookingsOf(loc[r].user) \ missed[r]["count"])
             < Limit(loc[r].rule)]_raceVars

(* When no call is in flight, each confirmation, cancellation by the club  *)
(* and move has had its signal, less one for each call that died, or whose *)
(* insert failed, between its commit and the signal.                       *)
SignalsAccounted ==
    (\A r \in Requests : pc[r] = "idle") =>
        \A b \in BookingIds, s \in Signals :
            outbox[b][s] + lost[b][s] = Cardinality(Announced(b, s))

=============================================================================
