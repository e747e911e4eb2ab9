----------------------- MODULE BookingFlowProperties -----------------------
(* What the booking page promises.                                         *)
EXTENDS BookingFlow

(* Type invariant of the page, of the messages and of the API's bookings.  *)
FlowTypeOK ==
    /\ bookings \subseteq Booking
    /\ changed \subseteq Nat
    /\ signedIn \in BOOLEAN
    /\ view \in {"loading", "ready", "unauthenticated", "error"}
    /\ sel \in Selection
    /\ shown \in Offer \cup {None}
    /\ view = "ready" => shown \in Offer
    /\ sub \in {"idle", "submitting", "success", "error"}
    /\ created \in Booking \cup {None}
    /\ loads \subseteq Load
    /\ posts \subseteq Post
    /\ {sent, asked, others} \subseteq Nat

(* When the page waits for no answer, the slots it shows are those of the  *)
(* chosen day, whatever days were chosen before and in whatever order the  *)
(* answers came (the effect's `cancelled` flag).                           *)
ShowsChosenDay ==
    view = "ready" /\ ~LoadUnderWay => shown.date = sel.date

(* What is selected is on offer: a room, a table or a slot that disappears *)
(* from an answer, or belongs to another table or day, is not kept.        *)
SelectionIsOffered ==
    view = "ready" =>
        /\ sel.room \in OfferedRooms(shown) \cup {None}
        /\ sel.table \in OfferedTables(shown, sel.room) \cup {None}
        /\ sel.table = None => sel.slots = {}
        /\ sel.table # None => sel.slots \subseteq SlotIds(shown, sel.table)

(* A request asks for one unbroken range of slots and, unless the slots of *)
(* the chosen day are still on their way, for the day in the summary: the  *)
(* page stays usable while it waits, with the slots of the day before.     *)
SendsWhatIsSummarised == [][
    \A p \in posts' : p.n > sent =>
        /\ p.range.slots # {}
        /\ \A a, b \in p.range.slots, s \in Slots :
            a <= s /\ s <= b => s \in p.range.slots
        /\ ~LoadUnderWay => p.range.day = sel.date]_vars

(* The page never offers again what it says is booked, unless somebody has *)
(* cancelled or moved that booking since: after a success the slots are    *)
(* asked for anew, and no older answer overwrites the new one.             *)
OwnBookingNotOffered ==
    created # None /\ created.n \notin changed /\ view = "ready" /\ ~LoadUnderWay
        => (created.range.day = shown.date
                => created.range.slots \cap shown.free[created.range.table] = {})

=============================================================================
