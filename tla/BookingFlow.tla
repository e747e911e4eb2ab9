---------------------------- MODULE BookingFlow ----------------------------
(***************************************************************************)
(* The booking page of the web front end (BookingCreationFlow with its     *)
(* calendar, selectors and slot picker) and what it needs of the API: the  *)
(* free slots of a day, and a request that is refused when they are taken. *)
(*                                                                         *)
(* The page asks for the slots of a day and goes on while the answer is    *)
(* under way.  A question and a request are messages: the API answers them *)
(* in one step, and the answers arrive in any order, or get lost.          *)
(***************************************************************************)
EXTENDS Naturals

CONSTANTS
    Days,
    Rooms,
    Tables,
    RoomOf,      \* the room of each table
    Slots,       \* the slots of a day, numbered
    None,        \* null
    MaxLoads,    \* bound: questions asked by choosing a day or retrying
    MaxPosts,    \* bound: requests sent
    MaxOthers,   \* bound: bookings made, moved or cancelled elsewhere
    Wanted       \* bound: the ranges other people want

VARIABLES
    bookings,   \* the API's active bookings; n is 0 for those of other people
    signedIn,   \* the API accepts the page's session
    view,       \* viewState
    sel,        \* selection
    shown,      \* availability
    sub,        \* submissionState
    created,    \* createdBooking
    loads,      \* questions under way
    posts,      \* requests under way
    sent,       \* number of the last request
    asked,      \* how many questions the visitor has caused
    others,     \* how often other people have booked, moved or cancelled
    changed     \* history: bookings that were cancelled or moved

server == <<bookings, signedIn, others, changed>>
page == <<view, sel, shown, sub, created>>
vars == <<server, page, loads, posts, sent, asked>>

SlotId == Days \X Slots

Range == [day: Days, table: Tables, slots: SUBSET Slots]

Booking == [n: Nat, range: Range]

ASSUME FlowAssumption ==
    /\ RoomOf \in [Tables -> Rooms]
    /\ Wanted \subseteq Range
    /\ Slots \subseteq Nat
    /\ {MaxLoads, MaxPosts, MaxOthers} \subseteq Nat
    /\ None \notin Days \cup Rooms \cup Tables

Offer == [date: Days, free: [Tables -> SUBSET Slots]]

Selection == [date: Days, room: Rooms \cup {None}, table: Tables \cup {None},
              slots: SUBSET SlotId]

Load == [cancelled: BOOLEAN, date: Days, result: {"asked", "offer", "unauthorized", "lost"},
         offer: Offer \cup {None}]

Post == [n: Nat, range: Range,
         result: {"sent", "created", "failed", "unauthorized"}]

(***************************************************************************)
(* What the API says.                                                      *)
(***************************************************************************)
Booked(rows, day, table) ==
    UNION {b.range.slots : b \in {b \in rows : b.range.day = day /\ b.range.table = table}}

getAvailability(day) ==
    [date |-> day, free |-> [t \in Tables |-> Slots \ Booked(bookings, day, t)]]

(***************************************************************************)
(* What the page shows: rooms and tables without a free slot are left out. *)
(***************************************************************************)
OfferedTables(offer, room) ==
    {t \in Tables : RoomOf[t] = room /\ offer.free[t] # {}}

OfferedRooms(offer) == {room \in Rooms : OfferedTables(offer, room) # {}}

SlotIds(offer, table) == {offer.date} \X offer.free[table]

(* Mutant of ensureSelectionStillValid: slots that are gone stay selected. *)
KeepSlots(s, offer) ==
    IF s.room \notin OfferedRooms(offer)
    THEN [s EXCEPT !.room = None, !.table = None, !.slots = {}]
    ELSE s

ensureSelectionStillValid(s, offer) ==
    IF s.room \notin OfferedRooms(offer)
    THEN [s EXCEPT !.room = None, !.table = None, !.slots = {}]
    ELSE IF s.table \notin OfferedTables(offer, s.room)
    THEN [s EXCEPT !.table = None, !.slots = {}]
    ELSE [s EXCEPT !.slots = @ \cap SlotIds(offer, s.table)]

(* Mutant of resolveSelectionInterval: a gap in the selection goes unnoticed. *)
AnySlots(slots) == slots # {}

resolveSelectionInterval(slots) ==
    /\ slots # {}
    /\ \A first, last \in slots, s \in Slots : first <= s /\ s <= last => s \in slots

Selected ==
    {s \in shown.free[sel.table] : <<shown.date, s>> \in sel.slots}

-----------------------------------------------------------------------------
Question(day) ==
    [cancelled |-> FALSE, date |-> day, result |-> "asked", offer |-> None]

Init ==
    /\ bookings = {}
    /\ signedIn = TRUE
    /\ view = "loading"
    /\ \E today \in Days :
        /\ sel = [date |-> today, room |-> None, table |-> None, slots |-> {}]
        /\ loads = {Question(today)}
    /\ shown = None
    /\ sub = "idle"
    /\ created = None
    /\ posts = {}
    /\ sent = 0
    /\ asked = 1
    /\ others = 0
    /\ changed = {}

(***************************************************************************)
(* The effect that depends on the day and on a counter: the question asked *)
(* before is given up, its answer will be dropped.                         *)
(***************************************************************************)
loadAvailability(day) ==
    /\ view' = IF view = "ready" THEN "ready" ELSE "loading"
    /\ loads' = {[l EXCEPT !.cancelled = TRUE] : l \in loads} \cup {Question(day)}

(* A change of the selection forgets how the last request went. *)
onSelectionChange(s) ==
    /\ sel' = s
    /\ sub' = "idle"
    /\ UNCHANGED <<server, shown, created, posts, sent>>

SelectDate(day) ==
    /\ view \in {"loading", "ready"}
    /\ asked < MaxLoads
    /\ asked' = asked + 1
    /\ day # sel.date
    /\ onSelectionChange([sel EXCEPT !.date = day, !.slots = {}])
    /\ loadAvailability(day)

SelectRoom(room) ==
    /\ view = "ready"
    /\ room \in OfferedRooms(shown)
    /\ onSelectionChange([sel EXCEPT !.room = room, !.table = None, !.slots = {}])
    /\ UNCHANGED <<view, loads, asked>>

SelectTable(table) ==
    /\ view = "ready"
    /\ table \in OfferedTables(shown, sel.room)
    /\ onSelectionChange([sel EXCEPT !.table = table, !.slots = {}])
    /\ UNCHANGED <<view, loads, asked>>

toggleSlot(slot) ==
    /\ view = "ready"
    /\ sel.table \in OfferedTables(shown, sel.room)
    /\ slot \in SlotIds(shown, sel.table)
    /\ onSelectionChange([sel EXCEPT !.slots =
            IF slot \in @ THEN @ \ {slot} ELSE @ \cup {slot}])
    /\ UNCHANGED <<view, loads, asked>>

Retry ==
    /\ view = "error"
    /\ asked < MaxLoads
    /\ asked' = asked + 1
    /\ loadAvailability(sel.date)
    /\ UNCHANGED <<server, sel, shown, sub, created, posts, sent>>

-----------------------------------------------------------------------------
(* The button that sends the request. *)

canSubmit ==
    /\ view = "ready"
    /\ sub # "submitting"
    /\ sel.room # None
    /\ sel.table # None
    /\ sel.slots # {}

LoadUnderWay == \E l \in loads : ~l.cancelled

SendRequest ==
    /\ sub' = "submitting"
    /\ sent' = sent + 1
    /\ posts' = posts \cup
        {[n |-> sent + 1, result |-> "sent",
          range |-> [day |-> shown.date, table |-> sel.table, slots |-> Selected]]}

RefuseSelection ==
    /\ sub' = "error"
    /\ UNCHANGED <<sent, posts>>

handleSubmit ==
    /\ canSubmit
    /\ sent < MaxPosts
    /\ created' = None
    /\ \/ resolveSelectionInterval(Selected) /\ SendRequest
       \/ ~resolveSelectionInterval(Selected) /\ RefuseSelection
    /\ UNCHANGED <<server, view, sel, shown, loads, asked>>

-----------------------------------------------------------------------------
(* The API. *)

ServeLoad(l) ==
    /\ l.result = "asked"
    /\ loads' = (loads \ {l}) \cup
        {IF signedIn
         THEN [l EXCEPT !.result = "offer", !.offer = getAvailability(l.date)]
         ELSE [l EXCEPT !.result = "unauthorized"]}
    /\ UNCHANGED <<server, page, posts, sent, asked>>

LoseLoad(l) ==
    /\ l.result = "asked"
    /\ loads' = (loads \ {l}) \cup {[l EXCEPT !.result = "lost"]}
    /\ UNCHANGED <<server, page, posts, sent, asked>>

(* The range is free of the bookings in rows. *)
IsFree(rows, range) == range.slots \cap Booked(rows, range.day, range.table) = {}

Settle(p, result) ==
    /\ posts' = (posts \ {p}) \cup {[p EXCEPT !.result = result]}
    /\ UNCHANGED <<signedIn, others, changed, page, loads, sent, asked>>

(* The booking that a request asks for. *)
BookingOf(p) == [n |-> p.n, range |-> p.range]

createBookingRequest(p) ==
    /\ p.result = "sent" /\ signedIn /\ IsFree(bookings, p.range)
    /\ bookings' = bookings \cup {BookingOf(p)}
    /\ \E result \in {"created", "failed"} : Settle(p, result)

(* The slots are taken, or the request is lost: the page cannot tell. *)
RefuseRequest(p) ==
    /\ p.result = "sent"
    /\ \/ signedIn /\ Settle(p, "failed")
       \/ ~signedIn /\ Settle(p, "unauthorized")
    /\ UNCHANGED bookings

Elsewhere ==
    /\ others < MaxOthers
    /\ others' = others + 1
    /\ UNCHANGED <<signedIn, page, loads, posts, sent, asked>>

BookForSomebody(range) ==
    /\ IsFree(bookings, range)
    /\ bookings' = bookings \cup {[n |-> 0, range |-> range]}
    /\ UNCHANGED changed
    /\ Elsewhere

(* The visitor in another window, or the club, cancels or moves a booking, *)
(* also one the page has just made.                                        *)
Change(b, rows) ==
    /\ bookings' = (bookings \ {b}) \cup rows
    /\ changed' = changed \cup {b.n}
    /\ Elsewhere

cancelBooking(b) == Change(b, {})

adminMoveBooking(b, range) ==
    /\ IsFree(bookings \ {b}, range)
    /\ Change(b, {[b EXCEPT !.range = range]})

SessionEnds ==
    /\ signedIn
    /\ signedIn' = FALSE
    /\ UNCHANGED <<bookings, others, changed, page, loads, posts, sent, asked>>

-----------------------------------------------------------------------------
(* Answers arrive. *)

(* Mutant of IsLive: every answer counts. *)
IsAny(l) == TRUE

IsLive(l) == ~l.cancelled

DropStale(l) ==
    /\ ~IsLive(l)
    /\ UNCHANGED <<view, sel, shown>>

ShowOffer(l) ==
    /\ IsLive(l) /\ l.result = "offer"
    /\ shown' = l.offer
    /\ sel' = ensureSelectionStillValid(sel, l.offer)
    /\ view' = "ready"

(* Mutant of FailLoad: a failed question passes for an answer. *)
FailLoadUnnoticed(l) ==
    /\ IsLive(l)
    /\ \/ l.result = "unauthorized" /\ view' = "unauthenticated"
       \/ l.result = "lost" /\ view' = "ready"
    /\ UNCHANGED <<sel, shown>>

FailLoad(l) ==
    /\ IsLive(l)
    /\ \/ l.result = "unauthorized" /\ view' = "unauthenticated"
       \/ l.result = "lost" /\ view' = "error"
    /\ UNCHANGED <<sel, shown>>

AnswerLoad(l) ==
    /\ l.result # "asked"
    /\ loads' = loads \ {l}
    /\ DropStale(l) \/ ShowOffer(l) \/ FailLoad(l)
    /\ UNCHANGED <<server, sub, created, posts, sent, asked>>

(* Mutant of AnswerCreated: what is shown is not asked for again. *)
AnswerCreatedOnly(p) ==
    /\ p.result = "created"
    /\ created' = BookingOf(p)
    /\ sub' = "success"
    /\ UNCHANGED <<view, loads>>

AnswerCreated(p) ==
    /\ p.result = "created"
    /\ created' = BookingOf(p)
    /\ sub' = "success"
    /\ loadAvailability(sel.date)

AnswerUnauthorized(p) ==
    /\ p.result = "unauthorized"
    /\ view' = "unauthenticated"
    /\ UNCHANGED <<created, sub, loads>>

AnswerFailed(p) ==
    /\ p.result = "failed"
    /\ sub' = "error"
    /\ UNCHANGED <<created, view, loads>>

AnswerPost(p) ==
    /\ posts' = posts \ {p}
    /\ AnswerCreated(p) \/ AnswerUnauthorized(p) \/ AnswerFailed(p)
    /\ UNCHANGED <<server, sel, shown, sent, asked>>

-----------------------------------------------------------------------------
Visitor ==
    \/ \E day \in Days : SelectDate(day)
    \/ \E room \in Rooms : SelectRoom(room)
    \/ \E table \in Tables : SelectTable(table)
    \/ \E slot \in SlotId : toggleSlot(slot)
    \/ Retry
    \/ handleSubmit

Serve ==
    \/ \E l \in loads : ServeLoad(l) \/ LoseLoad(l)
    \/ \E p \in posts : createBookingRequest(p) \/ RefuseRequest(p)

Arrive ==
    \/ \E l \in loads : AnswerLoad(l)
    \/ \E p \in posts : AnswerPost(p)

Others ==
    \/ \E range \in Wanted : BookForSomebody(range)
    \/ \E b \in bookings : cancelBooking(b) \/ \E range \in Wanted : adminMoveBooking(b, range)
    \/ SessionEnds

Next == Visitor \/ Serve \/ Arrive \/ Others

Spec == Init /\ [][Next]_vars

=============================================================================
