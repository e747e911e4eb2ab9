--------------------------- MODULE BookingFlowProofs ---------------------------
(* Proofs about the booking page, for every number of days, rooms, tables, *)
(* slots, questions and requests.                                          *)
EXTENDS BookingFlowProperties, TLAPS

(* All actions of Next with their parameters bound. *)
Actions ==
    \/ \E day \in Days : SelectDate(day)
    \/ \E room \in Rooms : SelectRoom(room)
    \/ \E table \in Tables : SelectTable(table)
    \/ \E slot \in SlotId : toggleSlot(slot)
    \/ Retry
    \/ handleSubmit
    \/ \E l \in loads : ServeLoad(l) \/ LoseLoad(l)
    \/ \E p \in posts : createBookingRequest(p) \/ RefuseRequest(p)
    \/ \E l \in loads : AnswerLoad(l)
    \/ \E p \in posts : AnswerPost(p)
    \/ \E range \in Wanted : BookForSomebody(range)
    \/ \E b \in bookings : cancelBooking(b) \/ \E range \in Wanted : adminMoveBooking(b, range)
    \/ SessionEnds

LEMMA NextSplits == Next => Actions
  BY Zenon DEF Next, Actions, Visitor, Serve, Arrive, Others

-----------------------------------------------------------------------------
(* Types. *)

(* Beyond the types: an answer is there when a question has been answered, *)
(* and a request carries a number that was given out.                      *)
Answered == \A l \in loads : l.result = "offer" => l.offer \in Offer /\ l.offer.date = l.date

Numbered == \A p \in posts : p.n <= sent

TypeInv == FlowTypeOK /\ Answered /\ Numbered

LEMMA QuestionType ==
    ASSUME NEW day \in Days
    PROVE  /\ Question(day) \in Load /\ ~ Question(day).cancelled
           /\ Question(day).result = "asked" /\ Question(day).date = day
  BY DEF Question, Load

LEMMA OfferType ==
    ASSUME NEW day \in Days
    PROVE  getAvailability(day) \in Offer /\ getAvailability(day).date = day
  BY DEF getAvailability, Offer

LEMMA InitTypes == Init => TypeInv
  BY QuestionType
  DEF Init, TypeInv, FlowTypeOK, Answered, Numbered, Selection

(* What loadAvailability leaves of the questions under way. *)
LEMMA Given ==
    ASSUME loads \subseteq Load, NEW l \in loads
    PROVE  LET old == [l EXCEPT !.cancelled = TRUE]
           IN  /\ old \in Load /\ old.cancelled /\ old.result = l.result
               /\ old.offer = l.offer /\ old.date = l.date
  BY DEF Load

LEMMA LoadTypes ==
    ASSUME TypeInv, NEW day \in Days, loadAvailability(day)
    PROVE  /\ loads' \subseteq Load /\ Answered'
           /\ view' \in {"loading", "ready"}
           /\ view' = "ready" => view = "ready"
           /\ \A l \in loads' : ~ l.cancelled => l = Question(day)
           /\ \E l \in loads' : ~ l.cancelled
  <1>1. loads \subseteq Load
    BY DEF TypeInv, FlowTypeOK
  <1>2. \A l \in loads' : \/ l = Question(day)
                          \/ \E old \in loads : l = [old EXCEPT !.cancelled = TRUE]
    BY DEF loadAvailability
  <1>3. \A l \in loads' : \/ l = Question(day)
                          \/ \E old \in loads : /\ l \in Load /\ l.cancelled
                                                /\ l.result = old.result
                                                /\ l.offer = old.offer /\ l.date = old.date
    <2>1. ASSUME NEW old \in loads
          PROVE  LET l == [old EXCEPT !.cancelled = TRUE]
                 IN  /\ l \in Load /\ l.cancelled /\ l.result = old.result
                     /\ l.offer = old.offer /\ l.date = old.date
      BY <1>1, Given
    <2> QED BY <1>2, <2>1
  <1>4. Question(day) \in loads'
    BY DEF loadAvailability
  <1>5. Answered'
    BY <1>3, QuestionType DEF TypeInv, Answered
  <1> QED BY <1>3, <1>4, <1>5, QuestionType DEF loadAvailability

LEMMA EnsureType ==
    ASSUME NEW s \in Selection, NEW offer \in Offer
    PROVE  ensureSelectionStillValid(s, offer) \in Selection
           /\ ensureSelectionStillValid(s, offer).date = s.date
  BY DEF ensureSelectionStillValid, Selection

LEMMA SettleTypes ==
    ASSUME TypeInv, NEW p \in posts, NEW result \in {"created", "failed", "unauthorized"},
           Settle(p, result)
    PROVE  posts' \subseteq Post /\ Numbered'
  <1> DEFINE new == [p EXCEPT !.result = result]
  <1>1. new \in Post /\ new.n = p.n /\ new.n <= sent
    BY DEF TypeInv, FlowTypeOK, Numbered, Post
  <1>2. posts' = (posts \ {p}) \cup {new} /\ sent' = sent
    BY DEF Settle
  <1> HIDE DEF new
  <1> QED BY <1>1, <1>2 DEF TypeInv, FlowTypeOK, Numbered

(* A booking that is cancelled or moved elsewhere. *)
LEMMA ChangeTypes ==
    ASSUME TypeInv, NEW b \in bookings,
           cancelBooking(b) \/ \E range \in Wanted : adminMoveBooking(b, range)
    PROVE  /\ bookings' \subseteq Booking /\ changed' \subseteq Nat /\ others' \in Nat
           /\ UNCHANGED <<signedIn, page, loads, posts, sent, asked>>
           /\ b.n \in changed' /\ changed \subseteq changed' /\ bookings \subseteq bookings' \cup {b}
  <1>1. b \in Booking /\ b.n \in Nat
    BY DEF TypeInv, FlowTypeOK, Booking
  <1>2. PICK rows \in SUBSET Booking : Change(b, rows)
    <2>1. CASE cancelBooking(b)
      BY <2>1 DEF cancelBooking
    <2>2. ASSUME NEW range \in Wanted, adminMoveBooking(b, range)
          PROVE  \E rows \in SUBSET Booking : Change(b, rows)
      <3>1. [b EXCEPT !.range = range] \in Booking
        BY <1>1, FlowAssumption DEF Booking
      <3> QED BY <2>2, <3>1 DEF adminMoveBooking
    <2> QED BY <2>1, <2>2
  <1>3. bookings' = (bookings \ {b}) \cup rows /\ changed' = changed \cup {b.n}
    BY <1>2 DEF Change
  <1>4. others' = others + 1 /\ UNCHANGED <<signedIn, page, loads, posts, sent, asked>>
    BY <1>2 DEF Change, Elsewhere
  <1>5. bookings \subseteq Booking /\ changed \subseteq Nat /\ others \in Nat
    BY DEF TypeInv, FlowTypeOK
  <1>6. bookings' \subseteq Booking
    BY <1>3, <1>5
  <1>7. changed' \subseteq Nat /\ b.n \in changed' /\ changed \subseteq changed'
    BY <1>1, <1>3, <1>5
  <1>8. bookings \subseteq bookings' \cup {b}
    BY <1>3
  <1>9. others' \in Nat
    BY <1>4, <1>5
  <1> QED BY <1>4, <1>6, <1>7, <1>8, <1>9

LEMMA NextTypes == TypeInv /\ [Next]_vars => TypeInv'
  <1> SUFFICES ASSUME TypeInv, [Next]_vars PROVE TypeInv'
    OBVIOUS
  <1>0. sel \in Selection /\ loads \subseteq Load /\ posts \subseteq Post /\ sel.date \in Days
    BY DEF TypeInv, FlowTypeOK, Selection
  <1>1. CASE UNCHANGED vars
    BY <1>1 DEF vars, server, page, TypeInv, FlowTypeOK, Answered, Numbered
  <1>2. ASSUME NEW s \in Selection, onSelectionChange(s), loads' \subseteq Load, Answered',
               view' \in {"loading", "ready"}, view' = "ready" => view = "ready",
               asked' \in Nat
        PROVE  TypeInv'
    BY <1>2 DEF onSelectionChange, server, TypeInv, FlowTypeOK, Numbered
  <1>3. ASSUME NEW s \in Selection, onSelectionChange(s), UNCHANGED <<view, loads, asked>>,
               view = "ready"
        PROVE  TypeInv'
    BY <1>2, <1>3 DEF TypeInv, FlowTypeOK, Answered
  <1>4. ASSUME NEW day \in Days, SelectDate(day)
        PROVE  TypeInv'
    <2>1. [sel EXCEPT !.date = day, !.slots = {}] \in Selection
      BY <1>0 DEF Selection
    <2> QED BY <1>2, <1>4, <2>1, LoadTypes DEF SelectDate, TypeInv, FlowTypeOK
  <1>5. ASSUME NEW room \in Rooms, SelectRoom(room)
        PROVE  TypeInv'
    <2>1. [sel EXCEPT !.room = room, !.table = None, !.slots = {}] \in Selection
      BY <1>0 DEF Selection
    <2> QED BY <1>3, <1>5, <2>1 DEF SelectRoom
  <1>6. ASSUME NEW table \in Tables, SelectTable(table)
        PROVE  TypeInv'
    <2>1. [sel EXCEPT !.table = table, !.slots = {}] \in Selection
      BY <1>0 DEF Selection
    <2> QED BY <1>3, <1>6, <2>1 DEF SelectTable
  <1>7. ASSUME NEW slot \in SlotId, toggleSlot(slot)
        PROVE  TypeInv'
    <2>1. [sel EXCEPT !.slots = IF slot \in @ THEN @ \ {slot} ELSE @ \cup {slot}] \in Selection
      BY <1>0 DEF Selection
    <2> QED BY <1>3, <1>7, <2>1 DEF toggleSlot
  <1>8. CASE Retry
    BY <1>0, <1>8, LoadTypes DEF Retry, server, TypeInv, FlowTypeOK, Numbered
  <1>9. CASE handleSubmit
    <2>1. CASE SendRequest
      <3> DEFINE p == [n |-> sent + 1, result |-> "sent",
                       range |-> [day |-> shown.date, table |-> sel.table, slots |-> Selected]]
      <3>1. shown \in Offer /\ sel.table \in Tables
        BY <1>0, <1>9 DEF handleSubmit, canSubmit, TypeInv, FlowTypeOK, Selection
      <3>2. Selected \subseteq Slots
        BY <3>1 DEF Selected, Offer
      <3>3. p \in Post /\ p.n = sent + 1
        BY <3>1, <3>2 DEF Post, Range, Offer, TypeInv, FlowTypeOK
      <3>4. posts' = posts \cup {p} /\ sent' = sent + 1 /\ sub' = "submitting"
        BY <2>1 DEF SendRequest
      <3> HIDE DEF p
      <3>5. Numbered'
        BY <1>0, <3>3, <3>4 DEF TypeInv, FlowTypeOK, Numbered, Post
      <3> QED BY <1>9, <3>3, <3>4, <3>5 DEF handleSubmit, server, TypeInv, FlowTypeOK, Answered
    <2>2. CASE RefuseSelection
      BY <1>9, <2>2 DEF handleSubmit, RefuseSelection, server, TypeInv, FlowTypeOK, Answered,
         Numbered
    <2> QED BY <1>9, <2>1, <2>2 DEF handleSubmit
  <1>10. ASSUME NEW l \in loads, ServeLoad(l) \/ LoseLoad(l)
         PROVE  TypeInv'
    <2>1. PICK new : /\ loads' = (loads \ {l}) \cup {new} /\ new \in Load
                     /\ new.result = "offer" => new.offer \in Offer /\ new.offer.date = new.date
      <3>1. CASE ServeLoad(l) /\ signedIn
        <4> DEFINE new == [l EXCEPT !.result = "offer", !.offer = getAvailability(l.date)]
        <4>1. new \in Load /\ new.offer \in Offer /\ new.offer.date = new.date
          BY <1>0, OfferType DEF Load
        <4> QED BY <3>1, <4>1 DEF ServeLoad
      <3>2. CASE ServeLoad(l) /\ ~ signedIn
        <4> DEFINE new == [l EXCEPT !.result = "unauthorized"]
        <4>1. new \in Load /\ new.result # "offer"
          BY <1>0 DEF Load
        <4> QED BY <3>2, <4>1 DEF ServeLoad
      <3>3. CASE LoseLoad(l)
        <4> DEFINE new == [l EXCEPT !.result = "lost"]
        <4>1. new \in Load /\ new.result # "offer"
          BY <1>0 DEF Load
        <4> QED BY <3>3, <4>1 DEF LoseLoad
      <3> QED BY <1>10, <3>1, <3>2, <3>3
    <2>2. loads' \subseteq Load /\ Answered'
      BY <1>0, <2>1 DEF TypeInv, Answered
    <2> QED BY <1>10, <2>2 DEF ServeLoad, LoseLoad, server, page, TypeInv, FlowTypeOK, Numbered
  <1>11. ASSUME NEW p \in posts, createBookingRequest(p) \/ RefuseRequest(p)
         PROVE  TypeInv'
    <2>1. posts' \subseteq Post /\ Numbered'
      BY <1>11, SettleTypes DEF createBookingRequest, RefuseRequest
    <2>2. bookings' \subseteq Booking
      BY <1>0, <1>11 DEF createBookingRequest, RefuseRequest, BookingOf, Booking, TypeInv,
         FlowTypeOK, Post
    <2>3. UNCHANGED <<signedIn, others, changed, page, loads, sent, asked>>
      BY <1>11 DEF createBookingRequest, RefuseRequest, Settle
    <2> QED BY <2>1, <2>2, <2>3 DEF page, TypeInv, FlowTypeOK, Answered
  <1>12. ASSUME NEW l \in loads, AnswerLoad(l)
         PROVE  TypeInv'
    <2>1. loads' \subseteq Load /\ Answered'
      BY <1>0, <1>12 DEF AnswerLoad, TypeInv, Answered
    <2>2. /\ sel' \in Selection /\ shown' \in Offer \cup {None}
          /\ view' \in {"loading", "ready", "unauthenticated", "error"}
          /\ view' = "ready" => shown' \in Offer
      <3>1. CASE DropStale(l) \/ FailLoad(l)
        BY <3>1 DEF DropStale, FailLoad, TypeInv, FlowTypeOK
      <3>2. CASE ShowOffer(l)
        BY <1>0, <3>2, EnsureType DEF ShowOffer, TypeInv, Answered
      <3> QED BY <1>12, <3>1, <3>2 DEF AnswerLoad
    <2> QED BY <1>12, <2>1, <2>2 DEF AnswerLoad, server, TypeInv, FlowTypeOK, Numbered
  <1>13. ASSUME NEW p \in posts, AnswerPost(p)
         PROVE  TypeInv'
    <2>1. posts' \subseteq Post /\ Numbered' /\ BookingOf(p) \in Booking
      BY <1>0, <1>13 DEF AnswerPost, BookingOf, Booking, TypeInv, Numbered, Post
    <2>2. CASE AnswerCreated(p)
      BY <1>0, <1>13, <2>1, <2>2, LoadTypes
      DEF AnswerPost, AnswerCreated, server, TypeInv, FlowTypeOK
    <2>3. CASE AnswerUnauthorized(p) \/ AnswerFailed(p)
      BY <1>13, <2>1, <2>3
      DEF AnswerPost, AnswerUnauthorized, AnswerFailed, server, TypeInv, FlowTypeOK, Answered
    <2> QED BY <1>13, <2>2, <2>3 DEF AnswerPost
  <1>14. ASSUME NEW range \in Wanted, BookForSomebody(range)
         PROVE  TypeInv'
    <2>1. [n |-> 0, range |-> range] \in Booking
      BY FlowAssumption DEF Booking
    <2> QED
      BY <1>14, <2>1 DEF BookForSomebody, Elsewhere, page, TypeInv, FlowTypeOK, Answered, Numbered
  <1>15. ASSUME NEW b \in bookings,
                cancelBooking(b) \/ \E range \in Wanted : adminMoveBooking(b, range)
         PROVE  TypeInv'
    BY <1>15, ChangeTypes DEF page, TypeInv, FlowTypeOK, Answered, Numbered
  <1>16. CASE SessionEnds
    BY <1>16 DEF SessionEnds, page, TypeInv, FlowTypeOK, Answered, Numbered
  <1> QED
    BY <1>1, <1>4, <1>5, <1>6, <1>7, <1>8, <1>9, <1>10, <1>11, <1>12, <1>13, <1>14, <1>15,
       <1>16, NextSplits DEF Actions

LEMMA TypesKept == Spec => []TypeInv
  BY InitTypes, NextTypes, PTL DEF Spec

(* Every variable has its type, and a page that is ready has slots to show *)
(* (FlowTypeOK).                                                           *)
THEOREM FlowTypes == Spec => []FlowTypeOK
  <1>1. TypeInv => FlowTypeOK
    BY DEF TypeInv
  <1> QED BY <1>1, TypesKept, PTL

-----------------------------------------------------------------------------
(* The page shows the chosen day. *)

(* The one question that is not given up is about the chosen day. *)
DayInv == ShowsChosenDay /\ \A l \in loads : ~ l.cancelled => l.date = sel.date

LEMMA InitDay == Init => DayInv
  BY DEF Init, DayInv, ShowsChosenDay, Question

(* A question that is asked leaves only itself. *)
LEMMA AskingDay ==
    ASSUME TypeInv, NEW day \in Days, loadAvailability(day), sel'.date = day
    PROVE  DayInv'
  BY LoadTypes, QuestionType DEF DayInv, ShowsChosenDay, LoadUnderWay

LEMMA NextDay == TypeInv /\ DayInv /\ [Next]_vars => DayInv'
  <1> SUFFICES ASSUME TypeInv, DayInv, [Next]_vars PROVE DayInv'
    OBVIOUS
  <1>0. sel \in Selection /\ loads \subseteq Load /\ sel.date \in Days
    BY DEF TypeInv, FlowTypeOK, Selection
  <1>1. ASSUME UNCHANGED <<loads, shown>>, sel'.date = sel.date, view' = "ready" => view = "ready"
        PROVE  DayInv'
    BY <1>1 DEF DayInv, ShowsChosenDay, LoadUnderWay
  <1>2. ASSUME NEW day \in Days, SelectDate(day)
        PROVE  DayInv'
    <2>1. sel'.date = day
      BY <1>0, <1>2 DEF SelectDate, onSelectionChange, Selection
    <2> QED BY <1>2, <2>1, AskingDay DEF SelectDate
  <1>3. ASSUME NEW room \in Rooms, SelectRoom(room)
        PROVE  DayInv'
    BY <1>0, <1>1, <1>3 DEF SelectRoom, onSelectionChange, Selection
  <1>4. ASSUME NEW table \in Tables, SelectTable(table)
        PROVE  DayInv'
    BY <1>0, <1>1, <1>4 DEF SelectTable, onSelectionChange, Selection
  <1>5. ASSUME NEW slot \in SlotId, toggleSlot(slot)
        PROVE  DayInv'
    BY <1>0, <1>1, <1>5 DEF toggleSlot, onSelectionChange, Selection
  <1>6. CASE Retry
    BY <1>0, <1>6, AskingDay DEF Retry
  <1>7. CASE handleSubmit
    BY <1>1, <1>7 DEF handleSubmit
  <1>8. ASSUME NEW l \in loads, ServeLoad(l) \/ LoseLoad(l)
        PROVE  DayInv'
    <2>1. PICK new : /\ loads' = (loads \ {l}) \cup {new}
                     /\ new.cancelled = l.cancelled /\ new.date = l.date
      <3>1. CASE ServeLoad(l) /\ signedIn
        <4> DEFINE new == [l EXCEPT !.result = "offer", !.offer = getAvailability(l.date)]
        <4>1. new.cancelled = l.cancelled /\ new.date = l.date
          BY <1>0 DEF Load
        <4> QED BY <3>1, <4>1 DEF ServeLoad
      <3>2. CASE ServeLoad(l) /\ ~ signedIn
        <4> DEFINE new == [l EXCEPT !.result = "unauthorized"]
        <4>1. new.cancelled = l.cancelled /\ new.date = l.date
          BY <1>0 DEF Load
        <4> QED BY <3>2, <4>1 DEF ServeLoad
      <3>3. CASE LoseLoad(l)
        <4> DEFINE new == [l EXCEPT !.result = "lost"]
        <4>1. new.cancelled = l.cancelled /\ new.date = l.date
          BY <1>0 DEF Load
        <4> QED BY <3>3, <4>1 DEF LoseLoad
      <3> QED BY <1>8, <3>1, <3>2, <3>3
    <2>2. UNCHANGED <<view, sel, shown>>
      BY <1>8 DEF ServeLoad, LoseLoad, page
    <2> QED BY <2>1, <2>2 DEF DayInv, ShowsChosenDay, LoadUnderWay
  <1>9. ASSUME NEW p \in posts, createBookingRequest(p) \/ RefuseRequest(p)
        PROVE  DayInv'
    BY <1>1, <1>9 DEF createBookingRequest, RefuseRequest, Settle, page
  <1>10. ASSUME NEW l \in loads, AnswerLoad(l)
         PROVE  DayInv'
    <2>1. loads' = loads \ {l}
      BY <1>10 DEF AnswerLoad
    <2>2. CASE DropStale(l)
      BY <2>1, <2>2 DEF DropStale, IsLive, DayInv, ShowsChosenDay, LoadUnderWay
    <2>3. CASE ShowOffer(l)
      <3>1. sel'.date = sel.date /\ shown'.date = l.date /\ ~ l.cancelled
        BY <1>0, <2>3, EnsureType DEF ShowOffer, IsLive, TypeInv, Answered
      <3> QED BY <2>1, <3>1 DEF DayInv, ShowsChosenDay
    <2>4. CASE FailLoad(l)
      BY <2>1, <2>4 DEF FailLoad, DayInv, ShowsChosenDay
    <2> QED BY <1>10, <2>2, <2>3, <2>4 DEF AnswerLoad
  <1>11. ASSUME NEW p \in posts, AnswerPost(p)
         PROVE  DayInv'
    <2>1. CASE AnswerCreated(p)
      BY <1>0, <1>11, <2>1, AskingDay DEF AnswerPost, AnswerCreated
    <2>2. CASE AnswerUnauthorized(p) \/ AnswerFailed(p)
      BY <1>1, <1>11, <2>2 DEF AnswerPost, AnswerUnauthorized, AnswerFailed
    <2> QED BY <1>11, <2>1, <2>2 DEF AnswerPost
  <1>12. ASSUME NEW range \in Wanted, BookForSomebody(range)
          PROVE  DayInv'
    BY <1>1, <1>12 DEF BookForSomebody, Elsewhere, page
  <1>13. CASE SessionEnds
    BY <1>1, <1>13 DEF SessionEnds, page
  <1>14. ASSUME NEW b \in bookings,
                cancelBooking(b) \/ \E range \in Wanted : adminMoveBooking(b, range)
         PROVE  DayInv'
    BY <1>1, <1>14, ChangeTypes DEF page
  <1>15. CASE UNCHANGED vars
    BY <1>1, <1>15 DEF vars, server, page
  <1> QED
    BY <1>2, <1>3, <1>4, <1>5, <1>6, <1>7, <1>8, <1>9, <1>10, <1>11, <1>12, <1>13, <1>14,
       <1>15, NextSplits DEF Actions

LEMMA DayKept == Spec => []DayInv
  BY TypesKept, InitDay, NextDay, PTL DEF Spec

(* A page that waits for nothing shows the day that was chosen last, in    *)
(* whatever order answers come (ShowsChosenDay).                           *)
THEOREM ChosenDayShown == Spec => []ShowsChosenDay
  <1>1. DayInv => ShowsChosenDay
    BY DEF DayInv
  <1> QED BY <1>1, DayKept, PTL

-----------------------------------------------------------------------------
(* What is sent. *)

(* A request is born when the button is pressed, from the slots selected,  *)
(* and its place in the set of requests tells it from older ones.          *)
LEMMA StepSends ==
    ASSUME TypeInv, DayInv, [Next]_vars, NEW p \in posts', p.n > sent
    PROVE  /\ p.range.slots # {}
           /\ \A a, b \in p.range.slots, s \in Slots : a <= s /\ s <= b => s \in p.range.slots
           /\ ~ LoadUnderWay => p.range.day = sel.date
  <1>1. posts \subseteq Post /\ sent \in Nat /\ \A old \in posts : old.n \in Nat /\ ~ (old.n > sent)
    BY DEF TypeInv, FlowTypeOK, Numbered, Post
  <1>2. ~ (posts' \subseteq posts)
    BY <1>1
  <1>3. ~ \E old \in posts, result \in {"created", "failed", "unauthorized"} : Settle(old, result)
    <2> SUFFICES ASSUME NEW old \in posts, NEW result \in {"created", "failed", "unauthorized"},
                        Settle(old, result)
                 PROVE  FALSE
      OBVIOUS
    <2>1. p \in posts \/ p = [old EXCEPT !.result = result]
      BY DEF Settle
    <2>2. p = [old EXCEPT !.result = result] => p.n = old.n
      BY <1>1 DEF Post
    <2> QED BY <1>1, <2>1, <2>2
  <1>4. handleSubmit
    <2>1. Actions
      BY <1>2, NextSplits DEF vars
    <2>2. ~ \E old \in posts : createBookingRequest(old) \/ RefuseRequest(old)
      BY <1>3 DEF createBookingRequest, RefuseRequest
    <2>3. ~ \E old \in posts : AnswerPost(old)
      BY <1>2 DEF AnswerPost
    <2>4. ~ \E l \in loads : ServeLoad(l) \/ LoseLoad(l) \/ AnswerLoad(l)
      BY <1>2 DEF ServeLoad, LoseLoad, AnswerLoad
    <2>5. ~ \/ \E range \in Wanted : BookForSomebody(range)
            \/ \E b \in bookings : cancelBooking(b) \/ \E range \in Wanted : adminMoveBooking(b, range)
      BY <1>2 DEF BookForSomebody, cancelBooking, adminMoveBooking, Change, Elsewhere
    <2>6. ~ (SessionEnds \/ Retry \/ \E day \in Days : SelectDate(day))
      BY <1>2 DEF SessionEnds, Retry, SelectDate, onSelectionChange
    <2>7. ~ \/ \E room \in Rooms : SelectRoom(room)
            \/ \E table \in Tables : SelectTable(table)
            \/ \E slot \in SlotId : toggleSlot(slot)
      BY <1>2 DEF SelectRoom, SelectTable, toggleSlot, onSelectionChange
    <2> QED BY <2>1, <2>2, <2>3, <2>4, <2>5, <2>6, <2>7 DEF Actions
  <1>5. /\ view = "ready" /\ resolveSelectionInterval(Selected)
        /\ p = [n |-> sent + 1, result |-> "sent",
                range |-> [day |-> shown.date, table |-> sel.table, slots |-> Selected]]
    BY <1>1, <1>2, <1>4 DEF handleSubmit, canSubmit, SendRequest, RefuseSelection
  <1>6. p.range.slots = Selected /\ p.range.day = shown.date
    BY <1>5
  <1>7. ~ LoadUnderWay => shown.date = sel.date
    BY <1>5 DEF DayInv, ShowsChosenDay
  <1> QED BY <1>5, <1>6, <1>7 DEF resolveSelectionInterval

(* A request asks for one unbroken range of slots, on the day the visitor  *)
(* sees unless its slots are on their way (SendsWhatIsSummarised).         *)
THEOREM RequestsAreSummarised == Spec => SendsWhatIsSummarised
  <1>1. TypeInv /\ DayInv /\ [Next]_vars =>
          [\A p \in posts' : p.n > sent =>
              /\ p.range.slots # {}
              /\ \A a, b \in p.range.slots, s \in Slots :
                  a <= s /\ s <= b => s \in p.range.slots
              /\ ~LoadUnderWay => p.range.day = sel.date]_vars
    BY StepSends
  <1> QED BY <1>1, TypesKept, DayKept, PTL DEF Spec, SendsWhatIsSummarised

-----------------------------------------------------------------------------
(* What is selected is on offer. *)

LEMMA InitSelection == Init => SelectionIsOffered
  BY DEF Init, SelectionIsOffered

(* An answer keeps of a selection what it offers. *)
LEMMA EnsureOffered ==
    ASSUME NEW s \in Selection, NEW offer \in Offer
    PROVE  LET new == ensureSelectionStillValid(s, offer)
           IN  /\ new.room \in OfferedRooms(offer) \cup {None}
               /\ new.table \in OfferedTables(offer, new.room) \cup {None}
               /\ new.table = None => new.slots = {}
               /\ new.table # None => new.slots \subseteq SlotIds(offer, new.table)
  <1> DEFINE new == ensureSelectionStillValid(s, offer)
  <1>1. None \notin OfferedTables(offer, s.room)
    BY FlowAssumption DEF OfferedTables
  <1>2. CASE s.room \notin OfferedRooms(offer)
    <2>1. new.room = None /\ new.table = None /\ new.slots = {}
      BY <1>2 DEF ensureSelectionStillValid, Selection
    <2> QED BY <2>1
  <1>3. CASE s.room \in OfferedRooms(offer) /\ s.table \notin OfferedTables(offer, s.room)
    <2>1. new.room = s.room /\ new.table = None /\ new.slots = {}
      BY <1>3 DEF ensureSelectionStillValid, Selection
    <2> QED BY <1>3, <2>1
  <1>4. CASE s.room \in OfferedRooms(offer) /\ s.table \in OfferedTables(offer, s.room)
    <2>1. /\ new.room = s.room /\ new.table = s.table
          /\ new.slots = s.slots \cap SlotIds(offer, s.table)
      BY <1>4 DEF ensureSelectionStillValid, Selection
    <2> QED BY <1>1, <1>4, <2>1
  <1> QED BY <1>2, <1>3, <1>4

LEMMA NextSelection == TypeInv /\ SelectionIsOffered /\ [Next]_vars => SelectionIsOffered'
  <1> SUFFICES ASSUME TypeInv, SelectionIsOffered, [Next]_vars PROVE SelectionIsOffered'
    OBVIOUS
  <1> USE DEF SelectionIsOffered
  <1>0. sel \in Selection
    BY DEF TypeInv, FlowTypeOK
  <1>1. ASSUME UNCHANGED <<sel, shown>>, view' = "ready" => view = "ready"
        PROVE  SelectionIsOffered'
    BY <1>1
  <1>2. ASSUME NEW day \in Days, SelectDate(day)
        PROVE  SelectionIsOffered'
    <2>1. sel'.room = sel.room /\ sel'.table = sel.table /\ sel'.slots = {} /\ shown' = shown
      BY <1>0, <1>2 DEF SelectDate, onSelectionChange, Selection
    <2>2. view' = "ready" => view = "ready"
      BY <1>2 DEF SelectDate, loadAvailability
    <2> QED BY <2>1, <2>2
  <1>3. ASSUME NEW room \in Rooms, SelectRoom(room)
        PROVE  SelectionIsOffered'
    <2>1. sel'.room = room /\ sel'.table = None /\ sel'.slots = {} /\ shown' = shown
      BY <1>0, <1>3 DEF SelectRoom, onSelectionChange, Selection
    <2> QED BY <1>3, <2>1 DEF SelectRoom
  <1>4. ASSUME NEW table \in Tables, SelectTable(table)
        PROVE  SelectionIsOffered'
    <2>1. sel'.room = sel.room /\ sel'.table = table /\ sel'.slots = {} /\ shown' = shown
      BY <1>0, <1>4 DEF SelectTable, onSelectionChange, Selection
    <2> QED BY <1>4, <2>1 DEF SelectTable
  <1>5. ASSUME NEW slot \in SlotId, toggleSlot(slot)
        PROVE  SelectionIsOffered'
    <2>1. /\ sel'.room = sel.room /\ sel'.table = sel.table /\ shown' = shown
          /\ sel'.slots \subseteq sel.slots \cup {slot}
      BY <1>0, <1>5 DEF toggleSlot, onSelectionChange, Selection
    <2>2. sel.table # None
      BY <1>5, FlowAssumption DEF toggleSlot, OfferedTables
    <2> QED BY <1>5, <2>1, <2>2 DEF toggleSlot
  <1>6. CASE Retry
    BY <1>1, <1>6 DEF Retry, loadAvailability
  <1>7. CASE handleSubmit
    BY <1>1, <1>7 DEF handleSubmit
  <1>8. ASSUME NEW l \in loads, ServeLoad(l) \/ LoseLoad(l)
        PROVE  SelectionIsOffered'
    BY <1>1, <1>8 DEF ServeLoad, LoseLoad, page
  <1>9. ASSUME NEW p \in posts, createBookingRequest(p) \/ RefuseRequest(p)
        PROVE  SelectionIsOffered'
    BY <1>1, <1>9 DEF createBookingRequest, RefuseRequest, Settle, page
  <1>10. ASSUME NEW l \in loads, AnswerLoad(l)
         PROVE  SelectionIsOffered'
    <2>1. CASE DropStale(l) \/ FailLoad(l)
      BY <1>1, <2>1 DEF DropStale, FailLoad
    <2>2. CASE ShowOffer(l)
      <3>1. shown' \in Offer /\ sel' = ensureSelectionStillValid(sel, shown')
        BY <2>2 DEF ShowOffer, TypeInv, Answered
      <3> QED BY <1>0, <3>1, EnsureOffered
    <2> QED BY <1>10, <2>1, <2>2 DEF AnswerLoad
  <1>11. ASSUME NEW p \in posts, AnswerPost(p)
         PROVE  SelectionIsOffered'
    BY <1>1, <1>11 DEF AnswerPost, AnswerCreated, AnswerUnauthorized, AnswerFailed,
       loadAvailability
  <1>12. ASSUME NEW range \in Wanted, BookForSomebody(range)
         PROVE  SelectionIsOffered'
    BY <1>1, <1>12 DEF BookForSomebody, Elsewhere, page
  <1>13. CASE SessionEnds
    BY <1>1, <1>13 DEF SessionEnds, page
  <1>14. ASSUME NEW b \in bookings,
                cancelBooking(b) \/ \E range \in Wanted : adminMoveBooking(b, range)
         PROVE  SelectionIsOffered'
    BY <1>1, <1>14, ChangeTypes DEF page
  <1>15. CASE UNCHANGED vars
    BY <1>1, <1>15 DEF vars, server, page
  <1> QED
    BY <1>2, <1>3, <1>4, <1>5, <1>6, <1>7, <1>8, <1>9, <1>10, <1>11, <1>12, <1>13, <1>14,
       <1>15, NextSplits DEF Actions

(* A visitor never has a room, a table or a slot selected that the page    *)
(* does not offer (SelectionIsOffered).                                    *)
THEOREM SelectionsAreOffered == Spec => []SelectionIsOffered
  BY TypesKept, InitSelection, NextSelection, PTL DEF Spec

-----------------------------------------------------------------------------
(* What the page says is booked is not on offer. *)

(* An answer that still counts was computed after the booking the page     *)
(* knows of: the answer to the request gives up the older questions.  All  *)
(* this holds until somebody cancels or moves that booking (Kept).         *)
Kept == created # None /\ created.n \notin changed

OwnInv ==
    /\ OwnBookingNotOffered
    /\ \A p \in posts : p.result = "created" /\ p.n \notin changed => BookingOf(p) \in bookings
    /\ Kept => created \in bookings
    /\ \A l \in loads : ~ l.cancelled /\ l.result = "offer" /\ Kept =>
          (created.range.day = l.date
              => created.range.slots \cap l.offer.free[created.range.table] = {})

LEMMA InitOwn == Init => OwnInv
  BY DEF Init, OwnInv, OwnBookingNotOffered, Kept, Question

LEMMA NextOwn == TypeInv /\ OwnInv /\ [Next]_vars => OwnInv'
  <1> SUFFICES ASSUME TypeInv, OwnInv, [Next]_vars PROVE OwnInv'
    OBVIOUS
  <1>0. loads \subseteq Load /\ posts \subseteq Post /\ sel.date \in Days
        /\ bookings \subseteq Booking
    BY DEF TypeInv, FlowTypeOK, Selection
  <1>1. ASSUME UNCHANGED <<shown, created, loads>>, changed \subseteq changed',
               \A b \in bookings : b \in bookings' \/ b.n \in changed',
               view' = "ready" => view = "ready",
               \A p \in posts' : p.result = "created" => p \in posts
        PROVE  OwnInv'
    <2>1. \A p \in posts : BookingOf(p).n = p.n
      BY DEF BookingOf
    <2>2. Kept' => Kept
      BY <1>1 DEF Kept
    <2>3. Kept' => created' \in bookings'
      BY <1>1, <2>2 DEF OwnInv, Kept
    <2>4. \A p \in posts' : p.result = "created" /\ p.n \notin changed' => BookingOf(p) \in bookings'
      BY <1>1, <2>1 DEF OwnInv
    <2> QED BY <1>1, <2>2, <2>3, <2>4 DEF OwnInv, OwnBookingNotOffered, LoadUnderWay, Kept
  <1>2. ASSUME NEW day \in Days, loadAvailability(day), UNCHANGED <<bookings, changed>>,
               posts' \subseteq posts, Kept' => created' \in bookings
        PROVE  OwnInv'
    <2>1. \A l \in loads' : ~ l.cancelled => l.result # "offer"
      BY <1>2, LoadTypes, QuestionType
    <2>2. LoadUnderWay'
      BY <1>2, LoadTypes DEF LoadUnderWay
    <2> QED BY <1>2, <2>1, <2>2 DEF OwnInv, OwnBookingNotOffered, BookingOf
  <1>3. ASSUME NEW day \in Days, SelectDate(day)
        PROVE  OwnInv'
    BY <1>2, <1>3 DEF SelectDate, onSelectionChange, server, OwnInv, Kept
  <1>4. CASE Retry
    BY <1>0, <1>2, <1>4 DEF Retry, server, OwnInv, Kept
  <1>5. CASE \/ \E room \in Rooms : SelectRoom(room)
             \/ \E table \in Tables : SelectTable(table)
             \/ \E slot \in SlotId : toggleSlot(slot)
    BY <1>1, <1>5 DEF SelectRoom, SelectTable, toggleSlot, onSelectionChange, server
  <1>6. CASE handleSubmit
    <2>1. \A p \in posts' : p.result = "created" => p \in posts
      BY <1>6 DEF handleSubmit, SendRequest, RefuseSelection
    <2> QED BY <1>6, <2>1 DEF handleSubmit, server, OwnInv, OwnBookingNotOffered, Kept
  <1>7. ASSUME NEW l \in loads, NEW new \in Load, loads' = (loads \ {l}) \cup {new},
               new.cancelled = l.cancelled, new.date = l.date,
               new.result = "offer" => new.offer = getAvailability(l.date),
               UNCHANGED <<server, page, posts>>
        PROVE  OwnInv'
    <2>1. LoadUnderWay' = LoadUnderWay
      BY <1>7 DEF LoadUnderWay
    <2>2. ASSUME Kept, created.range.day = l.date
          PROVE  created.range.slots \cap getAvailability(l.date).free[created.range.table] = {}
      <3>1. created \in bookings /\ created.range.table \in Tables
        BY <1>0, <2>2 DEF OwnInv, Booking, Range
      <3>2. created.range.slots \subseteq Booked(bookings, l.date, created.range.table)
        BY <2>2, <3>1 DEF Booked
      <3>3. getAvailability(l.date).free[created.range.table]
                = Slots \ Booked(bookings, l.date, created.range.table)
        BY <3>1 DEF getAvailability
      <3> QED BY <3>2, <3>3
    <2> QED BY <1>7, <2>1, <2>2 DEF server, page, OwnInv, OwnBookingNotOffered, Kept
  <1>8. ASSUME NEW l \in loads, ServeLoad(l) \/ LoseLoad(l)
        PROVE  OwnInv'
    <2>1. CASE ServeLoad(l) /\ signedIn
      <3> DEFINE new == [l EXCEPT !.result = "offer", !.offer = getAvailability(l.date)]
      <3>1. /\ new \in Load /\ new.cancelled = l.cancelled /\ new.date = l.date
            /\ new.offer = getAvailability(l.date)
        BY <1>0, OfferType DEF Load
      <3>2. loads' = (loads \ {l}) \cup {new} /\ UNCHANGED <<server, page, posts>>
        BY <2>1 DEF ServeLoad
      <3> HIDE DEF new
      <3> QED BY <1>7, <3>1, <3>2
    <2>2. CASE ServeLoad(l) /\ ~ signedIn
      <3> DEFINE new == [l EXCEPT !.result = "unauthorized"]
      <3>1. /\ new \in Load /\ new.cancelled = l.cancelled /\ new.date = l.date
            /\ new.result # "offer"
        BY <1>0 DEF Load
      <3>2. loads' = (loads \ {l}) \cup {new} /\ UNCHANGED <<server, page, posts>>
        BY <2>2 DEF ServeLoad
      <3> HIDE DEF new
      <3> QED BY <1>7, <3>1, <3>2
    <2>3. CASE LoseLoad(l)
      <3> DEFINE new == [l EXCEPT !.result = "lost"]
      <3>1. /\ new \in Load /\ new.cancelled = l.cancelled /\ new.date = l.date
            /\ new.result # "offer"
        BY <1>0 DEF Load
      <3>2. loads' = (loads \ {l}) \cup {new} /\ UNCHANGED <<server, page, posts>>
        BY <2>3 DEF LoseLoad
      <3> HIDE DEF new
      <3> QED BY <1>7, <3>1, <3>2
    <2> QED BY <1>8, <2>1, <2>2, <2>3
  <1>9. ASSUME NEW p \in posts, createBookingRequest(p) \/ RefuseRequest(p)
        PROVE  OwnInv'
    <2>1. CASE RefuseRequest(p)
      <3>1. PICK result \in {"failed", "unauthorized"} : Settle(p, result)
        BY <2>1 DEF RefuseRequest
      <3>2. [p EXCEPT !.result = result].result = result
        BY <1>0 DEF Post
      <3>3. \A q \in posts' : q.result = "created" => q \in posts
        BY <3>1, <3>2 DEF Settle
      <3> QED BY <1>1, <2>1, <3>1, <3>3 DEF RefuseRequest, Settle, page
    <2>2. CASE createBookingRequest(p)
      <3>1. bookings' = bookings \cup {BookingOf(p)} /\ UNCHANGED <<changed, page, loads>>
        BY <2>2 DEF createBookingRequest, Settle
      <3>2. PICK result \in {"created", "failed"} : Settle(p, result)
        BY <2>2 DEF createBookingRequest
      <3>3. BookingOf([p EXCEPT !.result = result]) = BookingOf(p)
        BY <1>0 DEF Post, BookingOf
      <3>4. \A q \in posts' : q \in posts \/ BookingOf(q) = BookingOf(p)
        BY <3>2, <3>3 DEF Settle
      <3>5. \A q \in posts' : q.result = "created" /\ q.n \notin changed'
                => BookingOf(q) \in bookings'
        BY <3>1, <3>4 DEF OwnInv
      <3> QED BY <3>1, <3>5 DEF page, OwnInv, OwnBookingNotOffered, LoadUnderWay, Kept
    <2> QED BY <1>9, <2>1, <2>2
  <1>10. ASSUME NEW l \in loads, AnswerLoad(l)
         PROVE  OwnInv'
    <2>1. loads' = loads \ {l} /\ UNCHANGED <<bookings, changed, created, posts>>
      BY <1>10 DEF AnswerLoad, server
    <2>2. CASE DropStale(l)
      BY <2>1, <2>2 DEF DropStale, IsLive, OwnInv, OwnBookingNotOffered, LoadUnderWay, Kept
    <2>3. CASE ShowOffer(l)
      <3>1. shown' = l.offer /\ l.offer.date = l.date /\ ~ l.cancelled /\ l.result = "offer"
        BY <2>3 DEF ShowOffer, IsLive, TypeInv, Answered
      <3> QED BY <2>1, <3>1 DEF OwnInv, OwnBookingNotOffered, Kept
    <2>4. CASE FailLoad(l)
      BY <2>1, <2>4 DEF FailLoad, OwnInv, OwnBookingNotOffered, Kept
    <2> QED BY <1>10, <2>2, <2>3, <2>4 DEF AnswerLoad
  <1>11. ASSUME NEW p \in posts, AnswerPost(p)
         PROVE  OwnInv'
    <2>1. CASE AnswerCreated(p)
      BY <1>0, <1>2, <1>11, <2>1 DEF AnswerPost, AnswerCreated, BookingOf, server, OwnInv, Kept
    <2>2. CASE AnswerUnauthorized(p) \/ AnswerFailed(p)
      BY <1>1, <1>11, <2>2 DEF AnswerPost, AnswerUnauthorized, AnswerFailed, server
    <2> QED BY <1>11, <2>1, <2>2 DEF AnswerPost
  <1>12. ASSUME NEW range \in Wanted, BookForSomebody(range)
         PROVE  OwnInv'
    BY <1>1, <1>12 DEF BookForSomebody, Elsewhere, page
  <1>13. CASE SessionEnds
    BY <1>1, <1>13 DEF SessionEnds, page
  <1>14. ASSUME NEW b \in bookings,
                cancelBooking(b) \/ \E range \in Wanted : adminMoveBooking(b, range)
         PROVE  OwnInv'
    BY <1>1, <1>14, ChangeTypes DEF page
  <1>15. CASE UNCHANGED vars
    BY <1>1, <1>15 DEF vars, server, page
  <1> QED
    BY <1>3, <1>4, <1>5, <1>6, <1>8, <1>9, <1>10, <1>11, <1>12, <1>13, <1>14, <1>15,
       NextSplits DEF Actions

(* The page never offers what it tells the visitor is booked, unless that  *)
(* booking was cancelled or moved since, no matter which answers were      *)
(* under way (OwnBookingNotOffered).                                       *)
THEOREM OwnSlotsAreGone == Spec => []OwnBookingNotOffered
  <1>1. OwnInv => OwnBookingNotOffered
    BY DEF OwnInv
  <1> QED BY <1>1, TypesKept, InitOwn, NextOwn, PTL DEF Spec

=============================================================================
